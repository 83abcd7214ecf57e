-------------------------- MODULE FrommelBinderyProofs --------------------------
(***************************************************************************)
(* The bindery files, for any names, values and numbers: what holds        *)
(* however long the chains are, whatever writes fail, and whenever the     *)
(* server is killed.  At the end, the values of set properties, for        *)
(* entries of any length and number.                                       *)
(***************************************************************************)
EXTENDS FrommelBindery, FrommelSets, SequenceTheorems, WellFoundedInduction, TLAPS

Objs  == Seq(ObjectRecord)
Props == Seq(PropertyRecord)
Vals  == Seq(ValueRecord)

\* Records of one number, one name per owner, one value per property.
IdsOnce(f)    == \A i, j \in DOMAIN f : f[i].id = f[j].id => i = j
NamesOnce(f)  == \A i, j \in DOMAIN f :
                   f[i].owner = f[j].owner /\ f[i].name = f[j].name => i = j
ValuesOnce(f) == \A i, j \in DOMAIN f : f[i].value = f[j].value => i = j

\* No two links lead to the same record, but for an object that is there twice.
NextOnce(f)      == \A i, j \in DOMAIN f : f[i].next = f[j].next => i = j \/ f[i].next = Nil
FirstOnce(o)     == \A i, j \in DOMAIN o :
                      o[i].first = o[j].first => o[i].id = o[j].id \/ o[i].first = Nil
LinkedOnce(o, f) == \A i \in DOMAIN o, j \in DOMAIN f :
                      o[i].first = f[j].next => o[i].first = Nil

\* A link leads to a later record, or to the record itself: bindio_add_prop
\* appends what it links, and links it to itself where a chain is broken.
Upward(f) == \A i, j \in DOMAIN f : f[i].next = f[j].id => i <= j

\* A link leads to a property of the same object.
Home(o, f) ==
  /\ \A i, j \in DOMAIN f : f[i].next = f[j].id => f[i].owner = f[j].owner
  /\ \A i \in DOMAIN o, j \in DOMAIN f : o[i].first = f[j].id => f[j].owner = o[i].id

\* What holds of an object file and a property file at any time, also where one
\* of them is older than the other.
Sound(o, f) ==
  /\ IdsOnce(f) /\ NamesOnce(f) /\ ValuesOnce(f)
  /\ NextOnce(f) /\ FirstOnce(o) /\ LinkedOnce(o, f)
  /\ Upward(f) /\ Home(o, f)

\* All numbers in a file were drawn.
OldObjs(o, n)  == \A i \in DOMAIN o : o[i].id <= n /\ o[i].first <= n
OldProps(f, n) == \A i \in DOMAIN f : /\ f[i].id <= n /\ f[i].next <= n
                                      /\ f[i].owner <= n /\ f[i].value <= n
OldVals(v, n)  == \A i \in DOMAIN v : v[i].id <= n

\* Records of one number are of one name; a record from the stack has neither.
NumbersNames(o) ==
  /\ \A i, j \in DOMAIN o : o[i].id = o[j].id <=> o[i].name = o[j].name
  /\ \A i \in DOMAIN o : o[i].id = 0 <=> o[i].name = NoName

-----------------------------------------------------------------------------
(* Numbers and scans *)

LEMMA FilesType ==
  /\ \A r \in ObjectRecord : r.id \in Nat /\ r.first \in Int
  /\ \A r \in PropertyRecord : /\ r.id \in Nat /\ r.owner \in Nat /\ r.value \in Nat
                               /\ r.next \in Int /\ r.id # Nil
  /\ \A r \in ValueRecord : r.id \in Nat
  /\ Nil \in Int
BY BinderyAssumption DEF ObjectRecord, PropertyRecord, ValueRecord, Number, Link, Nil

LEMMA LeastOfSet ==
  ASSUME NEW T, T \subseteq Nat, T # {}
  PROVE  Least(T) \in T /\ \A m \in T : Least(T) <= m
<1> DEFINE R == OpToRel(<, Nat)
<1>1. \A m, n \in Nat : m < n => <<m, n>> \in R
  BY DEF OpToRel
<1>2. IsWellFoundedOn(R, Nat)
  BY NatLessThanWellFounded
<1> HIDE DEF R
<1>3. PICK n \in T : \A m \in T : <<m, n>> \notin R
  BY <1>2, WFMin
<1>4. ASSUME NEW m \in T PROVE n <= m
  <2>1. m \in Nat /\ n \in Nat /\ ~(m < n)
    BY <1>1, <1>3
  <2>2. QED
    BY <2>1
<1>5. \E k \in T : \A m \in T : k <= m
  BY <1>4
<1>6. QED
  BY <1>5 DEF Least

LEMMA LeastOfOne ==
  ASSUME NEW i \in Nat
  PROVE  Least({i}) = i
BY DEF Least

\* Induction up to a number, over what holds of the members of a set.
LEMMA Climb ==
  ASSUME NEW n \in Nat, NEW S, 0 \in S, \A i \in 1..n : i - 1 \in S => i \in S
  PROVE  0..n \subseteq S
<1> DEFINE T == (0..n) \ S
<1>1. SUFFICES ASSUME T # {} PROVE FALSE
  OBVIOUS
<1>2. PICK i \in T : \A j \in T : i <= j
  <2>1. T \subseteq Nat
    OBVIOUS
  <2> HIDE DEF T
  <2>2. QED
    BY <1>1, <2>1, LeastOfSet
<1>3. i \in 1..n /\ i - 1 \notin T
  BY <1>2
<1>4. QED
  BY <1>2, <1>3

\* A scan for a number finds the record that has it.
LEMMA Scanned ==
  ASSUME NEW S, NEW f \in Seq(S), NEW id
  PROVE  /\ WithId(f, id) \subseteq 1..Len(f)
         /\ WithId(f, id) # {} => /\ Least(WithId(f, id)) \in 1..Len(f)
                                  /\ f[Least(WithId(f, id))].id = id
<1>1. WithId(f, id) \subseteq 1..Len(f)
  BY DEF WithId
<1>2. WithId(f, id) # {} => Least(WithId(f, id)) \in WithId(f, id)
  BY <1>1, LeastOfSet
<1>3. QED
  BY <1>1, <1>2 DEF WithId

LEMMA ScannedOnce ==
  ASSUME NEW S, NEW f \in Seq(S), IdsOnce(f), NEW i \in DOMAIN f
  PROVE  WithId(f, f[i].id) = {i} /\ Least(WithId(f, f[i].id)) = i
<1>1. WithId(f, f[i].id) = {i}
  BY DEF WithId, IdsOnce
<1>2. i \in Nat
  OBVIOUS
<1>3. QED
  BY <1>1, <1>2, LeastOfOne

-----------------------------------------------------------------------------
(* Chains *)

\* One step along a chain.
Follow(f, id) == IF WithId(f, id) = {} THEN id ELSE f[Least(WithId(f, id))].next

LEMMA ChainSteps ==
  ASSUME NEW f \in Props, NEW first
  PROVE  /\ DOMAIN Chain(f, first) = 0..Len(f)
         /\ Chain(f, first)[0] = first
         /\ \A k \in 1..Len(f) : Chain(f, first)[k] = Follow(f, Chain(f, first)[k - 1])
<1> DEFINE step(g, k) == IF k = 0 THEN first ELSE Follow(f, g[k - 1])
           link == CHOOSE g : g = [k \in 0..Len(f) |-> step(g, k)]
           V == {first} \cup {f[i].next : i \in DOMAIN f}
           Starts(n, g) == \A k \in 0..n : g[k] = step(g, k)
           Started == {n \in Nat : \E g \in [0..n -> V] : Starts(n, g)}
<1>1. Chain(f, first) = link
  BY DEF Chain, Follow
<1>2. Len(f) \in Nat
  BY DEF Props
<1>3. \A id \in V : Follow(f, id) \in V
  <2>1. \A id : WithId(f, id) # {} => Least(WithId(f, id)) \in DOMAIN f
    BY Scanned DEF Props
  <2>2. QED
    BY <2>1 DEF Follow
<1>4. 0 \in Started
  <2>1. [k \in 0..0 |-> first] \in [0..0 -> V] /\ Starts(0, [k \in 0..0 |-> first])
    OBVIOUS
  <2>2. QED
    BY <2>1
<1> HIDE DEF V
<1>5. ASSUME NEW n \in 1..Len(f), n - 1 \in Started PROVE n \in Started
  <2>1. PICK g \in [0..n-1 -> V] : Starts(n - 1, g)
    BY <1>5
  <2> DEFINE h == [k \in 0..n |-> IF k = n THEN Follow(f, g[n - 1]) ELSE g[k]]
  <2>2. h \in [0..n -> V]
    BY <1>3, <2>1
  <2>3. ASSUME NEW k \in 0..n PROVE h[k] = step(h, k)
    <3>1. CASE k = n
      BY <3>1
    <3>2. CASE k # n
      <4>1. g[k] = step(g, k) /\ h[k] = g[k]
        BY <2>1, <3>2
      <4>2. k # 0 => h[k - 1] = g[k - 1]
        BY <3>2
      <4>3. QED
        BY <4>1, <4>2
    <3>3. QED
      BY <3>1, <3>2
  <2> HIDE DEF h
  <2>4. Starts(n, h)
    BY <2>3
  <2> HIDE DEF Starts
  <2>5. QED
    BY <2>2, <2>4
<1>6. PICK g \in [0..Len(f) -> V] : Starts(Len(f), g)
  <2> HIDE DEF Starts, Started
  <2>1. 0..Len(f) \subseteq Started
    BY <1>2, <1>4, <1>5, Climb
  <2>2. Len(f) \in Started
    BY <1>2, <2>1
  <2>3. QED
    BY <2>2 DEF Started
<1>7. link = [k \in 0..Len(f) |-> step(link, k)]
  <2>1. g = [k \in 0..Len(f) |-> step(g, k)]
    BY <1>6
  <2> HIDE DEF step
  <2>2. QED
    BY <2>1
<1> HIDE DEF link
<1>8. QED
  BY <1>1, <1>2, <1>7

\* A chain stays in any set that has its first link and those of the records.
LEMMA ChainIn ==
  ASSUME NEW f \in Props, NEW first, NEW S, first \in S, \A i \in DOMAIN f : f[i].next \in S
  PROVE  \A k \in 0..Len(f) : Chain(f, first)[k] \in S
<1> DEFINE T == {k \in Nat : Chain(f, first)[k] \in S}
<1>1. 0 \in T
  BY ChainSteps
<1>2. ASSUME NEW k \in 1..Len(f), k - 1 \in T PROVE k \in T
  <2>1. Chain(f, first)[k] = Follow(f, Chain(f, first)[k - 1])
    BY ChainSteps
  <2>2. \A id : WithId(f, id) # {} => Least(WithId(f, id)) \in DOMAIN f
    BY Scanned DEF Props
  <2>3. QED
    BY <1>2, <2>1, <2>2 DEF Follow
<1>3. Len(f) \in Nat
  BY DEF Props
<1> HIDE DEF T
<1>4. 0..Len(f) \subseteq T
  BY <1>1, <1>2, <1>3, Climb
<1>5. QED
  BY <1>4 DEF T

\* Along the chain of an object the records come later and later in the file,
\* belong to the object, and none is linked to itself: nothing else could lead to
\* that one.
LEMMA ChainClimbs ==
  ASSUME NEW o \in Objs, NEW f \in Props, Sound(o, f), NEW i \in DOMAIN o, NEW k \in 0..Len(f),
         NEW j \in DOMAIN f, f[j].id = Chain(f, o[i].first)[k]
  PROVE  j > k /\ f[j].owner = o[i].id /\ f[j].next # f[j].id
<1> DEFINE link == Chain(f, o[i].first)
           Up(n) == \A a \in DOMAIN f : f[a].id = link[n] =>
                      a > n /\ f[a].owner = o[i].id /\ f[a].next # f[a].id
           T == {n \in Nat : Up(n)}
<1>1. /\ Len(f) \in Nat /\ DOMAIN f = 1..Len(f)
      /\ \A a \in DOMAIN f : f[a].id # Nil
  BY FilesType DEF Props
<1>2. link[0] = o[i].first /\ \A n \in 1..Len(f) : link[n] = Follow(f, link[n - 1])
  BY ChainSteps
<1> HIDE DEF link
<1>3. 0 \in T
  <2>1. ASSUME NEW a \in DOMAIN f, f[a].id = o[i].first
        PROVE  a > 0 /\ f[a].owner = o[i].id /\ f[a].next # f[a].id
    BY <1>1, <2>1 DEF Sound, Home, LinkedOnce
  <2>2. Up(0)
    BY <1>2, <2>1
  <2> HIDE DEF Up
  <2>3. QED
    BY <2>2
<1>4. ASSUME NEW n \in 1..Len(f), n - 1 \in T PROVE n \in T
  <2>1. CASE WithId(f, link[n - 1]) = {}
    <3>1. link[n] = link[n - 1]
      BY <1>2, <2>1 DEF Follow
    <3>2. \A a \in DOMAIN f : f[a].id # link[n]
      BY <2>1, <3>1 DEF WithId
    <3>3. QED
      BY <3>2
  <2>2. CASE WithId(f, link[n - 1]) # {}
    <3> DEFINE found == Least(WithId(f, link[n - 1]))
    <3>0. found \in 1..Len(f) /\ f[found].id = link[n - 1]
      BY <2>2, Scanned DEF Props
    <3>1. PICK b \in DOMAIN f : f[b].id = link[n - 1] /\ link[n] = f[b].next
      <4>1. link[n] = f[found].next
        BY <1>2, <2>2 DEF Follow
      <4> HIDE DEF found
      <4>2. QED
        BY <1>1, <3>0, <4>1
    <3>2. b > n - 1 /\ f[b].owner = o[i].id /\ f[b].next # f[b].id
      BY <1>4, <3>1
    <3>3. ASSUME NEW a \in DOMAIN f, f[a].id = f[b].next
          PROVE  a > n /\ f[a].owner = o[i].id /\ f[a].next # f[a].id
      <4>1. b <= a /\ b # a /\ f[a].owner = f[b].owner
        BY <3>2, <3>3 DEF Sound, Upward, Home
      <4>2. f[a].next # f[a].id
        BY <1>1, <3>3, <4>1 DEF Sound, NextOnce
      <4>3. QED
        BY <1>1, <3>2, <4>1, <4>2
    <3>4. QED
      BY <3>1, <3>3
  <2>3. QED
    BY <2>1, <2>2
<1>5. k \in T
  <2> HIDE DEF T
  <2>1. 0..Len(f) \subseteq T
    BY <1>1, <1>3, <1>4, Climb
  <2>2. QED
    BY <2>1
<1>6. QED
  BY <1>5 DEF T, link

\* bindio_dump comes to the end of every chain.
LEMMA ChainsEnd ==
  ASSUME NEW o \in Objs, NEW f \in Props, Sound(o, f)
  PROVE  DumpEnds(o, f)
<1> SUFFICES ASSUME NEW i \in DOMAIN o, WithId(f, ChainEnd(f, o[i].first)) # {}
             PROVE  FALSE
  BY DEF DumpEnds, ChainEnds
<1>1. Len(f) \in Nat /\ DOMAIN f = 1..Len(f)
  BY DEF Props
<1>2. PICK j \in DOMAIN f : f[j].id = Chain(f, o[i].first)[Len(f)]
  BY <1>1 DEF WithId, ChainEnd
<1>3. j > Len(f)
  BY <1>1, <1>2, ChainClimbs
<1>4. QED
  BY <1>1, <1>3

\* The records of a chain are those its links name.
LEMMA ChainedIs ==
  ASSUME NEW f \in Props, NEW first, IdsOnce(f)
  PROVE  /\ Chained(f, first) \subseteq 1..Len(f)
         /\ \A j \in DOMAIN f : j \in Chained(f, first) <=>
              \E k \in 0..Len(f) : Chain(f, first)[k] = f[j].id
<1>1. Range(Chain(f, first)) = {Chain(f, first)[k] : k \in 0..Len(f)}
  BY ChainSteps DEF Range
<1>2. \A j \in Chained(f, first) :
        /\ j \in 1..Len(f)
        /\ \E k \in 0..Len(f) : Chain(f, first)[k] = f[j].id
  BY <1>1, Scanned DEF Chained, Props
<1>3. ASSUME NEW j \in DOMAIN f, NEW k \in 0..Len(f), Chain(f, first)[k] = f[j].id
      PROVE  j \in Chained(f, first)
  <2>1. WithId(f, f[j].id) = {j} /\ Least(WithId(f, f[j].id)) = j
    BY ScannedOnce DEF Props
  <2>2. f[j].id \in Range(Chain(f, first))
    BY <1>1, <1>3
  <2>3. f[j].id \in {id \in Range(Chain(f, first)) : WithId(f, id) # {}}
    BY <2>1, <2>2
  <2>4. QED
    BY <2>1, <2>3 DEF Chained
<1>4. QED
  BY <1>2, <1>3

LEMMA ChainsHome ==
  ASSUME NEW o \in Objs, NEW f \in Props, Sound(o, f), NEW i \in DOMAIN o,
         NEW j \in Chained(f, o[i].first)
  PROVE  f[j].owner = o[i].id
<1>1. DOMAIN f = 1..Len(f) /\ IdsOnce(f)
  BY DEF Props, Sound
<1>2. j \in DOMAIN f
  BY <1>1, ChainedIs
<1>3. PICK k \in 0..Len(f) : Chain(f, o[i].first)[k] = f[j].id
  BY <1>1, <1>2, ChainedIs
<1>4. QED
  BY <1>2, <1>3, ChainClimbs

-----------------------------------------------------------------------------
(* Complete chains *)

\* Every link leads somewhere, and something leads to every property.
Leads(o, f) ==
  /\ \A i \in DOMAIN o : o[i].first # Nil => WithId(f, o[i].first) # {}
  /\ \A i \in DOMAIN f : f[i].next # Nil => WithId(f, f[i].next) # {}
Reached(o, f) ==
  \A k \in DOMAIN f : \/ \E i \in DOMAIN o : o[i].first = f[k].id
                      \/ \E j \in DOMAIN f : j < k /\ f[j].next = f[k].id

Complete(o, f) == Leads(o, f) /\ Reached(o, f)

ObjsOnce(o, D) == \A i, j \in D : o[i].id = o[j].id \/ o[i].name = o[j].name => i = j

\* A property whose chain reaches a record before the last reaches the next, too.
LEMMA ChainGoesOn ==
  ASSUME NEW o \in Objs, NEW f \in Props, Sound(o, f), NEW i \in DOMAIN o,
         NEW j \in Chained(f, o[i].first), NEW k \in DOMAIN f, f[j].next = f[k].id
  PROVE  k \in Chained(f, o[i].first)
<1>1. DOMAIN f = 1..Len(f) /\ Len(f) \in Nat /\ IdsOnce(f)
  BY DEF Props, Sound
<1>2. j \in DOMAIN f
  BY <1>1, ChainedIs
<1>3. PICK n \in 0..Len(f) : Chain(f, o[i].first)[n] = f[j].id
  BY <1>1, <1>2, ChainedIs
<1>4. j > n /\ f[j].next # f[j].id
  BY <1>2, <1>3, ChainClimbs
<1>5. j <= k /\ j # k
  BY <1>2, <1>4 DEF Sound, Upward
<1>6. n + 1 \in 1..Len(f) /\ (n + 1) - 1 = n
  BY <1>1, <1>2, <1>4, <1>5
<1>7. Chain(f, o[i].first)[n + 1] = Follow(f, f[j].id)
  BY <1>3, <1>6, ChainSteps
<1>8. WithId(f, f[j].id) = {j} /\ Least(WithId(f, f[j].id)) = j
  BY <1>1, <1>2, ScannedOnce DEF Props
<1>9. Chain(f, o[i].first)[n + 1] = f[k].id
  BY <1>7, <1>8 DEF Follow
<1>10. n + 1 \in 0..Len(f)
  BY <1>6
<1>11. QED
  BY <1>1, <1>9, <1>10, ChainedIs

\* A chain whose links all lead somewhere ends, and with a property if it has one.
LEMMA ChainEndsNil ==
  ASSUME NEW o \in Objs, NEW f \in Props, Sound(o, f), Leads(o, f), NEW i \in DOMAIN o
  PROVE  /\ ChainEnd(f, o[i].first) = Nil
         /\ \A k \in 0..Len(f) : Chain(f, o[i].first)[k] # Nil =>
              WithId(f, Chain(f, o[i].first)[k]) # {}
<1>1. Len(f) \in 0..Len(f)
  BY DEF Props
<1> DEFINE S == {id \in {o[i].first} \cup {f[a].next : a \in DOMAIN f} :
                   id # Nil => WithId(f, id) # {}}
<1>2. o[i].first \in S /\ \A a \in DOMAIN f : f[a].next \in S
  BY DEF Leads
<1> HIDE DEF S
<1>3. \A k \in 0..Len(f) : Chain(f, o[i].first)[k] \in S
  BY <1>2, ChainIn
<1>4. WithId(f, Chain(f, o[i].first)[Len(f)]) = {}
  BY ChainsEnd DEF DumpEnds, ChainEnds, ChainEnd
<1>5. QED
  BY <1>1, <1>3, <1>4 DEF S, ChainEnd

LEMMA ChainHasEnd ==
  ASSUME NEW o \in Objs, NEW f \in Props, Sound(o, f), Leads(o, f), NEW i \in DOMAIN o,
         o[i].first # Nil
  PROVE  \E j \in Chained(f, o[i].first) : f[j].next = Nil
<1> DEFINE link == Chain(f, o[i].first)
           T == {k \in 0..Len(f) : link[k] = Nil}
<1>1. DOMAIN f = 1..Len(f) /\ Len(f) \in Nat /\ IdsOnce(f)
  BY DEF Props, Sound
<1>2. PICK k \in T : \A m \in T : k <= m
  <2>1. T \subseteq Nat /\ T # {}
    BY <1>1, ChainEndsNil DEF ChainEnd
  <2> HIDE DEF T
  <2>2. QED
    BY <2>1, LeastOfSet
<1>3. link[0] = o[i].first /\ \A m \in 1..Len(f) : link[m] = Follow(f, link[m - 1])
  BY ChainSteps
<1>4. k \in 1..Len(f) /\ k - 1 \in 0..Len(f) /\ link[k - 1] # Nil
  BY <1>1, <1>2, <1>3
<1>5. WithId(f, link[k - 1]) # {}
  BY <1>4, ChainEndsNil
<1> DEFINE j == Least(WithId(f, link[k - 1]))
<1>6. j \in DOMAIN f /\ f[j].id = link[k - 1]
  BY <1>5, Scanned DEF Props
<1>7. f[j].next = Nil
  BY <1>2, <1>3, <1>4, <1>5 DEF Follow
<1>8. j \in Chained(f, o[i].first)
  BY <1>1, <1>4, <1>6, ChainedIs
<1>9. QED
  BY <1>7, <1>8

LEMMA ChainsWhole ==
  ASSUME NEW o \in Objs, NEW f \in Props, Sound(o, f), Complete(o, f), ObjsOnce(o, DOMAIN o),
         NEW i \in DOMAIN o
  PROVE  /\ ChainEnd(f, o[i].first) = Nil
         /\ Chained(f, o[i].first) = {k \in DOMAIN f : f[k].owner = o[i].id}
<1>1. DOMAIN f = 1..Len(f) /\ Len(f) \in Nat /\ IdsOnce(f)
  BY DEF Props, Sound
<1>2. ChainEnd(f, o[i].first) = Nil
  BY ChainEndsNil DEF Complete
<1>3. Chained(f, o[i].first) \subseteq {k \in DOMAIN f : f[k].owner = o[i].id}
  BY <1>1, ChainedIs, ChainsHome
<1>4. ASSUME NEW k \in DOMAIN f, f[k].owner = o[i].id, k \notin Chained(f, o[i].first)
      PROVE  FALSE
  <2> DEFINE T == {a \in DOMAIN f : f[a].owner = o[i].id /\ a \notin Chained(f, o[i].first)}
  <2>1. PICK a \in T : \A b \in T : a <= b
    <3>1. T \subseteq Nat /\ T # {}
      BY <1>1, <1>4
    <3> HIDE DEF T
    <3>2. QED
      BY <3>1, LeastOfSet
  <2>2. CASE \E n \in DOMAIN o : o[n].first = f[a].id
    <3>1. PICK n \in DOMAIN o : o[n].first = f[a].id
      BY <2>2
    <3>2. n = i
      BY <2>1, <3>1 DEF Sound, Home, ObjsOnce
    <3>3. Chain(f, o[i].first)[0] = f[a].id /\ 0 \in 0..Len(f)
      BY <1>1, <3>1, <3>2, ChainSteps
    <3>4. QED
      BY <1>1, <2>1, <3>3, ChainedIs
  <2>3. CASE \E j \in DOMAIN f : j < a /\ f[j].next = f[a].id
    <3>1. PICK j \in DOMAIN f : j < a /\ f[j].next = f[a].id
      BY <2>3
    <3>2. f[j].owner = o[i].id
      BY <2>1, <3>1 DEF Sound, Home
    <3>3. j \in Chained(f, o[i].first)
      BY <1>1, <2>1, <3>1, <3>2
    <3>4. QED
      BY <2>1, <3>1, <3>3, ChainGoesOn
  <2>4. QED
    BY <2>1, <2>2, <2>3 DEF Complete, Reached
<1>5. QED
  BY <1>2, <1>3, <1>4

-----------------------------------------------------------------------------
(* What the calls do to the files *)

LEMMA FrontOf ==
  ASSUME NEW S, NEW s \in Seq(S), s # <<>>
  PROVE  /\ Front(s) \in Seq(S) /\ Len(Front(s)) = Len(s) - 1
         /\ DOMAIN Front(s) = 1..Len(s)-1
         /\ \A i \in 1..Len(s)-1 : Front(s)[i] = s[i]
<1>1. Len(s) \in Nat /\ Len(s) > 0
  OBVIOUS
<1>2. \A i \in 1..Len(s)-1 : s[i] \in S
  OBVIOUS
<1> DEFINE n == Len(s) - 1
<1>3. n \in Int /\ 1 \in Int /\ n >= 0
  BY <1>1
<1>4. \A i \in 1..n : s[i] \in S
  BY <1>2
<1> HIDE DEF n
<1>5. /\ SubSeq(s, 1, n) \in Seq(S)
      /\ Len(SubSeq(s, 1, n)) = IF 1 <= n THEN n - 1 + 1 ELSE 0
      /\ \A i \in 1..n-1+1 : SubSeq(s, 1, n)[i] = s[1 + i - 1]
  BY <1>3, <1>4, SubSeqProperties
<1>6. Front(s) = SubSeq(s, 1, n)
  BY DEF Front, n
<1>7. Len(Front(s)) = n /\ n - 1 + 1 = n /\ \A i \in 1..n : 1 + i - 1 = i
  BY <1>3, <1>5, <1>6
<1>8. QED
  BY <1>5, <1>6, <1>7 DEF n

\* An object file in which a record is replaced by one whose link leads nowhere,
\* or to a property of that object which nothing else leads to.
LEMMA ObjReplaced ==
  ASSUME NEW o \in Objs, NEW f \in Props, Sound(o, f), NEW i \in DOMAIN o, NEW r \in ObjectRecord,
         \/ r.first = Nil
         \/ /\ \A j \in DOMAIN o : o[j].first # r.first
            /\ \A j \in DOMAIN f : f[j].next # r.first
            /\ \A j \in DOMAIN f : f[j].id = r.first => f[j].owner = r.id
  PROVE  [o EXCEPT ![i] = r] \in Objs /\ Sound([o EXCEPT ![i] = r], f)
<1> DEFINE p == [o EXCEPT ![i] = r]
<1>1. p \in Objs /\ DOMAIN p = DOMAIN o /\ \A j \in DOMAIN o : p[j] = IF j = i THEN r ELSE o[j]
  BY ExceptSeq DEF Objs
<1>2. \A j \in DOMAIN f : f[j].id # Nil
  BY FilesType DEF Props
<1> HIDE DEF p
<1>3. FirstOnce(p)
  BY <1>1 DEF Sound, FirstOnce
<1>4. LinkedOnce(p, f)
  BY <1>1 DEF Sound, LinkedOnce
<1>5. Home(p, f)
  BY <1>1, <1>2 DEF Sound, Home
<1>6. p \in Objs /\ Sound(p, f)
  BY <1>1, <1>3, <1>4, <1>5 DEF Sound
<1>7. QED
  BY <1>6 DEF p

\* A file of records that are all in another one.
PartOf(q, o) == \A j \in DOMAIN q : \E k \in DOMAIN o : q[j] = o[k]

LEMMA PartKeeps ==
  ASSUME NEW o \in Objs, NEW q \in Objs, PartOf(q, o), NEW n
  PROVE  /\ \A f : Sound(o, f) => Sound(q, f)
         /\ OldObjs(o, n) => OldObjs(q, n)
         /\ NumbersNames(o) => NumbersNames(q)
<1>1. PICK k \in [DOMAIN q -> DOMAIN o] : \A j \in DOMAIN q : q[j] = o[k[j]]
  <2> DEFINE k == [j \in DOMAIN q |-> CHOOSE x \in DOMAIN o : q[j] = o[x]]
  <2>1. \A j \in DOMAIN q : k[j] \in DOMAIN o /\ q[j] = o[k[j]]
    BY DEF PartOf
  <2>2. QED
    BY <2>1
<1>2. \A j \in DOMAIN q : k[j] \in DOMAIN o
  BY <1>1
<1>3. ASSUME NEW f, Sound(o, f) PROVE Sound(q, f)
  <2>1. FirstOnce(q)
    BY <1>1, <1>2, <1>3 DEF Sound, FirstOnce
  <2>2. LinkedOnce(q, f)
    BY <1>1, <1>2, <1>3 DEF Sound, LinkedOnce
  <2>3. Home(q, f)
    BY <1>1, <1>2, <1>3 DEF Sound, Home
  <2>4. QED
    BY <1>3, <2>1, <2>2, <2>3 DEF Sound
<1>4. OldObjs(o, n) => OldObjs(q, n)
  BY <1>1, <1>2 DEF OldObjs
<1>5. NumbersNames(o) => NumbersNames(q)
  BY <1>1, <1>2 DEF NumbersNames
<1>6. QED
  BY <1>3, <1>4, <1>5

LEMMA ObjAppended ==
  ASSUME NEW o \in Objs, NEW f \in Props, Sound(o, f), NEW r \in ObjectRecord, r.first = Nil
  PROVE  Append(o, r) \in Objs /\ Sound(Append(o, r), f)
<1> DEFINE p == Append(o, r)
<1>1. /\ p \in Objs /\ DOMAIN p = 1..Len(o)+1 /\ DOMAIN o = 1..Len(o) /\ Len(o) \in Nat
      /\ \A j \in DOMAIN p : p[j] = IF j \in DOMAIN o THEN o[j] ELSE r
  BY AppendProperties DEF Objs
<1>2. \A j \in DOMAIN f : f[j].id # Nil
  BY FilesType DEF Props
<1> HIDE DEF p
<1>3. FirstOnce(p)
  BY <1>1 DEF Sound, FirstOnce
<1>4. LinkedOnce(p, f)
  BY <1>1 DEF Sound, LinkedOnce
<1>5. Home(p, f)
  BY <1>1, <1>2 DEF Sound, Home
<1>6. p \in Objs /\ Sound(p, f)
  BY <1>1, <1>3, <1>4, <1>5 DEF Sound
<1>7. QED
  BY <1>6 DEF p

\* The last record takes the place of record i.
MovedTo(s, i) == Front([s EXCEPT ![i] = s[Len(s)]])

LEMMA MovedIs ==
  ASSUME NEW S, NEW s \in Seq(S), NEW i \in DOMAIN s
  PROVE  /\ MovedTo(s, i) \in Seq(S)
         /\ DOMAIN MovedTo(s, i) = 1..Len(s)-1
         /\ \A j \in 1..Len(s)-1 : MovedTo(s, i)[j] = IF j = i THEN s[Len(s)] ELSE s[j]
<1> DEFINE t == [s EXCEPT ![i] = s[Len(s)]]
<1>1. Len(s) \in Nat \ {0} /\ i \in 1..Len(s) /\ s[Len(s)] \in S
  OBVIOUS
<1>2. t \in Seq(S) /\ Len(t) = Len(s) /\ \A j \in 1..Len(s) : t[j] = IF j = i THEN s[Len(s)] ELSE s[j]
  BY <1>1, ExceptSeq
<1> HIDE DEF t
<1>3. t # <<>>
  BY <1>1, <1>2
<1>4. /\ Front(t) \in Seq(S) /\ DOMAIN Front(t) = 1..Len(s)-1
      /\ \A j \in 1..Len(s)-1 : Front(t)[j] = t[j]
  BY <1>2, <1>3, FrontOf
<1>5. MovedTo(s, i) = Front(t)
  BY DEF MovedTo, t
<1>6. \A j \in 1..Len(s)-1 : Front(t)[j] = IF j = i THEN s[Len(s)] ELSE s[j]
  BY <1>1, <1>2, <1>4
<1>7. QED
  BY <1>4, <1>5, <1>6

LEMMA ObjRemoved ==
  ASSUME NEW o \in Objs, NEW i \in DOMAIN o
  PROVE  MovedTo(o, i) \in Objs /\ PartOf(MovedTo(o, i), o)
<1>1. /\ MovedTo(o, i) \in Objs /\ DOMAIN MovedTo(o, i) = 1..Len(o)-1
      /\ \A j \in 1..Len(o)-1 : MovedTo(o, i)[j] = IF j = i THEN o[Len(o)] ELSE o[j]
  BY MovedIs DEF Objs
<1>2. 1..Len(o)-1 \subseteq DOMAIN o /\ Len(o) \in DOMAIN o
  BY DEF Objs
<1>3. QED
  BY <1>1, <1>2 DEF PartOf

\* A new property, with numbers that were never used, that nothing leads to yet.
LEMMA PropAppended ==
  ASSUME NEW o \in Objs, NEW f \in Props, Sound(o, f), NEW n \in Nat, OldObjs(o, n), OldProps(f, n),
         NEW r \in PropertyRecord, r.id > n, r.value > n, r.next = Nil,
         \A j \in DOMAIN f : ~(f[j].owner = r.owner /\ f[j].name = r.name)
  PROVE  Append(f, r) \in Props /\ Sound(o, Append(f, r))
<1> DEFINE g == Append(f, r)
<1>1. /\ g \in Props /\ DOMAIN g = 1..Len(f)+1 /\ DOMAIN f = 1..Len(f) /\ Len(f) \in Nat
      /\ \A j \in DOMAIN g : g[j] = IF j \in DOMAIN f THEN f[j] ELSE r
  BY AppendProperties DEF Props
<1>2. /\ \A j \in DOMAIN f : /\ f[j].id # Nil /\ f[j].id \in Nat /\ f[j].next \in Int
                             /\ f[j].value \in Nat
      /\ \A j \in DOMAIN o : o[j].first \in Int
      /\ r.id # Nil /\ r.id \in Nat /\ r.value \in Nat /\ Nil \in Int
  BY FilesType DEF Props, Objs
<1>3. /\ \A j \in DOMAIN f : f[j].id # r.id /\ f[j].next # r.id /\ f[j].value # r.value
      /\ \A j \in DOMAIN o : o[j].first # r.id
  BY <1>2 DEF OldObjs, OldProps
<1> HIDE DEF g
<1>4. IdsOnce(g) /\ NamesOnce(g) /\ ValuesOnce(g)
  BY <1>1, <1>3 DEF Sound, IdsOnce, NamesOnce, ValuesOnce
<1>5. NextOnce(g) /\ LinkedOnce(o, g)
  BY <1>1 DEF Sound, NextOnce, LinkedOnce
<1>6. Upward(g)
  BY <1>1, <1>2, <1>3 DEF Sound, Upward
<1>7. Home(o, g)
  BY <1>1, <1>2, <1>3 DEF Sound, Home
<1>8. g \in Props /\ Sound(o, g)
  BY <1>1, <1>4, <1>5, <1>6, <1>7 DEF Sound
<1>9. QED
  BY <1>8 DEF g

\* The last property is linked to a property of the same object, or to itself.
LinkedAt(f, at, g) == g = [f EXCEPT ![at].next = f[Len(f)].id]

NotLinked(o, f) ==
  /\ f[Len(f)].id \in Link
  /\ \A j \in DOMAIN o : o[j].first # f[Len(f)].id
  /\ \A j \in DOMAIN f : f[j].next # f[Len(f)].id

LEMMA PropLinked ==
  ASSUME NEW o \in Objs, NEW f \in Props, Sound(o, f), NEW at \in DOMAIN f, NotLinked(o, f),
         f[at].owner = f[Len(f)].owner, NEW g, LinkedAt(f, at, g)
  PROVE  /\ g \in Props /\ DOMAIN g = DOMAIN f /\ Sound(o, g)
         /\ \A j \in DOMAIN f : /\ g[j].id = f[j].id /\ g[j].owner = f[j].owner
                                /\ g[j].name = f[j].name /\ g[j].value = f[j].value
                                /\ g[j].next = IF j = at THEN f[Len(f)].id ELSE f[j].next
<1> DEFINE r == [f[at] EXCEPT !.next = f[Len(f)].id]
<1>0. /\ f[Len(f)].id \in Link
      /\ \A j \in DOMAIN o : o[j].first # f[Len(f)].id
      /\ \A j \in DOMAIN f : f[j].next # f[Len(f)].id
  BY DEF NotLinked
<1>1. DOMAIN f = 1..Len(f) /\ Len(f) \in DOMAIN f
  BY DEF Props
<1>2. f[at] \in PropertyRecord
  BY DEF Props
<1>3. /\ r \in PropertyRecord
      /\ r.id = f[at].id /\ r.owner = f[at].owner /\ r.name = f[at].name
      /\ r.value = f[at].value /\ r.next = f[Len(f)].id
  BY <1>0, <1>2 DEF PropertyRecord
<1>4. g = [f EXCEPT ![at] = r]
  BY DEF LinkedAt
<1> HIDE DEF r
<1>5. g \in Props /\ DOMAIN g = DOMAIN f /\ \A j \in DOMAIN f : g[j] = IF j = at THEN r ELSE f[j]
  BY <1>1, <1>3, <1>4, ExceptSeq DEF Props
<1>6. /\ \A j \in DOMAIN f : /\ g[j].id = f[j].id /\ g[j].owner = f[j].owner /\ g[j].name = f[j].name
                             /\ g[j].value = f[j].value
                             /\ g[j].next = IF j = at THEN f[Len(f)].id ELSE f[j].next
  BY <1>3, <1>5
<1>7. IdsOnce(g) /\ NamesOnce(g) /\ ValuesOnce(g)
  BY <1>5, <1>6 DEF Sound, IdsOnce, NamesOnce, ValuesOnce
<1>8. NextOnce(g) /\ LinkedOnce(o, g)
  BY <1>0, <1>5, <1>6 DEF Sound, NextOnce, LinkedOnce
<1>9. Upward(g)
  BY <1>0, <1>1, <1>5, <1>6 DEF Sound, Upward, IdsOnce
<1>10. Home(o, g)
  BY <1>0, <1>1, <1>5, <1>6 DEF Sound, Home, IdsOnce
<1>11. QED
  BY <1>5, <1>6, <1>7, <1>8, <1>9, <1>10 DEF Sound

LEMMA PropCut ==
  ASSUME NEW o \in Objs, NEW f \in Props, Sound(o, f), f # <<>>
  PROVE  Front(f) \in Props /\ Sound(o, Front(f))
<1> DEFINE g == Front(f)
<1>1. /\ g \in Props /\ DOMAIN g \subseteq DOMAIN f
      /\ \A j \in DOMAIN g : g[j] = f[j]
  BY FrontOf DEF Props
<1> HIDE DEF g
<1>2. IdsOnce(g) /\ NamesOnce(g) /\ ValuesOnce(g) /\ NextOnce(g) /\ LinkedOnce(o, g) /\ Upward(g)
  BY <1>1 DEF Sound, IdsOnce, NamesOnce, ValuesOnce, NextOnce, LinkedOnce, Upward
<1>3. Home(o, g)
  BY <1>1 DEF Sound, Home
<1>4. g \in Props /\ Sound(o, g)
  BY <1>1, <1>2, <1>3 DEF Sound
<1>5. QED
  BY <1>4 DEF g

-----------------------------------------------------------------------------
(* The invariant of the files, whatever fails and whenever the server is killed *)

AllSound ==
  \A o \in {obj, disk.obj}, f \in {prop, disk.prop} : Sound(o, f)

AllOld ==
  /\ \A o \in {obj, disk.obj}   : OldObjs(o, drawn)
  /\ \A f \in {prop, disk.prop} : OldProps(f, drawn)
  /\ \A v \in {val, disk.val}   : OldVals(v, drawn)

AllNamed == \A o \in {obj, disk.obj} : NumbersNames(o)

\* Until the server is killed or a write fails, no object is there twice; but while
\* one is deleted its record may be a copy of another one.
ObjectsOnce ==
  ~harmed =>
    /\ ObjsOnce(disk.obj, DOMAIN disk.obj)
    /\ IF job = None THEN ObjsOnce(obj, DOMAIN obj) ELSE ObjsOnce(obj, DOMAIN obj \ {job.pos})

\* The record is the one that a scan by number finds.
IsFirst(o, i) == i \in DOMAIN o /\ i = Least(WithId(o, o[i].id))

\* A deletion either is about the last property of the file, or done with those
\* of its object.
JobReady ==
  job # None =>
    /\ job.pos \in DOMAIN obj
    /\ IF WithId(prop, job.next) = {} THEN WithId(prop, obj[job.pos].first) = {}
       ELSE /\ ~harmed => ObjsOnce(obj, DOMAIN obj)
            /\ IsFirst(obj, job.pos)
            /\ obj[job.pos].first = job.next
            /\ WithId(prop, job.next) = {Len(prop)}
            /\ Last(prop).next = Nil
            /\ ValueOf(Last(prop)) \in {{}, {Len(val)}}

BinderyInv == TypeOK /\ AllSound /\ AllOld /\ AllNamed /\ ObjectsOnce /\ JobReady

LEMMA OldStays ==
  ASSUME NEW m \in Nat, NEW n \in Nat, m <= n
  PROVE  /\ \A o \in Objs : OldObjs(o, m) => OldObjs(o, n)
         /\ \A f \in Props : OldProps(f, m) => OldProps(f, n)
         /\ \A v \in Vals : OldVals(v, m) => OldVals(v, n)
<1>1. ASSUME NEW o \in Objs, OldObjs(o, m) PROVE OldObjs(o, n)
  <2>1. \A i \in DOMAIN o : o[i].id \in Nat /\ o[i].first \in Int
    BY FilesType DEF Objs
  <2>2. QED
    BY <1>1, <2>1 DEF OldObjs
<1>2. ASSUME NEW f \in Props, OldProps(f, m) PROVE OldProps(f, n)
  <2>1. \A i \in DOMAIN f : /\ f[i].id \in Nat /\ f[i].next \in Int
                            /\ f[i].owner \in Nat /\ f[i].value \in Nat
    BY FilesType DEF Props
  <2>2. QED
    BY <1>2, <2>1 DEF OldProps
<1>3. ASSUME NEW v \in Vals, OldVals(v, m) PROVE OldVals(v, n)
  <2>1. \A i \in DOMAIN v : v[i].id \in Nat
    BY FilesType DEF Vals
  <2>2. QED
    BY <1>3, <2>1 DEF OldVals
<1>4. QED
  BY <1>1, <1>2, <1>3

LEMMA InvTypes ==
  ASSUME TypeOK
  PROVE  /\ obj \in Objs /\ disk.obj \in Objs /\ prop \in Props /\ disk.prop \in Props
         /\ val \in Vals /\ disk.val \in Vals /\ drawn \in Nat
         /\ disk = [obj |-> disk.obj, prop |-> disk.prop, val |-> disk.val]
         /\ Files = [obj |-> obj, prop |-> prop, val |-> val]
         /\ Files \in [obj : Objs, prop : Props, val : Vals]
BY BinderyAssumption DEF TypeOK, Objs, Props, Vals, Files

LEMMA TypesNext ==
  ASSUME NEW o \in Objs, NEW f \in Props, NEW v \in Vals,
         obj' \in Objs, prop' \in Props, val' \in Vals, disk' = [obj |-> o, prop |-> f, val |-> v],
         drawn' \in 0..MaxDrawn, job' \in [pos : Nat, next : Link] \cup {None}, harmed' \in BOOLEAN
  PROVE  TypeOK'
BY DEF TypeOK, Objs, Props, Vals

\* The calls work on an object of the name they are given, and on the one object
\* of that name if no two have it.
LEMMA RecordFound ==
  ASSUME TypeOK, NumbersNames(obj), NEW n \in Name, Named(n) # {}
  PROVE  /\ obj[RecordOf(n)].name = n /\ IsFirst(obj, RecordOf(n))
         /\ ObjsOnce(obj, DOMAIN obj) => Named(n) = {RecordOf(n)}
<1>1. obj \in Seq(ObjectRecord) /\ DOMAIN obj \subseteq Nat
  BY DEF TypeOK
<1> DEFINE a == Least(Named(n))
           i == Least(WithId(obj, obj[a].id))
<1>2. a \in DOMAIN obj /\ obj[a].name = n
  <2>1. Named(n) \subseteq Nat
    BY <1>1 DEF Named
  <2>2. a \in Named(n)
    BY <2>1, LeastOfSet
  <2>3. QED
    BY <2>2 DEF Named
<1> HIDE DEF a
<1>3. i \in DOMAIN obj /\ obj[i].id = obj[a].id
  <2>1. WithId(obj, obj[a].id) \subseteq Nat /\ a \in WithId(obj, obj[a].id)
    BY <1>1, <1>2 DEF WithId
  <2>2. i \in WithId(obj, obj[a].id)
    BY <2>1, LeastOfSet
  <2>3. QED
    BY <2>2 DEF WithId
<1>4. RecordOf(n) = i
  BY DEF RecordOf, a
<1>5. i = Least(WithId(obj, obj[i].id))
  BY <1>3
<1> HIDE DEF i
<1>6. obj[i].name = n
  BY <1>2, <1>3 DEF NumbersNames
<1>7. ObjsOnce(obj, DOMAIN obj) => Named(n) = {i}
  BY <1>3, <1>6 DEF Named, ObjsOnce
<1>8. QED
  BY <1>3, <1>4, <1>5, <1>6, <1>7 DEF IsFirst

LEMMA LookKeeps ==
  ASSUME BinderyInv, NEW S \in SUBSET DOMAIN disk, Look(S), UNCHANGED harmed
  PROVE  BinderyInv'
<1>1. job = None /\ UNCHANGED <<obj, prop, val, drawn, job, harmed>>
  BY DEF Look
<1>2. /\ disk'.obj \in {obj, disk.obj} /\ disk'.prop \in {prop, disk.prop}
      /\ disk'.val \in {val, disk.val}
      /\ disk' = [obj |-> disk'.obj, prop |-> disk'.prop, val |-> disk'.val]
  <2>1. DOMAIN disk = {"obj", "prop", "val"}
    BY InvTypes DEF BinderyInv
  <2>2. QED
    BY <2>1 DEF Look, Files
<1>3. TypeOK'
  BY <1>1, <1>2, InvTypes DEF BinderyInv, TypeOK, Objs, Props, Vals
<1>4. AllSound' /\ AllOld' /\ AllNamed'
  BY <1>1, <1>2 DEF BinderyInv, AllSound, AllOld, AllNamed
<1>5. ObjectsOnce' /\ JobReady'
  BY <1>1, <1>2 DEF BinderyInv, ObjectsOnce, JobReady, ValueOf
<1>6. QED
  BY <1>3, <1>4, <1>5 DEF BinderyInv

LEMMA AddObjectKeeps ==
  ASSUME BinderyInv, NEW n \in Name, AddObject(n), UNCHANGED harmed
  PROVE  BinderyInv'
<1> DEFINE r == [id |-> drawn', name |-> n, first |-> Nil]
<1>1. /\ job = None /\ job' = None /\ Named(n) = {} /\ drawn < MaxDrawn /\ drawn' = drawn + 1
      /\ UNCHANGED <<prop, val, job, harmed>>
      /\ obj' = Append(obj, r) /\ disk' = [disk EXCEPT !.obj = obj]
  BY DEF AddObject
<1>2. /\ obj \in Objs /\ disk.obj \in Objs /\ prop \in Props /\ disk.prop \in Props
      /\ val \in Vals /\ disk.val \in Vals /\ drawn \in Nat /\ drawn' \in Nat /\ drawn <= drawn'
      /\ disk = [obj |-> disk.obj, prop |-> disk.prop, val |-> disk.val]
  BY <1>1, InvTypes DEF BinderyInv
<1>3. disk' = [obj |-> obj, prop |-> disk.prop, val |-> disk.val]
  BY <1>1, <1>2
<1>4. r \in ObjectRecord /\ r.first = Nil
  BY <1>1, BinderyAssumption DEF BinderyInv, TypeOK, ObjectRecord, Number, Link
<1>5. /\ DOMAIN obj' = 1..Len(obj)+1 /\ DOMAIN obj = 1..Len(obj) /\ Len(obj) \in Nat
      /\ \A j \in DOMAIN obj' : obj'[j] = IF j \in DOMAIN obj THEN obj[j] ELSE r
  BY <1>1, <1>2, <1>4, AppendProperties DEF Objs
<1>6. obj' \in Objs /\ Sound(obj', prop) /\ Sound(obj', disk.prop)
  BY <1>1, <1>2, <1>4, ObjAppended DEF BinderyInv, AllSound
<1>7. TypeOK'
  <2>1. drawn' \in 0..MaxDrawn /\ harmed' \in BOOLEAN
    BY <1>1, BinderyAssumption DEF BinderyInv, TypeOK
  <2>2. QED
    BY <1>1, <1>2, <1>3, <1>6, <2>1, TypesNext
<1>8. AllSound'
  BY <1>1, <1>3, <1>6 DEF BinderyInv, AllSound
<1>9. AllOld'
  <2>1. OldObjs(obj, drawn') /\ OldProps(prop, drawn') /\ OldProps(disk.prop, drawn')
        /\ OldVals(val, drawn') /\ OldVals(disk.val, drawn')
    BY <1>2, OldStays DEF BinderyInv, AllOld
  <2>2. OldObjs(obj', drawn')
    <3>1. r.id <= drawn' /\ r.first <= drawn'
      BY <1>2 DEF Nil
    <3>2. QED
      BY <1>5, <2>1, <3>1 DEF OldObjs
  <2>3. QED
    BY <1>1, <1>3, <2>1, <2>2 DEF AllOld
<1>10. /\ ~harmed => ObjsOnce(obj', DOMAIN obj')
       /\ NumbersNames(obj')
  <2>1. \A j \in DOMAIN obj : obj[j].id # r.id /\ obj[j].name # n
    <3>1. \A j \in DOMAIN obj : obj[j].id \in Nat /\ obj[j].id <= drawn
      BY <1>2, FilesType DEF BinderyInv, AllOld, OldObjs, Objs
    <3>2. QED
      BY <1>1, <1>2, <3>1 DEF Named
  <2>2. /\ ~harmed => ObjsOnce(obj, DOMAIN obj)
        /\ NumbersNames(obj)
    BY <1>1 DEF BinderyInv, ObjectsOnce, AllNamed
  <2>3. ~harmed => ObjsOnce(obj', DOMAIN obj')
    BY <1>5, <2>1, <2>2 DEF ObjsOnce
  <2>4. r.id # 0 /\ r.name # NoName /\ r.name = n
    BY <1>1, <1>2, BinderyAssumption
  <2>5. NumbersNames(obj')
    <3> HIDE DEF r
    <3>1. QED
      BY <1>5, <2>1, <2>2, <2>4 DEF NumbersNames
  <2>6. QED
    BY <2>3, <2>5
<1>11. ObjectsOnce' /\ AllNamed'
  <2>1. disk'.obj = obj
    BY <1>3
  <2>2. ~harmed => ObjsOnce(obj, DOMAIN obj)
    BY <1>1 DEF BinderyInv, ObjectsOnce
  <2>3. QED
    BY <1>1, <1>10, <2>1, <2>2 DEF BinderyInv, ObjectsOnce, AllNamed
<1>12. JobReady'
  BY <1>1 DEF JobReady
<1>13. QED
  BY <1>7, <1>8, <1>9, <1>11, <1>12 DEF BinderyInv

\* What the property file is once bindio_add_prop has appended the new record r:
\* f, with object n in record i.
AddStarted(n, p, i, r, f) ==
  /\ job = None /\ job' = None /\ drawn' = drawn + 2 /\ drawn' \in 0..MaxDrawn
  /\ i = RecordOf(n) /\ i \in DOMAIN obj /\ obj[i].name = n /\ NumbersNames(obj)
  /\ r \in PropertyRecord /\ r.id = drawn + 2 /\ r.value = drawn + 1 /\ r.next = Nil
  /\ r.owner = obj[i].id /\ r.name = p
  /\ f \in Props /\ DOMAIN prop = 1..Len(prop) /\ DOMAIN f = 1..Len(f) /\ Len(prop) \in Nat
  /\ Len(f) = Len(prop) + 1
  /\ \A j \in DOMAIN f : f[j] = IF j \in DOMAIN prop THEN prop[j] ELSE r
  /\ Sound(obj, prop) /\ Sound(obj, f)
  /\ OldObjs(obj, drawn') /\ OldProps(prop, drawn') /\ OldProps(f, drawn')
  /\ r.id # Nil /\ f[Len(f)] = r /\ NotLinked(obj, f)

LEMMA AddStarts ==
  ASSUME BinderyInv, NEW n \in Name, NEW p \in PropName, AddPropStarts(n, p),
         NEW i, i = RecordOf(n), NEW r, r = NewProperty(obj[i].id, p), NEW f, f = Append(prop, r)
  PROVE  AddStarted(n, p, i, r, f)
<1>1. /\ obj \in Objs /\ prop \in Props /\ drawn \in Nat /\ drawn <= MaxDrawn /\ MaxDrawn \in Nat
  BY InvTypes, BinderyAssumption DEF BinderyInv, TypeOK
<1>2. job = None /\ job' = None /\ drawn' = drawn + 2 /\ drawn' \in 0..MaxDrawn /\ Named(n) # {}
  BY <1>1 DEF AddPropStarts
<1>3. NumbersNames(obj) /\ Sound(obj, prop) /\ OldObjs(obj, drawn) /\ OldProps(prop, drawn)
  BY <1>2 DEF BinderyInv, AllNamed, AllSound, AllOld
<1>4. i \in DOMAIN obj /\ obj[i].name = n
  BY <1>2, <1>3, RecordFound DEF BinderyInv, IsFirst
<1>5. /\ r.id = drawn + 2 /\ r.value = drawn + 1 /\ r.next = Nil
      /\ r.owner = obj[i].id /\ r.name = p
  BY DEF NewProperty
<1>6. obj[i].id \in Number \cup {0} /\ obj[i].id <= drawn
  <2>1. obj[i] \in ObjectRecord
    BY <1>1, <1>4 DEF Objs
  <2>2. QED
    BY <1>3, <1>4, <2>1 DEF ObjectRecord, OldObjs
<1>7. r \in PropertyRecord
  BY <1>1, <1>2, <1>6 DEF NewProperty, PropertyRecord, Number, Link
<1>8. \A j \in DOMAIN prop : ~(prop[j].owner = r.owner /\ prop[j].name = r.name)
  BY <1>5 DEF AddPropStarts, Addable, PropsOf
<1>9. f \in Props /\ Sound(obj, f)
  <2>1. r.id > drawn /\ r.value > drawn
    BY <1>1, <1>5
  <2>2. QED
    BY <1>1, <1>3, <1>5, <1>7, <1>8, <2>1, PropAppended
<1>10. /\ DOMAIN prop = 1..Len(prop) /\ DOMAIN f = 1..Len(f) /\ Len(prop) \in Nat
       /\ Len(f) = Len(prop) + 1
       /\ \A j \in DOMAIN f : f[j] = IF j \in DOMAIN prop THEN prop[j] ELSE r
  BY <1>1, <1>7, AppendProperties DEF Props
<1>11. OldObjs(obj, drawn') /\ OldProps(prop, drawn')
  BY <1>1, <1>2, <1>3, OldStays
<1>12. OldProps(f, drawn')
  <2>1. r.id <= drawn' /\ r.next <= drawn' /\ r.owner <= drawn' /\ r.value <= drawn'
    <3>1. obj[i].id \in Int
      BY <1>6 DEF Number
    <3>2. QED
      BY <1>1, <1>2, <1>5, <1>6, <3>1 DEF Nil
  <2>2. QED
    BY <1>10, <1>11, <2>1 DEF OldProps
<1>13. /\ \A j \in DOMAIN obj : obj[j].first # r.id
       /\ \A j \in DOMAIN f : f[j].next # r.id
  <2>1. \A j \in DOMAIN obj : obj[j].first \in Int /\ obj[j].first <= drawn
    BY <1>1, <1>3, FilesType DEF Objs, OldObjs
  <2>2. \A j \in DOMAIN prop : prop[j].next \in Int /\ prop[j].next <= drawn
    BY <1>1, <1>3, FilesType DEF Props, OldProps
  <2>3. r.id # Nil
    BY <1>1, <1>5 DEF Nil
  <2>4. QED
    BY <1>1, <1>5, <1>10, <2>1, <2>2, <2>3
<1>14. NotLinked(obj, f) /\ r.id # Nil /\ f[Len(f)] = r
  <2>1. r.id \in Link /\ r.id # Nil
    BY <1>1, <1>2, <1>5 DEF Link, Number, Nil
  <2>2. f[Len(f)] = r
    BY <1>10
  <2>3. QED
    BY <1>13, <2>1, <2>2 DEF NotLinked
<1>15. QED
  BY <1>2, <1>3, <1>4, <1>5, <1>7, <1>9, <1>10, <1>11, <1>12, <1>14 DEF AddStarted

LEMMA NewValueIs ==
  ASSUME BinderyInv, drawn + 2 \in 0..MaxDrawn
  PROVE  /\ NewValue \in ValueRecord /\ Append(val, NewValue) \in Vals
         /\ OldVals(val, drawn + 2) /\ OldVals(Append(val, NewValue), drawn + 2)
         /\ DOMAIN Append(val, NewValue) = 1..Len(val)+1 /\ DOMAIN val = 1..Len(val) /\ Len(val) \in Nat
         /\ \A j \in 1..Len(val)+1 :
              Append(val, NewValue)[j] = IF j \in DOMAIN val THEN val[j] ELSE NewValue
<1>1. val \in Vals /\ drawn \in Nat /\ OldVals(val, drawn)
  BY InvTypes DEF BinderyInv, AllOld
<1>2. NewValue \in ValueRecord /\ NewValue.id = drawn + 1
  BY <1>1, BinderyAssumption DEF NewValue, ValueRecord, Number
<1>3. /\ Append(val, NewValue) \in Vals /\ DOMAIN Append(val, NewValue) = 1..Len(val)+1
      /\ DOMAIN val = 1..Len(val) /\ Len(val) \in Nat
      /\ \A j \in 1..Len(val)+1 :
           Append(val, NewValue)[j] = IF j \in DOMAIN val THEN val[j] ELSE NewValue
  BY <1>1, <1>2, AppendProperties DEF Vals
<1>4. OldVals(val, drawn + 2)
  BY <1>1, OldStays
<1>5. OldVals(Append(val, NewValue), drawn + 2)
  BY <1>1, <1>2, <1>3, <1>4 DEF OldVals
<1>6. QED
  BY <1>2, <1>3, <1>4, <1>5

\* Where bindio_add_prop puts the link: at a property of the object, or at the
\* new one.
LEMMA LinkPlace ==
  ASSUME NEW o \in Objs, NEW f \in Props, Sound(o, f), NEW i \in DOMAIN o, f # <<>>,
         f[Len(f)].owner = o[i].id, NEW g, g = Linked(f, o[i].first)
  PROVE  \E at \in DOMAIN f :
           /\ f[at].owner = f[Len(f)].owner
           /\ LinkedAt(f, at, g)
           /\ at = Len(f) \/ (at \in Chained(f, o[i].first) /\ f[at].next = Nil)
           /\ (\E j \in Chained(f, o[i].first) : f[j].next = Nil) => at \in Chained(f, o[i].first)
<1> DEFINE ends == {j \in Chained(f, o[i].first) : f[j].next = Nil}
           at == IF ends = {} THEN Len(f) ELSE Least(ends)
<1>1. DOMAIN f = 1..Len(f) /\ Len(f) \in Nat \ {0} /\ IdsOnce(f)
  BY DEF Props, Sound
<1>2. ends \subseteq DOMAIN f /\ ends \subseteq Nat
  BY <1>1, ChainedIs
<1>3. ends # {} => Least(ends) \in ends
  <2> HIDE DEF ends
  <2>1. QED
    BY <1>2, LeastOfSet
<1>4. at \in DOMAIN f /\ f[at].owner = f[Len(f)].owner
  <2>1. CASE ends = {}
    BY <1>1, <2>1
  <2>2. CASE ends # {}
    BY <1>2, <1>3, <2>2, ChainsHome
  <2>3. QED
    BY <2>1, <2>2
<1>5. LinkedAt(f, at, g)
  BY DEF Linked, LinkedAt
<1>6. at = Len(f) \/ at \in ends
  BY <1>3
<1>7. ends # {} => at \in ends
  BY <1>3
<1> HIDE DEF at
<1>8. QED
  BY <1>4, <1>5, <1>6, <1>7

\* File q is o with a new first link x in record i, which is then r.
NewFirst(o, q, i, x, r) ==
  /\ r \in ObjectRecord /\ r.first = x /\ r.id = o[i].id
  /\ q = [o EXCEPT ![i] = r] /\ q \in Objs /\ DOMAIN q = DOMAIN o
  /\ \A j \in DOMAIN o : /\ q[j].id = o[j].id /\ q[j].name = o[j].name
                         /\ q[j].first = IF j = i THEN x ELSE o[j].first
  /\ ObjsOnce(o, DOMAIN o) => ObjsOnce(q, DOMAIN q)
  /\ NumbersNames(o) => NumbersNames(q)

LEMMA SameObjects ==
  ASSUME NEW o \in Objs, NEW i \in DOMAIN o, NEW x \in Link,
         NEW q, q = [o EXCEPT ![i].first = x], NEW r, r = [o[i] EXCEPT !.first = x]
  PROVE  NewFirst(o, q, i, x, r)
<1>1. o[i] \in ObjectRecord /\ DOMAIN o = 1..Len(o)
  BY DEF Objs
<1>2. r \in ObjectRecord /\ r.id = o[i].id /\ r.name = o[i].name /\ r.first = x
  BY <1>1 DEF ObjectRecord
<1>3. q = [o EXCEPT ![i] = r]
  OBVIOUS
<1>4. q \in Objs /\ DOMAIN q = DOMAIN o /\ \A j \in DOMAIN o : q[j] = IF j = i THEN r ELSE o[j]
  BY <1>1, <1>2, <1>3, ExceptSeq DEF Objs
<1>5. \A j \in DOMAIN o : /\ q[j].id = o[j].id /\ q[j].name = o[j].name
                          /\ q[j].first = IF j = i THEN x ELSE o[j].first
  BY <1>2, <1>4
<1>6. ObjsOnce(o, DOMAIN o) => ObjsOnce(q, DOMAIN o)
  BY <1>5 DEF ObjsOnce
<1>7. NumbersNames(o) => NumbersNames(q)
  BY <1>4, <1>5 DEF NumbersNames
<1>8. QED
  BY <1>2, <1>3, <1>4, <1>5, <1>6, <1>7 DEF NewFirst

LEMMA AddPropKeeps ==
  ASSUME BinderyInv, NEW n \in Name, NEW p \in PropName, AddProp(n, p), UNCHANGED harmed
  PROVE  BinderyInv'
<1> DEFINE i == RecordOf(n)
           r == NewProperty(obj[i].id, p)
           f == Append(prop, r)
<1>1. AddPropStarts(n, p) /\ val' = Append(val, NewValue)
  BY DEF AddProp
<1>2. \/ /\ obj[i].first = Nil
         /\ obj' = [obj EXCEPT ![i].first = drawn + 2] /\ prop' = f /\ disk' = Files
      \/ /\ obj[i].first # Nil
         /\ obj' = obj /\ prop' = Linked(f, obj[i].first) /\ disk' = [Files EXCEPT !.prop = f]
  BY DEF AddProp
<1>0. i = RecordOf(n) /\ r = NewProperty(obj[i].id, p) /\ f = Append(prop, r)
  OBVIOUS
<1> HIDE DEF i, r, f
<1>a. AddStarted(n, p, i, r, f)
  BY <1>0, <1>1, AddStarts
<1>3. /\ job = None /\ job' = None /\ drawn' = drawn + 2 /\ drawn' \in 0..MaxDrawn
      /\ i \in DOMAIN obj /\ NumbersNames(obj)
      /\ r \in PropertyRecord /\ r.id = drawn + 2 /\ r.next = Nil /\ r.owner = obj[i].id
      /\ f \in Props /\ DOMAIN prop = 1..Len(prop) /\ DOMAIN f = 1..Len(f) /\ Len(prop) \in Nat
      /\ Len(f) = Len(prop) + 1
      /\ \A j \in DOMAIN f : f[j] = IF j \in DOMAIN prop THEN prop[j] ELSE r
      /\ Sound(obj, prop) /\ Sound(obj, f)
      /\ OldObjs(obj, drawn') /\ OldProps(prop, drawn') /\ OldProps(f, drawn')
      /\ r.id # Nil /\ f[Len(f)] = r /\ NotLinked(obj, f)
  BY <1>a DEF AddStarted
<1>4. /\ obj \in Objs /\ prop \in Props /\ val \in Vals /\ drawn \in Nat
      /\ Files = [obj |-> obj, prop |-> prop, val |-> val]
  BY InvTypes DEF BinderyInv
<1>5. val' \in Vals /\ OldVals(val, drawn') /\ OldVals(val', drawn')
  BY <1>1, <1>3, NewValueIs
<1>6. drawn + 2 \in Link /\ r.id \in Link /\ r.id # Nil
  BY <1>3, <1>4, BinderyAssumption DEF Link, Number, Nil
<1>7. PICK g \in {prop, f} : disk' = [obj |-> obj, prop |-> g, val |-> val]
  BY <1>2, <1>4
<1>8. /\ obj' \in Objs /\ prop' \in Props
      /\ NumbersNames(obj')
      /\ ObjsOnce(obj, DOMAIN obj) => ObjsOnce(obj', DOMAIN obj')
      /\ \A h \in {prop', g} : Sound(obj', h) /\ Sound(obj, h)
      /\ OldObjs(obj', drawn') /\ OldProps(prop', drawn')
  <2>1. CASE obj[i].first = Nil
    <3> DEFINE x == [obj[i] EXCEPT !.first = drawn + 2]
    <3>1. obj' = [obj EXCEPT ![i].first = drawn + 2] /\ prop' = f
      BY <1>2, <2>1
    <3>0. x = [obj[i] EXCEPT !.first = drawn + 2]
      OBVIOUS
    <3> HIDE DEF x
    <3>a. NewFirst(obj, obj', i, drawn + 2, x)
      BY <1>3, <1>4, <1>6, <3>0, <3>1, SameObjects
    <3>2. /\ x \in ObjectRecord /\ obj' = [obj EXCEPT ![i] = x] /\ obj' \in Objs
          /\ DOMAIN obj' = DOMAIN obj
          /\ ObjsOnce(obj, DOMAIN obj) => ObjsOnce(obj', DOMAIN obj')
          /\ NumbersNames(obj')
          /\ \A j \in DOMAIN obj : /\ obj'[j].id = obj[j].id
                                   /\ obj'[j].first = IF j = i THEN drawn + 2 ELSE obj[j].first
      BY <1>3, <3>a DEF NewFirst
    <3>3. x.first = r.id /\ x.id = r.owner
      BY <1>3, <3>a DEF NewFirst
    <3>4. \A j \in DOMAIN prop : prop[j].id # r.id /\ prop[j].next # r.id
      <4>1. \A j \in DOMAIN prop : prop[j].id \in Nat /\ prop[j].id <= drawn
        BY <1>4, FilesType DEF BinderyInv, AllOld, OldProps, Props
      <4>2. \A j \in DOMAIN prop : j \in DOMAIN f /\ f[j] = prop[j]
        BY <1>3
      <4>3. QED
        BY <1>3, <1>4, <4>1, <4>2 DEF NotLinked
    <3>5. /\ \A j \in DOMAIN obj : obj[j].first # x.first
          /\ \A j \in DOMAIN prop : prop[j].next # x.first
          /\ \A j \in DOMAIN prop : prop[j].id = x.first => prop[j].owner = x.id
          /\ \A j \in DOMAIN f : f[j].next # x.first
          /\ \A j \in DOMAIN f : f[j].id = x.first => f[j].owner = x.id
      BY <1>3, <3>3, <3>4 DEF NotLinked
    <3>6. Sound([obj EXCEPT ![i] = x], prop)
      BY <1>3, <1>4, <3>2, <3>5, ObjReplaced
    <3>7. Sound([obj EXCEPT ![i] = x], f)
      BY <1>3, <1>4, <3>2, <3>5, ObjReplaced
    <3>8. OldObjs(obj', drawn')
      BY <1>3, <1>4, <3>2 DEF OldObjs
    <3>9. QED
      BY <1>3, <3>1, <3>2, <3>6, <3>7, <3>8
  <2>2. CASE obj[i].first # Nil
    <3>1. obj' = obj /\ prop' = Linked(f, obj[i].first) /\ g = f
      <4>1. obj' = obj /\ prop' = Linked(f, obj[i].first) /\ disk' = [Files EXCEPT !.prop = f]
        BY <1>2, <2>2
      <4>2. disk'.prop = f
        BY <1>4, <4>1
      <4>3. QED
        BY <1>7, <4>1, <4>2
    <3>2. f # <<>> /\ f[Len(f)].owner = obj[i].id
      BY <1>3
    <3>3. PICK at \in DOMAIN f : f[at].owner = f[Len(f)].owner /\ LinkedAt(f, at, prop')
      BY <1>3, <1>4, <3>1, <3>2, LinkPlace
    <3>4. /\ prop' \in Props /\ DOMAIN prop' = DOMAIN f /\ Sound(obj, prop')
          /\ \A j \in DOMAIN f : /\ prop'[j].id = f[j].id /\ prop'[j].owner = f[j].owner
                                 /\ prop'[j].value = f[j].value
                                 /\ prop'[j].next \in {f[j].next, f[Len(f)].id}
      BY <1>3, <1>4, <3>3, PropLinked
    <3>5. OldProps(prop', drawn')
      <4>1. Len(f) \in DOMAIN f
        BY <1>3
      <4>2. QED
        BY <1>3, <3>4, <4>1 DEF OldProps
    <3>6. QED
      BY <1>3, <1>4, <3>1, <3>4, <3>5
  <2>3. QED
    BY <2>1, <2>2
<1>9. TypeOK'
  <2>1. harmed' \in BOOLEAN
    BY DEF BinderyInv, TypeOK
  <2>2. g \in Props
    BY <1>3, <1>4
  <2>3. QED
    BY <1>3, <1>4, <1>5, <1>7, <1>8, <2>1, <2>2, TypesNext
<1>10. disk'.obj = obj /\ disk'.prop = g /\ disk'.val = val
  BY <1>7
<1>11. AllSound'
  BY <1>8, <1>10 DEF AllSound
<1>12. AllOld'
  BY <1>3, <1>5, <1>8, <1>10 DEF AllOld
<1>13. ObjectsOnce' /\ AllNamed'
  BY <1>3, <1>8, <1>10 DEF BinderyInv, ObjectsOnce, AllNamed
<1>14. JobReady'
  BY <1>3 DEF JobReady
<1>15. QED
  BY <1>9, <1>11, <1>12, <1>13, <1>14 DEF BinderyInv

LEMMA AddPropFailsKeeps ==
  ASSUME BinderyInv, NEW n \in Name, NEW p \in PropName, AddPropFails(n, p), harmed' = TRUE
  PROVE  BinderyInv'
<1> DEFINE i == RecordOf(n)
           r == NewProperty(obj[i].id, p)
           f == Append(prop, r)
<1>1. AddPropStarts(n, p) /\ val' \in {val, Append(val, NewValue)} /\ obj' = obj /\ prop' = f
  BY DEF AddPropFails
<1>2. disk' \in {Files, [Files EXCEPT !.prop = f]}
  BY DEF AddPropFails
<1>0. i = RecordOf(n) /\ r = NewProperty(obj[i].id, p) /\ f = Append(prop, r)
  OBVIOUS
<1> HIDE DEF i, r, f
<1>a. AddStarted(n, p, i, r, f)
  BY <1>0, <1>1, AddStarts
<1>3. /\ job = None /\ job' = None /\ drawn' = drawn + 2 /\ drawn' \in 0..MaxDrawn
      /\ NumbersNames(obj) /\ f \in Props /\ Sound(obj, prop) /\ Sound(obj, f)
      /\ OldObjs(obj, drawn') /\ OldProps(prop, drawn') /\ OldProps(f, drawn')
  BY <1>a DEF AddStarted
<1>4. /\ obj \in Objs /\ prop \in Props /\ val \in Vals
      /\ Files = [obj |-> obj, prop |-> prop, val |-> val]
  BY InvTypes DEF BinderyInv
<1>5. val' \in Vals /\ OldVals(val, drawn') /\ OldVals(val', drawn')
  BY <1>1, <1>3, <1>4, NewValueIs
<1>6. PICK g \in {prop, f} : disk' = [obj |-> obj, prop |-> g, val |-> val]
  BY <1>2, <1>4
<1>7. TypeOK'
  <2>1. harmed' \in BOOLEAN /\ g \in Props
    BY <1>3, <1>4
  <2>2. QED
    BY <1>1, <1>3, <1>4, <1>5, <1>6, <2>1, TypesNext
<1>8. disk'.obj = obj /\ disk'.prop = g /\ disk'.val = val
  BY <1>6
<1>9. AllSound' /\ AllOld' /\ AllNamed' /\ ObjectsOnce'
  BY <1>1, <1>3, <1>5, <1>8 DEF AllSound, AllOld, AllNamed, ObjectsOnce
<1>10. JobReady'
  BY <1>3 DEF JobReady
<1>11. QED
  BY <1>7, <1>9, <1>10 DEF BinderyInv

\* bindio_write_prop changes one value, which is in the value file.
LEMMA WrittenWhere ==
  ASSUME BinderyInv, NEW n \in Name, NEW p \in PropName, NEW d \in Data, WriteProp(n, p, d)
  PROVE  \E k \in DOMAIN prop, v \in DOMAIN val :
           /\ prop[k].owner = obj[RecordOf(n)].id /\ prop[k].name = p
           /\ k = Least(PropsOf(obj[RecordOf(n)].id, p))
           /\ v = Least(ValueOf(prop[k])) /\ val[v].id = prop[k].value
           /\ val' = Written(v, d)
<1> DEFINE found == PropsOf(obj[RecordOf(n)].id, p)
           k == Least(found)
           v == Least(ValueOf(prop[k]))
<1>1. found # {} /\ ValueOf(prop[k]) # {} /\ val' = Written(v, d)
  BY DEF WriteProp
<1>2. found \subseteq DOMAIN prop /\ DOMAIN prop \subseteq Nat
  BY InvTypes DEF BinderyInv, PropsOf, Props
<1>3. k \in found
  BY <1>1, <1>2, LeastOfSet
<1>4. k \in DOMAIN prop /\ prop[k].owner = obj[RecordOf(n)].id /\ prop[k].name = p
  BY <1>3 DEF PropsOf
<1>5. v \in DOMAIN val /\ val[v].id = prop[k].value
  BY <1>1, InvTypes, Scanned DEF BinderyInv, ValueOf, Vals
<1>6. QED
  BY <1>1, <1>4, <1>5

LEMMA WrittenIs ==
  ASSUME val \in Vals, NEW v \in DOMAIN val, NEW d \in Data
  PROVE  /\ Written(v, d) \in Vals /\ DOMAIN Written(v, d) = DOMAIN val
         /\ \A j \in DOMAIN val : /\ Written(v, d)[j].id = val[j].id
                                  /\ Written(v, d)[j].data = IF j = v THEN d ELSE val[j].data
<1> DEFINE r == [val[v] EXCEPT !.data = d]
           w == [val EXCEPT ![v] = r]
<1>1. val[v] \in ValueRecord /\ DOMAIN val = 1..Len(val)
  BY DEF Vals
<1>2. r \in ValueRecord /\ r.id = val[v].id /\ r.data = d
  BY <1>1 DEF ValueRecord
<1>3. Written(v, d) = w
  BY DEF Written
<1> HIDE DEF r
<1>4. w \in Vals /\ DOMAIN w = DOMAIN val /\ \A j \in DOMAIN val : w[j] = IF j = v THEN r ELSE val[j]
  BY <1>1, <1>2, ExceptSeq DEF Vals
<1> HIDE DEF w
<1>5. QED
  BY <1>2, <1>3, <1>4

LEMMA WritePropKeeps ==
  ASSUME BinderyInv, NEW n \in Name, NEW p \in PropName, NEW d \in Data, WriteProp(n, p, d),
         UNCHANGED harmed
  PROVE  BinderyInv'
<1>1. job = None /\ disk' = Files /\ UNCHANGED <<obj, prop, drawn, job, harmed>>
  BY DEF WriteProp
<1>2. /\ obj \in Objs /\ prop \in Props /\ val \in Vals
      /\ Files = [obj |-> obj, prop |-> prop, val |-> val]
  BY InvTypes DEF BinderyInv
<1>3. PICK v \in DOMAIN val : val' = Written(v, d)
  BY WrittenWhere
<1>4. /\ val' \in Vals /\ DOMAIN val' = DOMAIN val
      /\ \A j \in DOMAIN val : val'[j].id = val[j].id
  BY <1>2, <1>3, WrittenIs
<1>5. TypeOK'
  BY <1>1, <1>2, <1>4, TypesNext DEF BinderyInv, TypeOK
<1>6. disk'.obj = obj /\ disk'.prop = prop /\ disk'.val = val
  BY <1>1, <1>2
<1>7. AllSound' /\ ObjectsOnce' /\ AllNamed'
  BY <1>1, <1>6 DEF BinderyInv, AllSound, ObjectsOnce, AllNamed
<1>8. AllOld'
  <2>1. OldVals(val', drawn)
    BY <1>4 DEF BinderyInv, AllOld, OldVals
  <2>2. QED
    BY <1>1, <1>6, <2>1 DEF BinderyInv, AllOld
<1>9. JobReady'
  BY <1>1 DEF JobReady
<1>10. QED
  BY <1>5, <1>7, <1>8, <1>9 DEF BinderyInv

LEMMA DeleteObjKeeps ==
  ASSUME BinderyInv, NEW n \in Name, Named(n) # {}, Careful(n), DeleteObj(n), UNCHANGED harmed
  PROVE  BinderyInv'
<1> DEFINE i == RecordOf(n)
<1>1. /\ job = None /\ job' = [pos |-> i, next |-> obj[i].first]
      /\ disk' = [disk EXCEPT !.obj = obj] /\ UNCHANGED <<obj, prop, val, drawn, harmed>>
  BY DEF DeleteObj
<1>2. /\ obj \in Objs /\ prop \in Props /\ val \in Vals /\ disk.prop \in Props /\ disk.val \in Vals
      /\ disk = [obj |-> disk.obj, prop |-> disk.prop, val |-> disk.val]
  BY InvTypes DEF BinderyInv
<1>3. ~harmed => ObjsOnce(obj, DOMAIN obj)
  BY <1>1 DEF BinderyInv, ObjectsOnce
<1>4. i \in DOMAIN obj /\ IsFirst(obj, i)
  BY RecordFound DEF BinderyInv, AllNamed, IsFirst
<1>5. disk' = [obj |-> obj, prop |-> disk.prop, val |-> disk.val]
  BY <1>1, <1>2
<1> HIDE DEF i
<1>6. job' \in [pos : Nat, next : Link] /\ job'.pos = i /\ job'.next = obj[i].first
  <2>1. i \in Nat /\ obj[i] \in ObjectRecord
    BY <1>2, <1>4 DEF Objs
  <2>2. QED
    BY <1>1, <2>1 DEF ObjectRecord
<1>7. TypeOK'
  BY <1>1, <1>2, <1>5, <1>6, TypesNext DEF BinderyInv, TypeOK
<1>8. AllSound' /\ AllOld' /\ AllNamed'
  BY <1>1, <1>5 DEF BinderyInv, AllSound, AllOld, AllNamed
<1>9. ObjectsOnce'
  BY <1>1, <1>3, <1>5, BinderyAssumption DEF ObjectsOnce, ObjsOnce
<1>10. JobReady'
  <2>1. WithId(prop, obj[i].first) # {} =>
          /\ WithId(prop, obj[i].first) = {Len(prop)}
          /\ Last(prop).next = Nil
          /\ ValueOf(Last(prop)) \in {{}, {Len(val)}}
    BY DEF Careful, i
  <2>2. QED
    BY <1>1, <1>3, <1>4, <1>6, <2>1 DEF JobReady, ValueOf
<1>11. QED
  BY <1>7, <1>8, <1>9, <1>10 DEF BinderyInv

\* A deletion of a property, of the last one: it is cut off with its value, and
\* its object gets a record from the stack that links to nothing.
DeletesLast(i, r, s) ==
  /\ i \in DOMAIN obj /\ Len(prop) \in DOMAIN prop /\ r = prop[Len(prop)]
  /\ ~harmed => ObjsOnce(obj, DOMAIN obj)
  /\ prop # <<>> /\ val # <<>>
  /\ r.id = obj[i].first /\ r.next = Nil /\ r.owner = obj[i].id
  /\ WithId(val, r.value) = {Len(val)}
  /\ s \in ObjectRecord /\ s.first = Nil /\ s.id <= drawn
  /\ \/ s.id = 0 /\ s.name = NoName
     \/ \E k \in DOMAIN obj : s.id = obj[k].id /\ s.name = obj[k].name
  /\ obj' = [obj EXCEPT ![i] = s] /\ prop' = Front(prop) /\ val' = Front(val)
  /\ disk' = [obj |-> obj, prop |-> Front(prop), val |-> Front(val)]
  /\ job # None /\ job.pos = i /\ job' = [pos |-> i, next |-> Nil]
  /\ UNCHANGED drawn

LEMMA DeletesTheLast ==
  ASSUME BinderyInv, DeleteProp
  PROVE  \E s \in ObjectRecord : DeletesLast(job.pos, prop[Len(prop)], s)
<1> DEFINE i == job.pos
           r == prop[Len(prop)]
           f == Front(prop)
<1>1. /\ obj \in Objs /\ prop \in Props /\ val \in Vals /\ Sound(obj, prop)
      /\ job # None /\ WithId(prop, job.next) # {}
  BY InvTypes DEF BinderyInv, AllSound, DeleteProp
<1>2. /\ i \in DOMAIN obj /\ IsFirst(obj, i) /\ obj[i].first = job.next
      /\ ~harmed => ObjsOnce(obj, DOMAIN obj)
      /\ WithId(prop, job.next) = {Len(prop)} /\ r.next = Nil
      /\ ValueOf(r) \in {{}, {Len(val)}}
  BY <1>1 DEF BinderyInv, JobReady, Last
<1>3. Len(prop) \in DOMAIN prop /\ r.id = job.next
  BY <1>2 DEF WithId
<1>4. Least(WithId(prop, job.next)) = Len(prop)
  BY <1>1, <1>2, LeastOfOne DEF Props
<1>5. /\ ValueOf(r) # {} /\ val' = ValueDeleted(Least(ValueOf(r)))
      /\ job' = [job EXCEPT !.next = r.next]
      /\ disk' = [obj |-> obj, prop |-> f, val |-> IF Len(val') < Len(val) THEN val' ELSE val]
      /\ UNCHANGED drawn
  BY <1>4 DEF DeleteProp
<1>6. ValueOf(r) = {Len(val)} /\ Len(val) \in DOMAIN val
  <2>1. ValueOf(r) = {Len(val)}
    BY <1>2, <1>5
  <2>2. QED
    BY <2>1 DEF ValueOf, WithId
<1>7. val # <<>> /\ prop # <<>>
  BY <1>1, <1>3, <1>6 DEF Vals, Props
<1>8. val' = Front(val) /\ Len(val') < Len(val)
  <2>1. Least(ValueOf(r)) = Len(val)
    BY <1>1, <1>6, LeastOfOne DEF Vals
  <2>2. val' = Front(val)
    BY <1>5, <2>1 DEF ValueDeleted
  <2>3. Len(Front(val)) = Len(val) - 1 /\ Len(val) \in Nat
    BY <1>1, <1>7, FrontOf DEF Vals
  <2>4. QED
    BY <2>2, <2>3
<1>9. /\ DOMAIN f = 1..Len(prop)-1 /\ \A j \in 1..Len(prop)-1 : f[j] = prop[j]
      /\ DOMAIN prop = 1..Len(prop) /\ Len(prop) \in Nat
  BY <1>1, <1>7, FrontOf DEF Props
<1>10. Pointing(f, r.id) = {}
  <2>1. \A j \in DOMAIN prop : prop[j].next = obj[i].first => obj[i].first = Nil
    BY <1>1, <1>2 DEF Sound, LinkedOnce
  <2>2. r.id # Nil
    BY <1>1, <1>3, FilesType DEF Props
  <2>3. QED
    BY <1>2, <1>3, <1>9, <2>1, <2>2 DEF Pointing
<1>11. r.owner = obj[i].id
  BY <1>1, <1>2, <1>3 DEF Sound, Home
<1>12. Least(WithId(obj, r.owner)) = i
  BY <1>2, <1>11 DEF IsFirst
<1>13. prop' = f /\ \E t \in StackObjects : obj' = [obj EXCEPT ![i] = [t EXCEPT !.first = r.next]]
  <2>1. obj[i].first = r.id
    BY <1>2, <1>3
  <2>2. QED
    BY <1>4, <1>10, <1>12, <2>1 DEF DeleteProp
<1>14. PICK t \in StackObjects : obj' = [obj EXCEPT ![i] = [t EXCEPT !.first = r.next]]
  BY <1>13
<1>15. t \in ObjectRecord /\ t.id <= drawn
  <2>1. CASE t \in Range(obj)
    BY <1>1, <2>1 DEF Range, Objs, BinderyInv, AllOld, OldObjs
  <2>2. CASE t = [id |-> 0, name |-> NoName, first |-> Nil]
    <3>1. 0 <= drawn
      BY InvTypes DEF BinderyInv
    <3>2. QED
      BY <2>2, <3>1 DEF ObjectRecord, Link
  <2>3. QED
    BY <1>14, <2>1, <2>2 DEF StackObjects
<1>16. /\ [t EXCEPT !.first = Nil] \in ObjectRecord /\ [t EXCEPT !.first = Nil].first = Nil
       /\ [t EXCEPT !.first = Nil].id <= drawn
       /\ [t EXCEPT !.first = Nil].id = t.id /\ [t EXCEPT !.first = Nil].name = t.name
  BY <1>15 DEF ObjectRecord, Link
<1>a. \/ t.id = 0 /\ t.name = NoName
      \/ \E k \in DOMAIN obj : t.id = obj[k].id /\ t.name = obj[k].name
  BY <1>14 DEF StackObjects, Range
<1>17. job' = [pos |-> i, next |-> Nil]
  BY <1>1, <1>2, <1>5, BinderyAssumption DEF BinderyInv, TypeOK
<1>18. WithId(val, r.value) = {Len(val)}
  BY <1>6 DEF ValueOf
<1>19. DeletesLast(i, r, [t EXCEPT !.first = Nil])
  BY <1>a, <1>1, <1>2, <1>3, <1>5, <1>7, <1>8, <1>11, <1>13, <1>14, <1>16, <1>17, <1>18 DEF DeletesLast
<1>20. QED
  BY <1>16, <1>19

LEMMA CutIsOld ==
  ASSUME NEW f \in Props, f # <<>>, NEW v \in Vals, v # <<>>, NEW n
  PROVE  /\ Front(f) \in Props /\ Front(v) \in Vals
         /\ OldProps(f, n) => OldProps(Front(f), n)
         /\ OldVals(v, n) => OldVals(Front(v), n)
<1>1. /\ Front(f) \in Props /\ DOMAIN Front(f) \subseteq DOMAIN f
      /\ \A j \in DOMAIN Front(f) : Front(f)[j] = f[j]
  BY FrontOf DEF Props
<1>2. /\ Front(v) \in Vals /\ DOMAIN Front(v) \subseteq DOMAIN v
      /\ \A j \in DOMAIN Front(v) : Front(v)[j] = v[j]
  BY FrontOf DEF Vals
<1>3. QED
  BY <1>1, <1>2 DEF OldProps, OldVals

LEMMA DeletePropKeeps ==
  ASSUME BinderyInv, DeleteProp, UNCHANGED harmed
  PROVE  BinderyInv'
<1> DEFINE i == job.pos
           f == Front(prop)
           v == Front(val)
<1>1. PICK s \in ObjectRecord : DeletesLast(i, prop[Len(prop)], s)
  BY DeletesTheLast
<1>2. /\ i \in DOMAIN obj /\ prop # <<>> /\ val # <<>> /\ s.first = Nil /\ s.id <= drawn
      /\ ~harmed => ObjsOnce(obj, DOMAIN obj)
      /\ \/ s.id = 0 /\ s.name = NoName
         \/ \E k \in DOMAIN obj : s.id = obj[k].id /\ s.name = obj[k].name
      /\ obj' = [obj EXCEPT ![i] = s] /\ prop' = f /\ val' = v
      /\ disk' = [obj |-> obj, prop |-> f, val |-> v]
      /\ job' = [pos |-> i, next |-> Nil] /\ UNCHANGED drawn
  BY <1>1 DEF DeletesLast
<1>3. /\ obj \in Objs /\ prop \in Props /\ val \in Vals /\ Sound(obj, prop)
      /\ OldObjs(obj, drawn) /\ OldProps(prop, drawn) /\ OldVals(val, drawn)
  BY InvTypes DEF BinderyInv, AllSound, AllOld
<1>4. /\ f \in Props /\ v \in Vals /\ OldProps(f, drawn) /\ OldVals(v, drawn)
  BY <1>2, <1>3, CutIsOld
<1>5. Sound(obj, f)
  BY <1>2, <1>3, PropCut
<1> HIDE DEF f, v, i
<1>6. obj' \in Objs /\ Sound(obj', f)
  BY <1>2, <1>3, <1>4, <1>5, ObjReplaced
<1>7. /\ i \in Nat /\ DOMAIN obj' = DOMAIN obj
      /\ \A j \in DOMAIN obj : obj'[j] = IF j = i THEN s ELSE obj[j]
  BY <1>2, <1>3 DEF Objs
<1>8. OldObjs(obj', drawn)
  <2>1. Nil <= drawn
    BY InvTypes DEF BinderyInv, Nil
  <2>2. QED
    BY <1>2, <1>3, <1>7, <2>1 DEF OldObjs
<1>9. TypeOK'
  <2>1. job' \in [pos : Nat, next : Link]
    BY <1>2, <1>7 DEF Link
  <2>2. QED
    BY <1>2, <1>3, <1>4, <1>6, <2>1, TypesNext DEF BinderyInv, TypeOK
<1>10. disk'.obj = obj /\ disk'.prop = f /\ disk'.val = v
  BY <1>2
<1>11. AllSound' /\ AllOld'
  BY <1>2, <1>3, <1>4, <1>5, <1>6, <1>8, <1>10 DEF AllSound, AllOld
<1>12. job' # None /\ job'.pos = i /\ job'.next = Nil
  BY <1>2, <1>7, BinderyAssumption DEF Link
<1>13. ObjectsOnce' /\ AllNamed'
  <2>1. ~harmed => ObjsOnce(obj', DOMAIN obj' \ {i})
    BY <1>2, <1>7 DEF ObjsOnce
  <2>2. NumbersNames(obj)
    BY DEF BinderyInv, AllNamed
  <2>3. NumbersNames(obj')
    BY <1>2, <1>7, <2>2 DEF NumbersNames
  <2>4. QED
    BY <1>2, <1>10, <1>12, <2>1, <2>2, <2>3 DEF ObjectsOnce, AllNamed
<1>14. JobReady'
  <2>1. WithId(f, Nil) = {}
    BY <1>4, FilesType DEF WithId, Props
  <2>2. obj'[i].first = Nil /\ i \in DOMAIN obj'
    BY <1>2, <1>7
  <2>3. QED
    BY <1>2, <1>12, <2>1, <2>2 DEF JobReady
<1>15. QED
  BY <1>9, <1>11, <1>13, <1>14 DEF BinderyInv

LEMMA DeleteValuelessKeeps ==
  ASSUME BinderyInv, DeleteValueless, harmed' = TRUE
  PROVE  BinderyInv'
<1>1. /\ job # None /\ WithId(prop, job.next) # {} /\ disk' = Files /\ job' = None
      /\ UNCHANGED <<obj, prop, val, drawn>>
  BY DEF DeleteValueless
<1>2. /\ obj \in Objs /\ prop \in Props /\ val \in Vals
      /\ Files = [obj |-> obj, prop |-> prop, val |-> val]
  BY InvTypes DEF BinderyInv
<1>4. TypeOK'
  BY <1>1, <1>2, TypesNext DEF BinderyInv, TypeOK
<1>5. disk'.obj = obj /\ disk'.prop = prop /\ disk'.val = val
  BY <1>1, <1>2
<1>6. AllSound' /\ AllOld' /\ AllNamed' /\ ObjectsOnce' /\ JobReady'
  BY <1>1, <1>5 DEF BinderyInv, AllSound, AllOld, AllNamed, ObjectsOnce, JobReady
<1>7. QED
  BY <1>4, <1>6 DEF BinderyInv

\* The last object takes the place of the one that is deleted: what its record
\* held then does not matter.
LEMMA MovedOnce ==
  ASSUME NEW o \in Objs, NEW i \in DOMAIN o, ObjsOnce(o, DOMAIN o \ {i})
  PROVE  ObjsOnce(MovedTo(o, i), DOMAIN MovedTo(o, i))
<1> DEFINE q == MovedTo(o, i)
           from(j) == IF j = i THEN Len(o) ELSE j
<1>1. DOMAIN q = 1..Len(o)-1 /\ \A j \in DOMAIN q : q[j] = o[from(j)]
  <2>1. /\ DOMAIN q = 1..Len(o)-1
        /\ \A j \in 1..Len(o)-1 : q[j] = IF j = i THEN o[Len(o)] ELSE o[j]
    BY MovedIs DEF Objs
  <2> HIDE DEF q
  <2>2. QED
    BY <2>1
<1>2. /\ \A j \in DOMAIN q : from(j) \in DOMAIN o \ {i}
      /\ \A j, k \in DOMAIN q : from(j) = from(k) => j = k
  BY <1>1 DEF Objs
<1> HIDE DEF q, from
<1>3. ObjsOnce(q, DOMAIN q)
  BY <1>1, <1>2 DEF ObjsOnce
<1>4. QED
  BY <1>3 DEF q

LEMMA EndDeleteKeeps ==
  ASSUME BinderyInv, EndDelete, UNCHANGED harmed
  PROVE  BinderyInv'
<1> DEFINE i == job.pos
<1>1. /\ job # None /\ job' = None /\ obj' = MovedTo(obj, i)
      /\ disk' = [disk EXCEPT !.obj = obj'] /\ UNCHANGED <<prop, val, drawn, harmed>>
  BY DEF EndDelete, RemovedAt, MovedTo
<1>2. /\ obj \in Objs /\ prop \in Props /\ val \in Vals /\ disk.prop \in Props /\ disk.val \in Vals
      /\ disk = [obj |-> disk.obj, prop |-> disk.prop, val |-> disk.val]
  BY InvTypes DEF BinderyInv
<1>3. /\ i \in DOMAIN obj
      /\ ~harmed => ObjsOnce(obj, DOMAIN obj \ {i})
  BY <1>1 DEF BinderyInv, JobReady, ObjectsOnce
<1> HIDE DEF i
<1>4. disk' = [obj |-> obj', prop |-> disk.prop, val |-> disk.val]
  BY <1>1, <1>2
<1>5. /\ obj' \in Objs /\ Sound(obj', prop) /\ Sound(obj', disk.prop)
      /\ OldObjs(obj', drawn) /\ NumbersNames(obj')
  BY <1>1, <1>2, <1>3, ObjRemoved, PartKeeps DEF BinderyInv, AllSound, AllOld, AllNamed
<1>6. ~harmed => ObjsOnce(obj', DOMAIN obj')
  BY <1>1, <1>2, <1>3, MovedOnce
<1>7. TypeOK'
  BY <1>1, <1>2, <1>4, <1>5, TypesNext DEF BinderyInv, TypeOK
<1>9. disk'.obj = obj' /\ disk'.prop = disk.prop /\ disk'.val = disk.val
  BY <1>4
<1>10. AllSound' /\ AllOld' /\ AllNamed' /\ ObjectsOnce' /\ JobReady'
  BY <1>1, <1>5, <1>6, <1>9 DEF BinderyInv, AllSound, AllOld, AllNamed, ObjectsOnce, JobReady
<1>11. QED
  BY <1>7, <1>10 DEF BinderyInv

\* The server is started again with the files o, f and v.
StartedWith(o, f, v) ==
  /\ o \in Objs /\ f \in Props /\ v \in Vals
  /\ Sound(o, f) /\ NumbersNames(o)
  /\ OldObjs(o, drawn) /\ OldProps(f, drawn) /\ OldVals(v, drawn)
  /\ obj' = o /\ prop' = f /\ val' = v /\ Restart

LEMMA RestartKeeps ==
  ASSUME Seeded, BinderyInv, harmed' = TRUE, NEW o, NEW f, NEW v, StartedWith(o, f, v)
  PROVE  BinderyInv'
<1>1. /\ o \in Objs /\ f \in Props /\ v \in Vals /\ Sound(o, f) /\ NumbersNames(o)
      /\ OldObjs(o, drawn) /\ OldProps(f, drawn) /\ OldVals(v, drawn)
      /\ obj' = o /\ prop' = f /\ val' = v
      /\ disk' = [obj |-> o, prop |-> f, val |-> v] /\ job' = None /\ drawn' = drawn
  BY DEF StartedWith, Restart, Files
<1>2. disk'.obj = o /\ disk'.prop = f /\ disk'.val = v
  BY <1>1
<1>3. TypeOK'
  BY <1>1, TypesNext DEF BinderyInv, TypeOK
<1>4. AllSound' /\ AllOld' /\ AllNamed' /\ ObjectsOnce' /\ JobReady'
  BY <1>1, <1>2 DEF AllSound, AllOld, AllNamed, ObjectsOnce, JobReady
<1>5. QED
  BY <1>3, <1>4 DEF BinderyInv

LEMMA CrashKeeps ==
  ASSUME Seeded, BinderyInv, Crash, harmed' = TRUE
  PROVE  BinderyInv'
<1>1. StartedWith(disk.obj, disk.prop, disk.val)
  BY InvTypes DEF Crash, StartedWith, BinderyInv, AllSound, AllOld, AllNamed
<1>2. QED
  BY <1>1, RestartKeeps

LEMMA CrashInDeletePropKeeps ==
  ASSUME Seeded, BinderyInv, CrashInDeleteProp, harmed' = TRUE
  PROVE  BinderyInv'
<1> DEFINE S == ValueOf(prop[Least(WithId(prop, job.next))])
<1>1. obj' = obj /\ prop' = prop /\ val' = Front(val) /\ S # {} /\ Restart
  BY DEF CrashInDeleteProp
<1>2. obj \in Objs /\ prop \in Props /\ val \in Vals /\ OldVals(val, drawn)
  BY InvTypes DEF BinderyInv, AllOld
<1>3. val # <<>>
  <2>1. PICK k : k \in S
    BY <1>1
  <2>2. k \in DOMAIN val
    BY <2>1 DEF ValueOf, WithId
  <2>3. QED
    BY <2>2
<1>4. Front(val) \in Vals /\ OldVals(Front(val), drawn)
  <2>1. /\ Front(val) \in Vals /\ DOMAIN Front(val) \subseteq DOMAIN val
        /\ \A j \in DOMAIN Front(val) : Front(val)[j] = val[j]
    BY <1>2, <1>3, FrontOf DEF Vals
  <2>2. QED
    BY <1>2, <2>1 DEF OldVals
<1>5. StartedWith(obj, prop, Front(val))
  BY <1>1, <1>2, <1>4 DEF StartedWith, BinderyInv, AllSound, AllOld, AllNamed
<1>6. QED
  BY <1>5, RestartKeeps

LEMMA CrashInEndDeleteKeeps ==
  ASSUME Seeded, BinderyInv, CrashInEndDelete, harmed' = TRUE
  PROVE  BinderyInv'
<1>1. PICK o \in {obj, [obj EXCEPT ![job.pos] = obj[Len(obj)]]} :
        obj' = o /\ prop' = disk.prop /\ val' = disk.val /\ Restart /\ job # None
  BY DEF CrashInEndDelete
<1>2. /\ obj \in Objs /\ disk.prop \in Props /\ disk.val \in Vals /\ job.pos \in DOMAIN obj
      /\ Sound(obj, disk.prop) /\ NumbersNames(obj)
      /\ OldObjs(obj, drawn) /\ OldProps(disk.prop, drawn) /\ OldVals(disk.val, drawn)
  BY <1>1, InvTypes DEF BinderyInv, AllSound, AllOld, AllNamed, JobReady
<1>3. o \in Objs /\ PartOf(o, obj)
  <2>1. CASE o = obj
    BY <1>2, <2>1 DEF PartOf
  <2>2. CASE o = [obj EXCEPT ![job.pos] = obj[Len(obj)]]
    <3>1. Len(obj) \in DOMAIN obj /\ obj[Len(obj)] \in ObjectRecord
      BY <1>2 DEF Objs
    <3>2. /\ o \in Objs /\ DOMAIN o = DOMAIN obj
          /\ \A j \in DOMAIN obj : o[j] = IF j = job.pos THEN obj[Len(obj)] ELSE obj[j]
      BY <1>2, <2>2, <3>1, ExceptSeq DEF Objs
    <3>3. QED
      BY <3>1, <3>2 DEF PartOf
  <2>3. QED
    BY <2>1, <2>2
<1>4. StartedWith(o, disk.prop, disk.val)
  BY <1>1, <1>2, <1>3, PartKeeps DEF StartedWith
<1>5. QED
  BY <1>4, RestartKeeps

LEMMA BinderyStarts ==
  ASSUME Init
  PROVE  BinderyInv
<1>1. /\ obj = <<>> /\ prop = <<>> /\ val = <<>> /\ drawn = 0 /\ job = None
      /\ disk.obj = <<>> /\ disk.prop = <<>> /\ disk.val = <<>>
      /\ disk = [obj |-> <<>>, prop |-> <<>>, val |-> <<>>] /\ harmed = FALSE
  BY DEF Init, Files
<1>2. TypeOK
  <2>1. <<>> \in Objs /\ <<>> \in Props /\ <<>> \in Vals
    BY DEF Objs, Props, Vals
  <2>2. 0 \in 0..MaxDrawn
    BY BinderyAssumption
  <2>3. QED
    BY <1>1, <2>1, <2>2 DEF TypeOK, Objs, Props, Vals
<1>3. \A i : i \notin DOMAIN <<>>
  OBVIOUS
<1>4. AllSound
  BY <1>1, <1>3 DEF AllSound, Sound, IdsOnce, NamesOnce, ValuesOnce, NextOnce, FirstOnce,
                    LinkedOnce, Upward, Home
<1>5. AllOld
  BY <1>1, <1>3 DEF AllOld, OldObjs, OldProps, OldVals
<1>6. ObjectsOnce /\ JobReady /\ AllNamed
  BY <1>1, <1>3 DEF ObjectsOnce, ObjsOnce, JobReady, AllNamed, NumbersNames
<1>7. QED
  BY <1>2, <1>4, <1>5, <1>6 DEF BinderyInv

LEMMA CarefulKeeps ==
  ASSUME BinderyInv, CarefulNext, UNCHANGED harmed
  PROVE  BinderyInv'
<1>1. CASE \E S \in SUBSET DOMAIN disk : Look(S)
  BY <1>1, LookKeeps
<1>2. CASE \E n \in Name : AddObject(n)
  BY <1>2, AddObjectKeeps
<1>3. CASE \E n \in Name, p \in PropName : AddProp(n, p)
  BY <1>3, AddPropKeeps
<1>4. CASE \E n \in Name, p \in PropName, d \in Data : WriteProp(n, p, d)
  BY <1>4, WritePropKeeps
<1>5. CASE \E n \in Name : Named(n) # {} /\ Careful(n) /\ DeleteObj(n)
  BY <1>5, DeleteObjKeeps
<1>6. CASE DeleteProp
  BY <1>6, DeletePropKeeps
<1>7. CASE EndDelete
  BY <1>7, EndDeleteKeeps
<1>8. CASE Growing
  BY <1>1, <1>2, <1>3, <1>4, <1>8 DEF Growing
<1>9. QED
  BY <1>5, <1>6, <1>7, <1>8 DEF CarefulNext

LEMMA HarmKeeps ==
  ASSUME Seeded, BinderyInv, Harm, harmed' = TRUE
  PROVE  BinderyInv'
<1>1. CASE DeleteValueless
  BY <1>1, DeleteValuelessKeeps
<1>2. CASE Crash
  BY <1>2, CrashKeeps
<1>3. CASE CrashInDeleteProp
  BY <1>3, CrashInDeletePropKeeps
<1>4. CASE CrashInEndDelete
  BY <1>4, CrashInEndDeleteKeeps
<1>5. CASE \E n \in Name, p \in PropName : AddPropFails(n, p)
  BY <1>5, AddPropFailsKeeps
<1>6. QED
  BY <1>1, <1>2, <1>3, <1>4, <1>5 DEF Harm

LEMMA BinderyStutters ==
  ASSUME BinderyInv, UNCHANGED vars
  PROVE  BinderyInv'
BY DEF vars, BinderyInv, TypeOK, AllSound, AllOld, AllNamed, ObjectsOnce, JobReady, WithId, ValueOf

LEMMA BinderyInvHolds ==
  ASSUME Seeded
  PROVE  CrashSpec => []BinderyInv
<1>1. Init => BinderyInv
  BY BinderyStarts
<1>2. BinderyInv /\ [CrashNext]_vars => BinderyInv'
  BY CarefulKeeps, HarmKeeps, BinderyStutters DEF CrashNext
<1>3. QED
  BY <1>1, <1>2, PTL DEF CrashSpec

\* Until the server is killed or a write fails, it makes no difference what an
\* unseeded random() does after a restart.
WholeInv == ~harmed => BinderyInv

LEMMA WholeInvHolds == CrashSpec => []WholeInv
<1>1. Init => WholeInv
  BY BinderyStarts DEF WholeInv
<1>2. WholeInv /\ [CrashNext]_vars => WholeInv'
  <2> SUFFICES ASSUME WholeInv, [CrashNext]_vars, ~harmed' PROVE BinderyInv'
    BY DEF WholeInv
  <2>1. CASE CarefulNext /\ UNCHANGED harmed
    BY <2>1, CarefulKeeps DEF WholeInv
  <2>2. CASE UNCHANGED vars
    BY <2>2, BinderyStutters DEF WholeInv, vars
  <2>3. QED
    BY <2>1, <2>2 DEF CrashNext
<1>3. QED
  BY <1>1, <1>2, PTL DEF CrashSpec

\* In a build that seeds random(), the records are what the calls expect to find in
\* them, through any failure and restart: in particular the numbers drawn stay within their bound and a deletion
\* keeps a position that is one in the object file (bindio_delete_obj).
THEOREM BinderyTypeCorrect ==
  ASSUME Seeded
  PROVE  CrashSpec => []TypeOK
<1>1. BinderyInv => TypeOK
  BY DEF BinderyInv
<1>2. QED
  BY <1>1, BinderyInvHolds, PTL

\* In a build that seeds random(), whatever writes fail and whenever the server is
\* killed, between calls or in the middle of a deletion, what is left can be read
\* and used again: bindio_dump, which bind_init calls before the server
\* serves anybody, comes to the end of every chain; no chain leads to a property
\* of another object; and no object has two properties of one name.
THEOREM FilesStaySound ==
  ASSUME Seeded
  PROVE  CrashSpec => []FilesAreSound
<1>1. BinderyInv => FilesAreSound
  <2> SUFFICES ASSUME BinderyInv PROVE FilesAreSound
    OBVIOUS
  <2>1. /\ obj \in Objs /\ prop \in Props /\ disk.obj \in Objs /\ disk.prop \in Props
        /\ Sound(obj, prop) /\ Sound(disk.obj, disk.prop)
    BY InvTypes DEF BinderyInv, AllSound
  <2>2. ServerStarts
    BY <2>1, ChainsEnd DEF ServerStarts
  <2>3. ChainsStayHome
    BY <2>1, ChainsHome DEF ChainsStayHome
  <2>4. PropertiesOnce
    BY <2>1 DEF PropertiesOnce, Sound, NamesOnce
  <2>5. QED
    BY <2>2, <2>3, <2>4 DEF FilesAreSound
<1>2. QED
  BY <1>1, BinderyInvHolds, PTL

-----------------------------------------------------------------------------
(* Complete chains, until the server is killed or a write fails *)

CompleteInv == ~harmed => Complete(obj, prop)

LEMMA CompleteFirst ==
  ASSUME NEW n, NEW p, NEW i, NEW r, NEW f, AddStarted(n, p, i, r, f), obj \in Objs, prop \in Props,
         Complete(obj, prop), obj[i].first = Nil, NEW q, NEW x, NewFirst(obj, q, i, r.id, x)
  PROVE  Complete(q, f)
<1>1. /\ DOMAIN prop = 1..Len(prop) /\ DOMAIN f = 1..Len(f) /\ Len(prop) \in Nat
      /\ Len(f) = Len(prop) + 1 /\ r.next = Nil /\ i \in DOMAIN obj
      /\ \A j \in DOMAIN f : f[j] = IF j \in DOMAIN prop THEN prop[j] ELSE r
      /\ r.id # Nil /\ f[Len(f)] = r
  BY DEF AddStarted
<1>2. /\ DOMAIN q = DOMAIN obj
      /\ \A j \in DOMAIN obj : q[j].first = IF j = i THEN r.id ELSE obj[j].first
  BY DEF NewFirst
<1>3. \A j \in DOMAIN prop : prop[j].id # Nil
  BY FilesType DEF Props
<1>4. \A id : WithId(prop, id) # {} => WithId(f, id) # {}
  BY <1>1 DEF WithId
<1>5. WithId(f, r.id) # {}
  BY <1>1 DEF WithId
<1>6. Leads(q, f)
  BY <1>1, <1>2, <1>4, <1>5 DEF Complete, Leads
<1>7. ASSUME NEW k \in DOMAIN f
      PROVE  \/ \E j \in DOMAIN q : q[j].first = f[k].id
             \/ \E j \in DOMAIN f : j < k /\ f[j].next = f[k].id
  <2>1. CASE k \in DOMAIN prop
    <3>1. f[k] = prop[k]
      BY <1>1, <2>1
    <3>2. CASE \E j \in DOMAIN obj : obj[j].first = prop[k].id
      <4>1. PICK j \in DOMAIN obj : obj[j].first = prop[k].id
        BY <3>2
      <4>2. j # i
        BY <1>3, <2>1, <4>1
      <4>3. QED
        BY <1>2, <3>1, <4>1, <4>2
    <3>3. CASE \E j \in DOMAIN prop : j < k /\ prop[j].next = prop[k].id
      BY <1>1, <3>1, <3>3
    <3>4. QED
      BY <2>1, <3>2, <3>3 DEF Complete, Reached
  <2>2. CASE k \notin DOMAIN prop
    BY <1>1, <1>2, <2>2
  <2>3. QED
    BY <2>1, <2>2
<1>8. QED
  BY <1>6, <1>7 DEF Complete, Reached

LEMMA CompleteLinked ==
  ASSUME NEW n, NEW p, NEW i, NEW r, NEW f, AddStarted(n, p, i, r, f), obj \in Objs, prop \in Props,
         Complete(obj, prop), obj[i].first # Nil
  PROVE  Complete(obj, Linked(f, obj[i].first))
<1> DEFINE g == Linked(f, obj[i].first)
<1>1. /\ DOMAIN prop = 1..Len(prop) /\ DOMAIN f = 1..Len(f) /\ Len(prop) \in Nat
      /\ Len(f) = Len(prop) + 1 /\ r.next = Nil /\ i \in DOMAIN obj /\ f \in Props
      /\ \A j \in DOMAIN f : f[j] = IF j \in DOMAIN prop THEN prop[j] ELSE r
      /\ r.id # Nil /\ f[Len(f)] = r /\ r.owner = obj[i].id
      /\ Sound(obj, f) /\ NotLinked(obj, f)
  BY DEF AddStarted
<1>2. \A id : WithId(prop, id) # {} => WithId(f, id) # {}
  BY <1>1 DEF WithId
<1>3. Leads(obj, f)
  BY <1>1, <1>2 DEF Complete, Leads
<1>4. IdsOnce(f)
  BY <1>1 DEF Sound
<1>5. Len(f) \notin Chained(f, obj[i].first)
  <2> DEFINE S == {obj[i].first} \cup {f[a].next : a \in DOMAIN f}
  <2>1. r.id \notin S
    BY <1>1 DEF NotLinked
  <2>2. obj[i].first \in S /\ \A a \in DOMAIN f : f[a].next \in S
    OBVIOUS
  <2> HIDE DEF S
  <2>3. \A k \in 0..Len(f) : Chain(f, obj[i].first)[k] \in S
    BY <1>1, <2>2, ChainIn
  <2>4. Len(f) \in DOMAIN f
    BY <1>1
  <2>5. QED
    BY <1>1, <1>4, <2>1, <2>3, <2>4, ChainedIs
<1>6. \E j \in Chained(f, obj[i].first) : f[j].next = Nil
  BY <1>1, <1>3, ChainHasEnd
<1>7. PICK at \in DOMAIN f : /\ f[at].owner = f[Len(f)].owner
                             /\ LinkedAt(f, at, g)
                             /\ at \in Chained(f, obj[i].first) /\ f[at].next = Nil
  <2>1. f # <<>> /\ f[Len(f)].owner = obj[i].id
    BY <1>1
  <2>2. g = Linked(f, obj[i].first)
    OBVIOUS
  <2> HIDE DEF g
  <2>3. PICK at \in DOMAIN f :
          /\ f[at].owner = f[Len(f)].owner
          /\ LinkedAt(f, at, g)
          /\ at = Len(f) \/ (at \in Chained(f, obj[i].first) /\ f[at].next = Nil)
          /\ (\E j \in Chained(f, obj[i].first) : f[j].next = Nil) => at \in Chained(f, obj[i].first)
    BY <1>1, <2>1, <2>2, LinkPlace
  <2>4. QED
    BY <1>1, <1>6, <2>3
<1> HIDE DEF g
<1>8. /\ DOMAIN g = DOMAIN f
      /\ \A j \in DOMAIN f : g[j].id = f[j].id /\ g[j].next = IF j = at THEN r.id ELSE f[j].next
  BY <1>1, <1>7, PropLinked
<1>9. at < Len(f) /\ at \in DOMAIN prop
  BY <1>1, <1>5, <1>7
<1>10. \A id : WithId(f, id) # {} => WithId(g, id) # {}
  BY <1>8 DEF WithId
<1>11. WithId(f, r.id) # {}
  BY <1>1 DEF WithId
<1>12. Leads(obj, g)
  BY <1>3, <1>8, <1>10, <1>11 DEF Leads
<1>13. ASSUME NEW k \in DOMAIN g
       PROVE  \/ \E j \in DOMAIN obj : obj[j].first = g[k].id
              \/ \E j \in DOMAIN g : j < k /\ g[j].next = g[k].id
  <2>1. CASE k \in DOMAIN prop
    <3>1. f[k] = prop[k] /\ g[k].id = prop[k].id
      BY <1>1, <1>8, <2>1
    <3>2. CASE \E j \in DOMAIN obj : obj[j].first = prop[k].id
      BY <3>1, <3>2
    <3>3. CASE \E j \in DOMAIN prop : j < k /\ prop[j].next = prop[k].id
      <4>1. PICK j \in DOMAIN prop : j < k /\ prop[j].next = prop[k].id
        BY <3>3
      <4>2. prop[k].id # Nil
        BY <2>1, FilesType DEF Props
      <4>3. j \in DOMAIN f /\ f[j] = prop[j] /\ j # at
        BY <1>1, <1>7, <4>1, <4>2
      <4>4. QED
        BY <1>8, <3>1, <4>1, <4>3
    <3>4. QED
      BY <2>1, <3>2, <3>3 DEF Complete, Reached
  <2>2. CASE k \notin DOMAIN prop
    <3>1. k = Len(f) /\ g[k].id = r.id
      BY <1>1, <1>8, <2>2
    <3>2. QED
      BY <1>7, <1>8, <1>9, <3>1
  <2>3. QED
    BY <2>1, <2>2
<1>14. Complete(obj, g)
  BY <1>12, <1>13 DEF Complete, Reached
<1>15. QED
  BY <1>14 DEF g

LEMMA AddPropCompletes ==
  ASSUME BinderyInv, Complete(obj, prop), NEW n \in Name, NEW p \in PropName, AddProp(n, p)
  PROVE  Complete(obj', prop')
<1> DEFINE i == RecordOf(n)
           r == NewProperty(obj[i].id, p)
           f == Append(prop, r)
<1>1. AddPropStarts(n, p)
  BY DEF AddProp
<1>2. \/ obj[i].first = Nil /\ obj' = [obj EXCEPT ![i].first = drawn + 2] /\ prop' = f
      \/ obj[i].first # Nil /\ obj' = obj /\ prop' = Linked(f, obj[i].first)
  BY DEF AddProp
<1>0. i = RecordOf(n) /\ r = NewProperty(obj[i].id, p) /\ f = Append(prop, r)
  OBVIOUS
<1> HIDE DEF i, r, f
<1>3. AddStarted(n, p, i, r, f)
  BY <1>0, <1>1, AddStarts
<1>4. obj \in Objs /\ prop \in Props
  BY InvTypes DEF BinderyInv
<1>5. CASE obj[i].first = Nil
  <2> DEFINE x == [obj[i] EXCEPT !.first = drawn + 2]
  <2>1. obj' = [obj EXCEPT ![i].first = drawn + 2] /\ prop' = f
    BY <1>2, <1>5
  <2>2. /\ i \in DOMAIN obj /\ r.id = drawn + 2 /\ r.id \in Link
    BY <1>3 DEF AddStarted, NotLinked
  <2>3. x = [obj[i] EXCEPT !.first = drawn + 2]
    OBVIOUS
  <2> HIDE DEF x
  <2>4. NewFirst(obj, obj', i, r.id, x)
    BY <1>4, <2>1, <2>2, <2>3, SameObjects
  <2>5. QED
    BY <1>3, <1>4, <1>5, <2>1, <2>4, CompleteFirst
<1>6. CASE obj[i].first # Nil
  BY <1>2, <1>3, <1>4, <1>6, CompleteLinked
<1>7. QED
  BY <1>5, <1>6

LEMMA AddObjectCompletes ==
  ASSUME BinderyInv, Complete(obj, prop), NEW n \in Name, AddObject(n)
  PROVE  Complete(obj', prop')
<1> DEFINE r == [id |-> drawn', name |-> n, first |-> Nil]
<1>1. obj' = Append(obj, r) /\ prop' = prop /\ obj \in Objs
  BY InvTypes DEF AddObject, BinderyInv
<1>2. /\ DOMAIN obj' = 1..Len(obj)+1 /\ DOMAIN obj = 1..Len(obj) /\ Len(obj) \in Nat
      /\ \A j \in DOMAIN obj' : obj'[j] = IF j \in DOMAIN obj THEN obj[j] ELSE r
  BY <1>1 DEF Objs
<1>3. r.first = Nil
  OBVIOUS
<1> HIDE DEF r
<1>4. Leads(obj', prop)
  BY <1>2, <1>3 DEF Complete, Leads
<1>5. Reached(obj', prop)
  BY <1>2 DEF Complete, Reached
<1>6. QED
  BY <1>1, <1>4, <1>5 DEF Complete

\* Nothing but its object links to the property that is cut off.
LEMMA DeletePropCompletes ==
  ASSUME BinderyInv, ~harmed, Complete(obj, prop), DeleteProp
  PROVE  Complete(obj', prop')
<1> DEFINE i == job.pos
           r == prop[Len(prop)]
<1>1. PICK s \in ObjectRecord : DeletesLast(i, r, s)
  BY DeletesTheLast
<1>2. /\ i \in DOMAIN obj /\ prop # <<>> /\ s.first = Nil /\ r.id = obj[i].first
      /\ obj' = [obj EXCEPT ![i] = s] /\ prop' = Front(prop)
      /\ ObjsOnce(obj, DOMAIN obj)
  BY <1>1 DEF DeletesLast
<1>3. obj \in Objs /\ prop \in Props /\ Sound(obj, prop)
  BY InvTypes DEF BinderyInv, AllSound
<1>4. /\ DOMAIN prop = 1..Len(prop) /\ Len(prop) \in Nat /\ DOMAIN prop' = 1..Len(prop)-1
      /\ \A j \in DOMAIN prop' : prop'[j] = prop[j]
  BY <1>2, <1>3, FrontOf DEF Props
<1>5. DOMAIN obj' = DOMAIN obj /\ \A j \in DOMAIN obj : obj'[j] = IF j = i THEN s ELSE obj[j]
  BY <1>2, <1>3 DEF Objs
<1>6. /\ r = prop[Len(prop)] /\ r.id # Nil /\ Len(prop) \in DOMAIN prop
      /\ \A j \in DOMAIN prop : prop[j].id # Nil
  BY <1>2, <1>3, <1>4, FilesType DEF Props
<1> HIDE DEF i, r
<1>7. /\ \A j \in DOMAIN obj : j # i => obj[j].first # r.id
      /\ \A j \in DOMAIN prop : prop[j].next # r.id
  BY <1>2, <1>3, <1>6 DEF Sound, FirstOnce, LinkedOnce, ObjsOnce
<1>8. \A id : WithId(prop, id) # {} /\ id # r.id => WithId(prop', id) # {}
  <2> SUFFICES ASSUME NEW id, WithId(prop, id) # {}, id # r.id PROVE WithId(prop', id) # {}
    OBVIOUS
  <2>1. PICK j \in DOMAIN prop : prop[j].id = id
    BY DEF WithId
  <2>2. j # Len(prop)
    BY <1>6, <2>1
  <2>3. j \in DOMAIN prop' /\ prop'[j].id = id
    BY <1>4, <2>1, <2>2
  <2>4. QED
    BY <2>3 DEF WithId
<1>9. Leads(obj', prop')
  <2>1. ASSUME NEW j \in DOMAIN obj', obj'[j].first # Nil PROVE WithId(prop', obj'[j].first) # {}
    <3>1. j \in DOMAIN obj /\ j # i /\ obj'[j].first = obj[j].first
      BY <1>2, <1>5, <2>1
    <3>2. QED
      BY <1>7, <1>8, <2>1, <3>1 DEF Complete, Leads
  <2>2. ASSUME NEW j \in DOMAIN prop', prop'[j].next # Nil PROVE WithId(prop', prop'[j].next) # {}
    <3>1. j \in DOMAIN prop /\ prop'[j].next = prop[j].next
      BY <1>4
    <3>2. QED
      BY <1>7, <1>8, <2>2, <3>1 DEF Complete, Leads
  <2>3. QED
    BY <2>1, <2>2 DEF Leads
<1>10. ASSUME NEW k \in DOMAIN prop'
       PROVE  \/ \E j \in DOMAIN obj' : obj'[j].first = prop'[k].id
              \/ \E j \in DOMAIN prop' : j < k /\ prop'[j].next = prop'[k].id
  <2>1. k \in DOMAIN prop /\ k # Len(prop) /\ prop'[k] = prop[k] /\ k < Len(prop)
    BY <1>4
  <2>2. prop[k].id # r.id
    BY <1>3, <1>6, <2>1 DEF Sound, IdsOnce
  <2>3. CASE \E j \in DOMAIN obj : obj[j].first = prop[k].id
    BY <1>2, <1>5, <2>1, <2>2, <2>3
  <2>4. CASE \E j \in DOMAIN prop : j < k /\ prop[j].next = prop[k].id
    <3>1. PICK j \in DOMAIN prop : j < k /\ prop[j].next = prop[k].id
      BY <2>4
    <3>2. j \in DOMAIN prop'
      BY <1>4, <2>1, <3>1
    <3>3. QED
      BY <1>4, <2>1, <3>1, <3>2
  <2>5. QED
    BY <2>1, <2>3, <2>4 DEF Complete, Reached
<1>11. QED
  BY <1>9, <1>10 DEF Complete, Reached

LEMMA EndDeleteCompletes ==
  ASSUME BinderyInv, Complete(obj, prop), EndDelete
  PROVE  Complete(obj', prop')
<1> DEFINE i == job.pos
           from(j) == IF j = i THEN Len(obj) ELSE j
           to(j) == IF j = Len(obj) THEN i ELSE j
<1>1. /\ job # None /\ obj' = MovedTo(obj, i) /\ prop' = prop /\ WithId(prop, job.next) = {}
  BY DEF EndDelete, RemovedAt, MovedTo
<1>2. obj \in Objs /\ i \in DOMAIN obj /\ WithId(prop, obj[i].first) = {}
  BY <1>1, InvTypes DEF BinderyInv, JobReady
<1>3. /\ DOMAIN obj' = 1..Len(obj)-1 /\ DOMAIN obj = 1..Len(obj) /\ Len(obj) \in Nat
      /\ \A j \in DOMAIN obj' : obj'[j] = obj[from(j)]
  <2> HIDE DEF i
  <2>1. /\ DOMAIN obj' = 1..Len(obj)-1
        /\ \A j \in 1..Len(obj)-1 : obj'[j] = IF j = i THEN obj[Len(obj)] ELSE obj[j]
    BY <1>1, <1>2, MovedIs DEF Objs
  <2>2. QED
    BY <1>2, <2>1 DEF Objs
<1>4. /\ \A j \in DOMAIN obj' : from(j) \in DOMAIN obj
      /\ \A j \in DOMAIN obj \ {i} : to(j) \in DOMAIN obj' /\ from(to(j)) = j
  BY <1>2, <1>3
<1> HIDE DEF from, to
<1>5. Leads(obj', prop)
  BY <1>3, <1>4 DEF Complete, Leads
<1>6. ASSUME NEW k \in DOMAIN prop, NEW j \in DOMAIN obj, obj[j].first = prop[k].id
      PROVE  \E m \in DOMAIN obj' : obj'[m].first = prop[k].id
  <2>1. j # i
    BY <1>2, <1>6 DEF WithId
  <2>2. QED
    BY <1>3, <1>4, <1>6, <2>1
<1>7. Reached(obj', prop)
  BY <1>6 DEF Complete, Reached
<1>8. QED
  BY <1>1, <1>5, <1>7 DEF Complete

LEMMA CompleteInvHolds == CrashSpec => []CompleteInv
<1>1. Init => CompleteInv
  BY DEF Init, CompleteInv, Complete, Leads, Reached
<1>2. WholeInv /\ CompleteInv /\ [CrashNext]_vars => CompleteInv'
  <2> SUFFICES ASSUME WholeInv, CompleteInv, [CrashNext]_vars, ~harmed' PROVE Complete(obj', prop')
    BY DEF CompleteInv
  <2>1. CASE UNCHANGED vars
    BY <2>1 DEF vars, CompleteInv
  <2>2. CASE CarefulNext /\ UNCHANGED harmed
    <3>1. Complete(obj, prop) /\ BinderyInv /\ ~harmed
      BY <2>2 DEF CompleteInv, WholeInv
    <3>2. ASSUME NEW S \in SUBSET DOMAIN disk, Look(S) PROVE Complete(obj', prop')
      BY <3>1, <3>2 DEF Look
    <3>3. ASSUME NEW n \in Name, AddObject(n) PROVE Complete(obj', prop')
      BY <3>1, <3>3, AddObjectCompletes
    <3>4. ASSUME NEW n \in Name, NEW p \in PropName, AddProp(n, p) PROVE Complete(obj', prop')
      BY <3>1, <3>4, AddPropCompletes
    <3>5. ASSUME NEW n \in Name, NEW p \in PropName, NEW d \in Data, WriteProp(n, p, d)
          PROVE  Complete(obj', prop')
      BY <3>1, <3>5 DEF WriteProp
    <3>6. ASSUME NEW n \in Name, DeleteObj(n) PROVE Complete(obj', prop')
      BY <3>1, <3>6 DEF DeleteObj
    <3>7. CASE DeleteProp
      BY <3>1, <3>7, DeletePropCompletes
    <3>8. CASE EndDelete
      BY <3>1, <3>8, EndDeleteCompletes
    <3>9. CASE Growing
      BY <3>2, <3>3, <3>4, <3>5, <3>9 DEF Growing
    <3>10. QED
      BY <2>2, <3>6, <3>7, <3>8, <3>9 DEF CarefulNext
  <2>3. QED
    BY <2>1, <2>2 DEF CrashNext
<1>3. QED
  BY <1>1, <1>2, WholeInvHolds, PTL DEF CrashSpec

\* Until the server is killed or a write fails, the chain of every object goes
\* through all of its properties and no others, wherever deletions have moved the
\* records: bindio_delete_obj finds what it has to delete.
THEOREM ChainsAreComplete == CrashSpec => []ChainsComplete
<1>1. WholeInv /\ CompleteInv => ChainsComplete
  <2> SUFFICES ASSUME WholeInv, CompleteInv, job = None, ~harmed, NEW i \in DOMAIN obj
               PROVE  /\ ChainEnd(prop, obj[i].first) = Nil
                      /\ Chained(prop, obj[i].first) = {k \in DOMAIN prop : prop[k].owner = obj[i].id}
    BY DEF ChainsComplete
  <2>1. obj \in Objs /\ prop \in Props /\ Sound(obj, prop) /\ ObjsOnce(obj, DOMAIN obj)
    BY InvTypes DEF WholeInv, BinderyInv, AllSound, ObjectsOnce
  <2>2. QED
    BY <2>1, ChainsWhole DEF CompleteInv
<1>2. QED
  BY <1>1, WholeInvHolds, CompleteInvHolds, PTL

-----------------------------------------------------------------------------
(* What clients find by name *)

FoundIn(f, id, p) == {i \in DOMAIN f : f[i].owner = id /\ f[i].name = p}

ReadOf(f, v, id, p) ==
  IF FoundIn(f, id, p) = {} \/ WithId(v, f[Least(FoundIn(f, id, p))].value) = {} THEN None
  ELSE v[Least(WithId(v, f[Least(FoundIn(f, id, p))].value))].data

\* Object m, in a file where the records J count as gone.
NamedIn(o, J, m) == {i \in DOMAIN o : o[i].name = m} \ J

EntryOf(o, J, f, v, m) ==
  IF NamedIn(o, J, m) = {} THEN None
  ELSE [p \in PropName |-> ReadOf(f, v, o[Least(NamedIn(o, J, m))].id, p)]

View(o, J, f, v) == [m \in Name |-> EntryOf(o, J, f, v, m)]

Hidden == IF job = None THEN {} ELSE {job.pos}

LEMMA DirectoryIs ==
  /\ Directory = View(obj, Hidden, prop, val)
  /\ Directory' = View(obj', Hidden', prop', val')
BY DEF Directory, View, EntryOf, NamedIn, Hidden, Present, Named, Lookup, ReadOf, FoundIn, PropsOf,
       ValueOf

\* A read that finds the same records, with the same data, returns the same.
SameRead(f, v, g, w, id, p) ==
  /\ FoundIn(g, id, p) = FoundIn(f, id, p)
  /\ \A j \in FoundIn(f, id, p) :
       /\ g[j].value = f[j].value
       /\ WithId(w, f[j].value) = WithId(v, f[j].value)
       /\ \A k \in WithId(v, f[j].value) : w[k].data = v[k].data

LEMMA ReadSame ==
  ASSUME NEW f \in Props, NEW v \in Vals, NEW g, NEW w, NEW id, NEW p, SameRead(f, v, g, w, id, p)
  PROVE  ReadOf(g, w, id, p) = ReadOf(f, v, id, p)
<1> DEFINE j == Least(FoundIn(f, id, p))
           k == Least(WithId(v, f[j].value))
<1>1. CASE FoundIn(f, id, p) = {}
  BY <1>1 DEF SameRead, ReadOf
<1>2. CASE FoundIn(f, id, p) # {}
  <2>1. FoundIn(f, id, p) \subseteq Nat
    BY DEF FoundIn, Props
  <2>2. j \in FoundIn(f, id, p)
    BY <1>2, <2>1, LeastOfSet
  <2>3. WithId(v, f[j].value) \subseteq Nat
    BY DEF WithId, Vals
  <2>4. WithId(v, f[j].value) # {} => k \in WithId(v, f[j].value)
    BY <2>3, LeastOfSet
  <2>5. /\ FoundIn(g, id, p) = FoundIn(f, id, p) /\ g[j].value = f[j].value
        /\ WithId(w, f[j].value) = WithId(v, f[j].value)
        /\ WithId(v, f[j].value) # {} => w[k].data = v[k].data
    BY <2>2, <2>4 DEF SameRead
  <2>6. QED
    BY <1>2, <2>5 DEF ReadOf
<1>3. QED
  BY <1>1, <1>2

LEMMA ReadType ==
  ASSUME NEW f \in Props, NEW v \in Vals, NEW id, NEW p
  PROVE  ReadOf(f, v, id, p) \in Data \cup {None}
<1> DEFINE x == f[Least(FoundIn(f, id, p))].value
<1>1. WithId(v, x) # {} => Least(WithId(v, x)) \in DOMAIN v
  BY Scanned DEF Vals
<1>2. \A k \in DOMAIN v : v[k].data \in Data
  <2>1. \A k \in DOMAIN v : v[k] \in ValueRecord
    BY DEF Vals
  <2>2. QED
    BY <2>1 DEF ValueRecord
<1>3. QED
  BY <1>1, <1>2 DEF ReadOf

\* A property that is in record j, with its value in record k.
FoundAt(f, v, id, p, j, k) ==
  /\ j \in DOMAIN f /\ FoundIn(f, id, p) = {j}
  /\ WithId(v, f[j].value) # {} /\ Least(WithId(v, f[j].value)) = k

LEMMA ReadFound ==
  ASSUME NEW f \in Props, NEW v, NEW id, NEW p, NEW j, NEW k, FoundAt(f, v, id, p, j, k)
  PROVE  ReadOf(f, v, id, p) = v[k].data
<1>1. j \in Nat
  BY DEF FoundAt, Props
<1>2. Least(FoundIn(f, id, p)) = j
  BY <1>1, LeastOfOne DEF FoundAt
<1>3. QED
  BY <1>2 DEF ReadOf, FoundAt

\* Object m is in record i.
IsAt(o, J, m, i) == NumbersNames(o) /\ i \in DOMAIN o \ J /\ o[i].name = m

LEMMA EntryOne ==
  ASSUME NEW o \in Objs, NEW J, NEW m, NEW i, IsAt(o, J, m, i), NEW f, NEW v
  PROVE  EntryOf(o, J, f, v, m) = [p \in PropName |-> ReadOf(f, v, o[i].id, p)]
<1> DEFINE k == Least(NamedIn(o, J, m))
<1>1. NamedIn(o, J, m) \subseteq Nat /\ i \in NamedIn(o, J, m)
  BY DEF NamedIn, Objs, IsAt
<1>2. k \in NamedIn(o, J, m)
  BY <1>1, LeastOfSet
<1>3. o[k].id = o[i].id
  BY <1>2 DEF NamedIn, NumbersNames, IsAt
<1>4. EntryOf(o, J, f, v, m) = [p \in PropName |-> ReadOf(f, v, o[k].id, p)]
  BY <1>1 DEF EntryOf
<1>5. QED
  BY <1>3, <1>4

LEMMA EntryNone ==
  ASSUME NEW o, NEW J, NEW m, \A i \in DOMAIN o \ J : o[i].name # m, NEW f, NEW v
  PROVE  EntryOf(o, J, f, v, m) = None
<1>1. NamedIn(o, J, m) = {}
  BY DEF NamedIn
<1>2. QED
  BY <1>1 DEF EntryOf

\* The same objects have this name in two files.
Alike(o, J, q, K, m) ==
  /\ \A i \in DOMAIN o \ J : o[i].name = m =>
       \E j \in DOMAIN q \ K : q[j].name = m /\ q[j].id = o[i].id
  /\ \A j \in DOMAIN q \ K : q[j].name = m => \E i \in DOMAIN o \ J : o[i].name = m

ReadsAlike(o, J, f, v, g, w, m) ==
  \A i \in DOMAIN o \ J, p \in PropName :
    o[i].name = m => ReadOf(g, w, o[i].id, p) = ReadOf(f, v, o[i].id, p)

LEMMA EntrySame ==
  ASSUME NEW o \in Objs, NEW J, NumbersNames(o),
         NEW q \in Objs, NEW K, NumbersNames(q),
         NEW m, Alike(o, J, q, K, m),
         NEW f, NEW v, NEW g, NEW w, ReadsAlike(o, J, f, v, g, w, m)
  PROVE  EntryOf(q, K, g, w, m) = EntryOf(o, J, f, v, m)
<1>1. CASE \E i \in DOMAIN o \ J : o[i].name = m
  <2>1. PICK i \in DOMAIN o \ J : o[i].name = m
    BY <1>1
  <2>2. PICK j \in DOMAIN q \ K : q[j].name = m /\ q[j].id = o[i].id
    BY <2>1 DEF Alike
  <2>a. IsAt(o, J, m, i) /\ IsAt(q, K, m, j)
    BY <2>1, <2>2 DEF IsAt
  <2>3. EntryOf(o, J, f, v, m) = [p \in PropName |-> ReadOf(f, v, o[i].id, p)]
    BY <2>a, EntryOne
  <2>4. EntryOf(q, K, g, w, m) = [p \in PropName |-> ReadOf(g, w, o[i].id, p)]
    BY <2>2, <2>a, EntryOne
  <2>5. \A p \in PropName : ReadOf(g, w, o[i].id, p) = ReadOf(f, v, o[i].id, p)
    BY <2>1 DEF ReadsAlike
  <2>6. QED
    BY <2>3, <2>4, <2>5
<1>2. CASE \A i \in DOMAIN o \ J : o[i].name # m
  <2>1. \A j \in DOMAIN q \ K : q[j].name # m
    BY <1>2 DEF Alike
  <2>2. EntryOf(o, J, f, v, m) = None /\ EntryOf(q, K, g, w, m) = None
    BY <1>2, <2>1, EntryNone
  <2>3. QED
    BY <2>2
<1>3. QED
  BY <1>1, <1>2

LEMMA ViewSame ==
  ASSUME NEW o, NEW J, NEW f, NEW v, NEW q, NEW K, NEW g, NEW w,
         \A m \in Name : EntryOf(q, K, g, w, m) = EntryOf(o, J, f, v, m)
  PROVE  View(q, K, g, w) = View(o, J, f, v)
BY DEF View

LEMMA ViewChanged ==
  ASSUME NEW o, NEW J, NEW f, NEW v, NEW q, NEW K, NEW g, NEW w, NEW n \in Name,
         \A m \in Name : m # n => EntryOf(q, K, g, w, m) = EntryOf(o, J, f, v, m),
         NEW D, D = View(o, J, f, v), NEW E, E = View(q, K, g, w)
  PROVE  /\ D[n] = EntryOf(o, J, f, v, n)
         /\ E = [D EXCEPT ![n] = EntryOf(q, K, g, w, n)]
BY DEF View

LEMMA FilesAre ==
  ASSUME BinderyInv
  PROVE  NumbersNames(obj) /\ obj \in Objs /\ prop \in Props /\ val \in Vals
BY InvTypes DEF BinderyInv, AllNamed

LEMMA FilesNext ==
  ASSUME BinderyInv'
  PROVE  NumbersNames(obj') /\ obj' \in Objs /\ prop' \in Props /\ val' \in Vals
BY DEF BinderyInv, TypeOK, Objs, Props, Vals, AllNamed

\* What is read of object m stays the same.
Kept(m) ==
  /\ Alike(obj, Hidden, obj', Hidden', m)
  /\ ReadsAlike(obj, Hidden, prop, val, prop', val', m)

LEMMA KeptIs ==
  ASSUME BinderyInv, BinderyInv', NEW m, Kept(m)
  PROVE  EntryOf(obj', Hidden', prop', val', m) = EntryOf(obj, Hidden, prop, val, m)
BY FilesAre, FilesNext, EntrySame DEF Kept

LEMMA DirectorySame ==
  ASSUME BinderyInv, BinderyInv', \A m \in Name : Kept(m)
  PROVE  Directory' = Directory
<1>1. \A m \in Name :
        EntryOf(obj', Hidden', prop', val', m) = EntryOf(obj, Hidden, prop, val, m)
  BY KeptIs
<1>2. View(obj', Hidden', prop', val') = View(obj, Hidden, prop, val)
  BY <1>1, ViewSame
<1>3. QED
  BY <1>2, DirectoryIs

LEMMA DirectoryChanged ==
  ASSUME BinderyInv, BinderyInv', NEW n \in Name, \A m \in Name : m # n => Kept(m)
  PROVE  /\ Directory[n] = EntryOf(obj, Hidden, prop, val, n)
         /\ Directory' = [Directory EXCEPT ![n] = EntryOf(obj', Hidden', prop', val', n)]
<1>1. \A m \in Name : m # n =>
        EntryOf(obj', Hidden', prop', val', m) = EntryOf(obj, Hidden, prop, val, m)
  BY KeptIs
<1>2. Directory = View(obj, Hidden, prop, val) /\ Directory' = View(obj', Hidden', prop', val')
  BY DirectoryIs
<1>3. QED
  BY <1>1, <1>2, ViewChanged

LEMMA AddObjectShows ==
  ASSUME BinderyInv, BinderyInv', NEW n \in Name, AddObject(n)
  PROVE  /\ Directory[n] = None
         /\ Directory' = [Directory EXCEPT ![n] = [p \in PropName |-> None]]
<1> DEFINE r == [id |-> drawn', name |-> n, first |-> Nil]
<1>1. /\ job = None /\ job' = None /\ Named(n) = {} /\ obj' = Append(obj, r)
      /\ prop' = prop /\ val' = val /\ drawn' = drawn + 1
  BY DEF AddObject
<1>2. obj \in Objs /\ prop \in Props /\ val \in Vals /\ drawn \in Nat /\ OldProps(prop, drawn)
  BY InvTypes DEF BinderyInv, AllOld
<1>3. Hidden = {} /\ Hidden' = {}
  BY <1>1 DEF Hidden
<1>4. /\ DOMAIN obj' = 1..Len(obj)+1 /\ DOMAIN obj = 1..Len(obj) /\ Len(obj) \in Nat
      /\ \A j \in DOMAIN obj' : obj'[j] = IF j \in DOMAIN obj THEN obj[j] ELSE r
  BY <1>1, <1>2 DEF Objs
<1>5. r.id = drawn' /\ r.name = n
  OBVIOUS
<1> HIDE DEF r
<1>6. ASSUME NEW m \in Name, m # n PROVE Kept(m)
  <2>1. Alike(obj, Hidden, obj', Hidden', m)
    BY <1>3, <1>4, <1>5, <1>6 DEF Alike
  <2>2. ReadsAlike(obj, Hidden, prop, val, prop', val', m)
    BY <1>1 DEF ReadsAlike
  <2>3. QED
    BY <2>1, <2>2 DEF Kept
<1>7. EntryOf(obj, Hidden, prop, val, n) = None
  <2>1. \A i \in DOMAIN obj \ Hidden : obj[i].name # n
    BY <1>1 DEF Named
  <2>2. QED
    BY <2>1, EntryNone
<1>8. EntryOf(obj', Hidden', prop', val', n) = [p \in PropName |-> None]
  <2>1. \A p : FoundIn(prop', drawn', p) = {}
    <3>1. \A j \in DOMAIN prop : prop[j].owner \in Nat /\ prop[j].owner <= drawn
      BY <1>2, FilesType DEF Props, OldProps
    <3>2. QED
      BY <1>1, <1>2, <3>1 DEF FoundIn
  <2>2. \A p : ReadOf(prop', val', drawn', p) = None
    BY <2>1 DEF ReadOf
  <2>3. PICK k \in DOMAIN obj' \ Hidden' : obj'[k].name = n /\ obj'[k].id = drawn'
    <3>1. Len(obj)+1 \in DOMAIN obj' /\ obj'[Len(obj)+1] = r
      BY <1>4
    <3>2. QED
      BY <1>3, <1>5, <3>1
  <2>a. obj' \in Objs /\ IsAt(obj', Hidden', n, k)
    BY <2>3, FilesNext DEF IsAt
  <2>4. EntryOf(obj', Hidden', prop', val', n)
          = [p \in PropName |-> ReadOf(prop', val', obj'[k].id, p)]
    BY <2>a, EntryOne
  <2>5. QED
    BY <2>2, <2>3, <2>4
<1>9. /\ Directory[n] = EntryOf(obj, Hidden, prop, val, n)
      /\ Directory' = [Directory EXCEPT ![n] = EntryOf(obj', Hidden', prop', val', n)]
  BY <1>6, DirectoryChanged
<1>10. QED
  BY <1>7, <1>8, <1>9

LEMMA DeleteObjHides ==
  ASSUME BinderyInv, ~harmed, BinderyInv', NEW n \in Name, Named(n) # {}, DeleteObj(n)
  PROVE  /\ Directory[n] # None
         /\ Directory' = [Directory EXCEPT ![n] = None]
<1> DEFINE i == RecordOf(n)
<1>1. /\ job = None /\ job' = [pos |-> i, next |-> obj[i].first]
      /\ obj' = obj /\ prop' = prop /\ val' = val
  BY DEF DeleteObj
<1>2. i \in DOMAIN obj /\ Named(n) = {i} /\ obj[i].name = n
  <2>1. ObjsOnce(obj, DOMAIN obj)
    BY <1>1 DEF BinderyInv, ObjectsOnce
  <2>2. QED
    BY <2>1, RecordFound DEF BinderyInv, AllNamed, IsFirst
<1>3. obj \in Objs /\ prop \in Props /\ val \in Vals /\ NumbersNames(obj)
  BY FilesAre
<1> HIDE DEF i
<1>4. Hidden = {} /\ Hidden' = {i}
  <2>1. job' # None
    <3>1. i \in Nat /\ obj[i] \in ObjectRecord
      BY <1>2, <1>3 DEF Objs
    <3>2. job' \in [pos : Nat, next : Link]
      BY <1>1, <3>1 DEF ObjectRecord
    <3>3. QED
      BY <3>2, BinderyAssumption
  <2>2. QED
    BY <1>1, <2>1 DEF Hidden
<1>5. ASSUME NEW m \in Name, m # n PROVE Kept(m)
  <2>1. Alike(obj, Hidden, obj', Hidden', m)
    BY <1>1, <1>2, <1>4, <1>5 DEF Alike
  <2>2. ReadsAlike(obj, Hidden, prop, val, prop', val', m)
    BY <1>1 DEF ReadsAlike
  <2>3. QED
    BY <2>1, <2>2 DEF Kept
<1>6. EntryOf(obj, Hidden, prop, val, n) # None
  <2>a. IsAt(obj, Hidden, n, i)
    BY <1>2, <1>3, <1>4 DEF IsAt
  <2>1. EntryOf(obj, Hidden, prop, val, n) = [p \in PropName |-> ReadOf(prop, val, obj[i].id, p)]
    BY <1>3, <2>a, EntryOne
  <2>2. [p \in PropName |-> ReadOf(prop, val, obj[i].id, p)] \in [PropName -> Data \cup {None}]
    BY <1>3, ReadType
  <2>3. QED
    BY <2>1, <2>2, BinderyAssumption
<1>7. EntryOf(obj', Hidden', prop', val', n) = None
  <2>1. \A j \in DOMAIN obj' \ Hidden' : obj'[j].name # n
    BY <1>1, <1>2, <1>4 DEF Named
  <2>2. QED
    BY <2>1, EntryNone
<1>8. /\ Directory[n] = EntryOf(obj, Hidden, prop, val, n)
      /\ Directory' = [Directory EXCEPT ![n] = EntryOf(obj', Hidden', prop', val', n)]
  BY <1>5, DirectoryChanged
<1>9. QED
  BY <1>6, <1>7, <1>8

\* The record that is overwritten was not to be found any more.
LEMMA EndDeleteShows ==
  ASSUME BinderyInv, BinderyInv', EndDelete
  PROVE  Directory' = Directory
<1> DEFINE i == job.pos
           from(j) == IF j = i THEN Len(obj) ELSE j
           to(j) == IF j = Len(obj) THEN i ELSE j
<1>1. job # None /\ job' = None /\ obj' = MovedTo(obj, i) /\ prop' = prop /\ val' = val
  BY DEF EndDelete, RemovedAt, MovedTo
<1>2. obj \in Objs /\ i \in DOMAIN obj
  BY <1>1, InvTypes DEF BinderyInv, JobReady
<1>3. Hidden = {i} /\ Hidden' = {}
  BY <1>1 DEF Hidden
<1>4. /\ DOMAIN obj' = 1..Len(obj)-1 /\ DOMAIN obj = 1..Len(obj) /\ Len(obj) \in Nat
      /\ \A j \in DOMAIN obj' : obj'[j] = obj[from(j)]
  <2> HIDE DEF i
  <2>1. /\ DOMAIN obj' = 1..Len(obj)-1
        /\ \A j \in 1..Len(obj)-1 : obj'[j] = IF j = i THEN obj[Len(obj)] ELSE obj[j]
    BY <1>1, <1>2, MovedIs DEF Objs
  <2>2. QED
    BY <1>2, <2>1 DEF Objs
<1>5. /\ \A j \in DOMAIN obj' : from(j) \in DOMAIN obj \ {i}
      /\ \A j \in DOMAIN obj \ {i} : to(j) \in DOMAIN obj' /\ from(to(j)) = j
  BY <1>2, <1>4
<1> HIDE DEF i, from, to
<1>6. ASSUME NEW m \in Name PROVE Kept(m)
  <2>1. Alike(obj, Hidden, obj', Hidden', m)
    BY <1>3, <1>4, <1>5 DEF Alike
  <2>2. ReadsAlike(obj, Hidden, prop, val, prop', val', m)
    BY <1>1 DEF ReadsAlike
  <2>3. QED
    BY <2>1, <2>2 DEF Kept
<1>7. QED
  BY <1>6, DirectorySame

\* The property that is cut off, and its value, were of the object that is deleted.
LEMMA DeletePropShows ==
  ASSUME BinderyInv, ~harmed, BinderyInv', DeleteProp
  PROVE  Directory' = Directory
<1> DEFINE i == job.pos
           r == prop[Len(prop)]
<1>1. PICK s \in ObjectRecord : DeletesLast(i, r, s)
  BY DeletesTheLast
<1>2. /\ i \in DOMAIN obj /\ prop # <<>> /\ val # <<>> /\ ObjsOnce(obj, DOMAIN obj)
      /\ r.owner = obj[i].id /\ WithId(val, r.value) = {Len(val)}
      /\ obj' = [obj EXCEPT ![i] = s] /\ prop' = Front(prop) /\ val' = Front(val)
      /\ job # None /\ job' = [pos |-> i, next |-> Nil]
  BY <1>1 DEF DeletesLast
<1>3. obj \in Objs /\ prop \in Props /\ val \in Vals /\ Sound(obj, prop)
  BY InvTypes DEF BinderyInv, AllSound
<1>4. /\ DOMAIN prop = 1..Len(prop) /\ Len(prop) \in Nat /\ DOMAIN prop' = 1..Len(prop)-1
      /\ \A j \in DOMAIN prop' : prop'[j] = prop[j]
  BY <1>2, <1>3, FrontOf DEF Props
<1>5. /\ DOMAIN val = 1..Len(val) /\ Len(val) \in Nat /\ DOMAIN val' = 1..Len(val)-1
      /\ \A j \in DOMAIN val' : val'[j] = val[j]
  BY <1>2, <1>3, FrontOf DEF Vals
<1>6. DOMAIN obj' = DOMAIN obj /\ \A j \in DOMAIN obj : j # i => obj'[j] = obj[j]
  BY <1>2, <1>3 DEF Objs
<1>7. Hidden = {i} /\ Hidden' = {i}
  <2>1. job' \in [pos : Nat, next : Link]
    BY <1>2, <1>3 DEF Objs, Link
  <2>2. job' # None
    BY <2>1, BinderyAssumption
  <2>3. QED
    BY <1>2, <2>2 DEF Hidden
<1>8. r = prop[Len(prop)] /\ Len(prop) \in DOMAIN prop
  BY <1>2, <1>3, <1>4 DEF Props
<1> HIDE DEF i, r
<1>9. ASSUME NEW k \in DOMAIN obj \ Hidden, NEW p \in PropName
      PROVE  ReadOf(prop', val', obj[k].id, p) = ReadOf(prop, val, obj[k].id, p)
  <2>1. obj[k].id # obj[i].id
    BY <1>2, <1>7 DEF ObjsOnce
  <2>2. FoundIn(prop', obj[k].id, p) = FoundIn(prop, obj[k].id, p)
    BY <1>2, <1>4, <1>8, <2>1 DEF FoundIn
  <2>3. ASSUME NEW j \in FoundIn(prop, obj[k].id, p)
        PROVE  /\ prop'[j].value = prop[j].value
               /\ WithId(val', prop[j].value) = WithId(val, prop[j].value)
               /\ \A x \in WithId(val, prop[j].value) : val'[x].data = val[x].data
    <3>1. j \in DOMAIN prop /\ j # Len(prop) /\ j \in DOMAIN prop'
      BY <1>2, <1>4, <1>8, <2>1 DEF FoundIn
    <3>2. prop[j].value # r.value
      BY <1>3, <1>8, <3>1 DEF Sound, ValuesOnce
    <3>3. Len(val) \notin WithId(val, prop[j].value)
      BY <1>2, <3>2 DEF WithId
    <3>4. WithId(val', prop[j].value) = WithId(val, prop[j].value)
      BY <1>5, <3>3 DEF WithId
    <3>5. \A x \in WithId(val', prop[j].value) : val'[x] = val[x]
      BY <1>5 DEF WithId
    <3>6. QED
      BY <1>4, <3>1, <3>4, <3>5
  <2>4. SameRead(prop, val, prop', val', obj[k].id, p)
    BY <2>2, <2>3 DEF SameRead
  <2>5. QED
    BY <1>3, <2>4, ReadSame
<1>10. ASSUME NEW m \in Name PROVE Kept(m)
  <2>1. Alike(obj, Hidden, obj', Hidden', m)
    BY <1>6, <1>7 DEF Alike
  <2>2. ReadsAlike(obj, Hidden, prop, val, prop', val', m)
    BY <1>9 DEF ReadsAlike
  <2>3. QED
    BY <2>1, <2>2 DEF Kept
<1>11. QED
  BY <1>10, DirectorySame

LEMMA AddPropIs ==
  ASSUME BinderyInv, NEW n \in Name, NEW p \in PropName, AddProp(n, p)
  PROVE  \E i, r, f :
           /\ AddStarted(n, p, i, r, f)
           /\ DOMAIN obj' = DOMAIN obj
           /\ \A j \in DOMAIN obj : obj'[j].id = obj[j].id /\ obj'[j].name = obj[j].name
           /\ DOMAIN prop' = DOMAIN f
           /\ \A j \in DOMAIN f : /\ prop'[j].owner = f[j].owner /\ prop'[j].name = f[j].name
                                  /\ prop'[j].value = f[j].value
<1> DEFINE i == RecordOf(n)
           r == NewProperty(obj[i].id, p)
           f == Append(prop, r)
<1>1. AddPropStarts(n, p)
  BY DEF AddProp
<1>2. \/ obj[i].first = Nil /\ obj' = [obj EXCEPT ![i].first = drawn + 2] /\ prop' = f
      \/ obj[i].first # Nil /\ obj' = obj /\ prop' = Linked(f, obj[i].first)
  BY DEF AddProp
<1>0. i = RecordOf(n) /\ r = NewProperty(obj[i].id, p) /\ f = Append(prop, r)
  OBVIOUS
<1> HIDE DEF i, r, f
<1>3. AddStarted(n, p, i, r, f)
  BY <1>0, <1>1, AddStarts
<1>4. obj \in Objs /\ prop \in Props
  BY InvTypes DEF BinderyInv
<1>5. CASE obj[i].first = Nil
  <2> DEFINE x == [obj[i] EXCEPT !.first = drawn + 2]
  <2>1. obj' = [obj EXCEPT ![i].first = drawn + 2] /\ prop' = f
    BY <1>2, <1>5
  <2>2. /\ i \in DOMAIN obj /\ drawn + 2 \in Link
    BY <1>3 DEF AddStarted, NotLinked
  <2>3. x = [obj[i] EXCEPT !.first = drawn + 2]
    OBVIOUS
  <2> HIDE DEF x
  <2>4. NewFirst(obj, obj', i, drawn + 2, x)
    BY <1>4, <2>1, <2>2, <2>3, SameObjects
  <2>5. QED
    BY <1>3, <2>1, <2>4 DEF NewFirst
<1>6. CASE obj[i].first # Nil
  <2>1. obj' = obj /\ prop' = Linked(f, obj[i].first)
    BY <1>2, <1>6
  <2>2. /\ f \in Props /\ Sound(obj, f) /\ NotLinked(obj, f) /\ i \in DOMAIN obj
        /\ f # <<>> /\ f[Len(f)].owner = obj[i].id
    BY <1>3 DEF AddStarted
  <2>3. PICK at \in DOMAIN f : f[at].owner = f[Len(f)].owner /\ LinkedAt(f, at, prop')
    BY <1>4, <2>1, <2>2, LinkPlace
  <2>4. /\ DOMAIN prop' = DOMAIN f
        /\ \A j \in DOMAIN f : /\ prop'[j].owner = f[j].owner /\ prop'[j].name = f[j].name
                               /\ prop'[j].value = f[j].value
    BY <1>4, <2>2, <2>3, PropLinked
  <2>5. QED
    BY <1>3, <2>1, <2>4
<1>7. QED
  BY <1>5, <1>6

LEMMA AddPropShows ==
  ASSUME BinderyInv, BinderyInv', NEW n \in Name, NEW p \in PropName, AddProp(n, p)
  PROVE  /\ Directory[n] # None /\ Directory[n][p] = None
         /\ Directory' = [Directory EXCEPT ![n] = [Directory[n] EXCEPT ![p] = Zero]]
<1>1. PICK i, r, f :
        /\ AddStarted(n, p, i, r, f)
        /\ DOMAIN obj' = DOMAIN obj
        /\ \A j \in DOMAIN obj : obj'[j].id = obj[j].id /\ obj'[j].name = obj[j].name
        /\ DOMAIN prop' = DOMAIN f
        /\ \A j \in DOMAIN f : /\ prop'[j].owner = f[j].owner /\ prop'[j].name = f[j].name
                               /\ prop'[j].value = f[j].value
  BY AddPropIs
<1>2. /\ job = None /\ job' = None /\ i = RecordOf(n) /\ i \in DOMAIN obj /\ obj[i].name = n
      /\ r.value = drawn + 1 /\ r.owner = obj[i].id /\ r.name = p
      /\ DOMAIN prop = 1..Len(prop) /\ DOMAIN f = 1..Len(f) /\ Len(prop) \in Nat
      /\ Len(f) = Len(prop) + 1
      /\ \A j \in DOMAIN f : f[j] = IF j \in DOMAIN prop THEN prop[j] ELSE r
      /\ drawn + 2 \in 0..MaxDrawn
  BY <1>1 DEF AddStarted
<1>3. val' = Append(val, NewValue) /\ Addable(obj[RecordOf(n)].id, p)
  BY DEF AddProp, AddPropStarts
<1>4. /\ obj \in Objs /\ prop \in Props /\ val \in Vals /\ NumbersNames(obj)
      /\ obj' \in Objs /\ prop' \in Props /\ val' \in Vals /\ NumbersNames(obj')
  BY FilesAre, FilesNext
<1>5. /\ NewValue.id = drawn + 1 /\ NewValue.data = Zero
      /\ DOMAIN val' = 1..Len(val)+1 /\ DOMAIN val = 1..Len(val) /\ Len(val) \in Nat
      /\ \A j \in 1..Len(val)+1 : val'[j] = IF j \in DOMAIN val THEN val[j] ELSE NewValue
  BY <1>2, <1>3, NewValueIs DEF NewValue
<1>6. Hidden = {} /\ Hidden' = {}
  BY <1>2 DEF Hidden
<1>7. FoundIn(prop, obj[i].id, p) = {} /\ obj[i].name = n
  BY <1>2, <1>3 DEF Addable, PropsOf, FoundIn
<1>8. \A j \in DOMAIN prop : prop[j].value # drawn + 1
  <2>1. \A j \in DOMAIN prop : prop[j].value \in Nat /\ prop[j].value <= drawn
    BY <1>4, FilesType DEF BinderyInv, AllOld, OldProps, Props
  <2>2. QED
    BY <2>1, InvTypes DEF BinderyInv
<1>9. /\ \A j \in DOMAIN prop' : /\ prop'[j].owner = f[j].owner /\ prop'[j].name = f[j].name
                                 /\ prop'[j].value = f[j].value
      /\ DOMAIN prop' = 1..Len(prop)+1
  BY <1>1, <1>2
<1>10. ASSUME NEW id, NEW q, id # obj[i].id \/ q # p
       PROVE  ReadOf(prop', val', id, q) = ReadOf(prop, val, id, q)
  <2>1. FoundIn(prop', id, q) = FoundIn(prop, id, q)
    BY <1>2, <1>9, <1>10 DEF FoundIn
  <2>2. ASSUME NEW j \in FoundIn(prop, id, q)
        PROVE  /\ prop'[j].value = prop[j].value
               /\ WithId(val', prop[j].value) = WithId(val, prop[j].value)
               /\ \A x \in WithId(val, prop[j].value) : val'[x].data = val[x].data
    <3>1. j \in DOMAIN prop /\ prop'[j].value = prop[j].value /\ prop[j].value # drawn + 1
      BY <1>2, <1>8, <1>9 DEF FoundIn
    <3>2. WithId(val', prop[j].value) = WithId(val, prop[j].value)
      BY <1>5, <3>1 DEF WithId
    <3>3. \A x \in WithId(val, prop[j].value) : val'[x] = val[x]
      BY <1>5 DEF WithId
    <3>4. QED
      BY <3>1, <3>2, <3>3
  <2>3. SameRead(prop, val, prop', val', id, q)
    BY <2>1, <2>2 DEF SameRead
  <2>4. QED
    BY <1>4, <2>3, ReadSame
<1>11. ReadOf(prop', val', obj[i].id, p) = Zero
  <2> DEFINE k == Len(prop) + 1
             x == Len(val) + 1
  <2>1. /\ k \in DOMAIN prop' /\ prop'[k].owner = obj[i].id /\ prop'[k].name = p
        /\ prop'[k].value = drawn + 1
    BY <1>2, <1>9
  <2>2. FoundIn(prop', obj[i].id, p) = {k}
    BY <1>2, <1>7, <1>9, <2>1 DEF FoundIn
  <2>3. \A j \in DOMAIN val : val[j].id # drawn + 1
    <3>1. \A j \in DOMAIN val : val[j].id \in Nat /\ val[j].id <= drawn
      BY <1>4, FilesType DEF BinderyInv, AllOld, OldVals, Vals
    <3>2. QED
      BY <3>1, InvTypes DEF BinderyInv
  <2>4. x \in DOMAIN val' /\ val'[x].id = drawn + 1 /\ val'[x].data = Zero
    BY <1>5
  <2>5. WithId(val', drawn + 1) = {x}
    BY <1>5, <2>3, <2>4 DEF WithId
  <2>6. Least({x}) = x
    BY <1>5, LeastOfOne
  <2> HIDE DEF k, x
  <2>7. FoundAt(prop', val', obj[i].id, p, k, x)
    BY <2>1, <2>2, <2>5, <2>6 DEF FoundAt
  <2>8. ReadOf(prop', val', obj[i].id, p) = val'[x].data
    BY <1>4, <2>7, ReadFound
  <2>9. QED
    BY <2>4, <2>8
<1>12. ASSUME NEW m \in Name, m # n PROVE Kept(m)
  <2>1. Alike(obj, Hidden, obj', Hidden', m)
    BY <1>1, <1>6 DEF Alike
  <2>2. \A k \in DOMAIN obj : obj[k].name = m => obj[k].id # obj[i].id
    BY <1>2, <1>4, <1>12 DEF NumbersNames
  <2>3. ReadsAlike(obj, Hidden, prop, val, prop', val', m)
    BY <1>10, <2>2 DEF ReadsAlike
  <2>4. QED
    BY <2>1, <2>3 DEF Kept
<1> DEFINE e == [q \in PropName |-> ReadOf(prop, val, obj[i].id, q)]
<1>13. EntryOf(obj, Hidden, prop, val, n) = e
  <2>1. i \in DOMAIN obj \ Hidden /\ obj[i].name = n
    BY <1>2, <1>6, <1>7
  <2>2. IsAt(obj, Hidden, n, i)
    BY <1>4, <2>1 DEF IsAt
  <2>3. QED
    BY <1>4, <2>2, EntryOne
<1>14. EntryOf(obj', Hidden', prop', val', n) = [e EXCEPT ![p] = Zero]
  <2>1. i \in DOMAIN obj' \ Hidden' /\ obj'[i].name = n /\ obj'[i].id = obj[i].id
    BY <1>1, <1>2, <1>6, <1>7
  <2>a. IsAt(obj', Hidden', n, i)
    BY <1>4, <2>1 DEF IsAt
  <2>2. EntryOf(obj', Hidden', prop', val', n) = [q \in PropName |-> ReadOf(prop', val', obj'[i].id, q)]
    BY <1>4, <2>a, EntryOne
  <2>3. \A q \in PropName : ReadOf(prop', val', obj'[i].id, q) = IF q = p THEN Zero ELSE e[q]
    BY <1>10, <1>11, <2>1
  <2>4. QED
    BY <2>2, <2>3
<1>15. e # None /\ e[p] = None
  <2>1. e \in [PropName -> Data \cup {None}]
    BY <1>4, ReadType
  <2>2. e[p] = None
    BY <1>7 DEF ReadOf
  <2>3. QED
    BY <2>1, <2>2, BinderyAssumption
<1>16. /\ Directory[n] = EntryOf(obj, Hidden, prop, val, n)
       /\ Directory' = [Directory EXCEPT ![n] = EntryOf(obj', Hidden', prop', val', n)]
  BY <1>12, DirectoryChanged
<1> HIDE DEF e
<1>17. QED
  BY <1>13, <1>14, <1>15, <1>16

\* Every property has its own value record, and every object its own properties.
LEMMA WritePropShows ==
  ASSUME BinderyInv, BinderyInv', NEW n \in Name, NEW p \in PropName, NEW d \in Data,
         WriteProp(n, p, d)
  PROVE  /\ Directory[n] # None /\ Directory[n][p] # None
         /\ Directory' = [Directory EXCEPT ![n] = [Directory[n] EXCEPT ![p] = d]]
<1> DEFINE i == RecordOf(n)
<1>1. job = None /\ Named(n) # {} /\ obj' = obj /\ prop' = prop /\ job' = job
  BY DEF WriteProp
<1>2. /\ obj \in Objs /\ prop \in Props /\ val \in Vals /\ NumbersNames(obj)
      /\ Sound(obj, prop)
  BY <1>1, FilesAre DEF BinderyInv, AllSound
<1>3. i \in DOMAIN obj /\ obj[i].name = n
  BY <1>1, <1>2, RecordFound DEF BinderyInv, IsFirst
<1>4. PICK k \in DOMAIN prop, v \in DOMAIN val :
        /\ prop[k].owner = obj[i].id /\ prop[k].name = p
        /\ v = Least(ValueOf(prop[k])) /\ val[v].id = prop[k].value
        /\ val' = Written(v, d)
  BY WrittenWhere
<1> HIDE DEF i
<1>5. /\ val' \in Vals /\ DOMAIN val' = DOMAIN val
      /\ \A j \in DOMAIN val : /\ val'[j].id = val[j].id
                               /\ val'[j].data = IF j = v THEN d ELSE val[j].data
  BY <1>2, <1>4, WrittenIs
<1>6. Hidden = {} /\ Hidden' = {}
  BY <1>1 DEF Hidden
<1>7. FoundIn(prop, obj[i].id, p) = {k}
  BY <1>2, <1>4 DEF FoundIn, Sound, NamesOnce
<1>8. \A x : WithId(val', x) = WithId(val, x)
  BY <1>5 DEF WithId
<1>9. ASSUME NEW id, NEW q, id # obj[i].id \/ q # p
      PROVE  ReadOf(prop', val', id, q) = ReadOf(prop, val, id, q)
  <2>1. ASSUME NEW j \in FoundIn(prop, id, q), NEW x \in WithId(val, prop[j].value)
        PROVE  val'[x].data = val[x].data
    <3>1. j \in DOMAIN prop /\ j # k
      BY <1>4, <1>9 DEF FoundIn
    <3>2. prop[j].value # prop[k].value
      BY <1>2, <3>1 DEF Sound, ValuesOnce
    <3>3. x \in DOMAIN val /\ x # v
      BY <1>4, <3>2 DEF WithId
    <3>4. QED
      BY <1>5, <3>3
  <2>2. SameRead(prop, val, prop', val', id, q)
    BY <1>1, <1>8, <2>1 DEF SameRead
  <2>3. QED
    BY <1>2, <2>2, ReadSame
<1>10. ReadOf(prop, val, obj[i].id, p) = val[v].data /\ ReadOf(prop', val', obj[i].id, p) = d
  <2>1. v = Least(WithId(val, prop[k].value)) /\ v = Least(WithId(val', prop[k].value))
    BY <1>4, <1>8 DEF ValueOf
  <2>2. v \in WithId(val, prop[k].value) /\ WithId(val', prop[k].value) # {}
    BY <1>4, <1>8 DEF WithId
  <2>3. ReadOf(prop, val, obj[i].id, p) = val[v].data
    <3>1. FoundAt(prop, val, obj[i].id, p, k, v)
      BY <1>7, <2>1, <2>2 DEF FoundAt
    <3>2. QED
      BY <1>2, <3>1, ReadFound
  <2>4. ReadOf(prop, val', obj[i].id, p) = val'[v].data
    <3>1. FoundAt(prop, val', obj[i].id, p, k, v)
      BY <1>7, <2>1, <2>2 DEF FoundAt
    <3>2. QED
      BY <1>2, <3>1, ReadFound
  <2>5. QED
    BY <1>1, <1>4, <1>5, <2>3, <2>4
<1>11. ASSUME NEW m \in Name, m # n PROVE Kept(m)
  <2>1. Alike(obj, Hidden, obj', Hidden', m)
    BY <1>1, <1>6 DEF Alike
  <2>2. \A j \in DOMAIN obj : obj[j].name = m => obj[j].id # obj[i].id
    BY <1>2, <1>3, <1>11 DEF NumbersNames
  <2>3. ReadsAlike(obj, Hidden, prop, val, prop', val', m)
    BY <1>9, <2>2 DEF ReadsAlike
  <2>4. QED
    BY <2>1, <2>3 DEF Kept
<1> DEFINE e == [q \in PropName |-> ReadOf(prop, val, obj[i].id, q)]
<1>12. EntryOf(obj, Hidden, prop, val, n) = e
  <2>1. IsAt(obj, Hidden, n, i)
    BY <1>2, <1>3, <1>6 DEF IsAt
  <2>2. QED
    BY <1>2, <2>1, EntryOne
<1>13. EntryOf(obj', Hidden', prop', val', n) = [e EXCEPT ![p] = d]
  <2>1. i \in DOMAIN obj' \ Hidden' /\ obj'[i].name = n /\ obj'[i].id = obj[i].id
    BY <1>1, <1>3, <1>6
  <2>a. obj' \in Objs /\ IsAt(obj', Hidden', n, i)
    BY <2>1, FilesNext DEF IsAt
  <2>2. EntryOf(obj', Hidden', prop', val', n) = [q \in PropName |-> ReadOf(prop', val', obj'[i].id, q)]
    BY <2>a, EntryOne
  <2>3. \A q \in PropName : ReadOf(prop', val', obj'[i].id, q) = IF q = p THEN d ELSE e[q]
    BY <1>9, <1>10, <2>1
  <2>4. QED
    BY <2>2, <2>3
<1>14. e # None /\ e[p] # None
  <2>1. e \in [PropName -> Data \cup {None}]
    BY <1>2, ReadType
  <2>2. e[p] = val[v].data
    BY <1>10
  <2>3. val[v].data \in Data
    <3>1. val[v] \in ValueRecord
      BY <1>2, <1>4 DEF Vals
    <3>2. QED
      BY <3>1 DEF ValueRecord
  <2>4. QED
    BY <2>1, <2>2, <2>3, BinderyAssumption
<1>15. /\ Directory[n] = EntryOf(obj, Hidden, prop, val, n)
       /\ Directory' = [Directory EXCEPT ![n] = EntryOf(obj', Hidden', prop', val', n)]
  BY <1>11, DirectoryChanged
<1> HIDE DEF e
<1>16. QED
  BY <1>12, <1>13, <1>14, <1>15

\* In a build that seeds random(), what a client writes to a property is what a read
\* by name finds, and no other entry changes, wherever deletions have moved the
\* records and whatever was lost when a write failed or the server was killed (bindio_write_prop).
THEOREM FilesWritesReadBack ==
  ASSUME Seeded
  PROVE  CrashSpec => WritesReadBack
<1>1. BinderyInv /\ BinderyInv' /\ [CrashNext]_vars =>
        [val' # val /\ UNCHANGED <<obj, prop>> =>
           \A n \in Name, p \in PropName, d \in Data :
             WriteProp(n, p, d) => Directory' = [Directory EXCEPT ![n][p] = d]]_vars
  BY WritePropShows
<1>2. QED
  BY <1>1, BinderyInvHolds, PTL DEF CrashSpec, WritesReadBack

\* Until the server is killed or a write fails, what clients find by name in the
\* three files is a map from objects to properties to values: each call of
\* binderyio.c changes the entry it names, or nothing, and a deletion takes its
\* object away at once and the others stay.
THEOREM FilesImplementObjects == CrashSpec => ImplementsObjects
<1>1. Init => Objects!Init
  <2> SUFFICES ASSUME Init PROVE Objects!Init
    OBVIOUS
  <2>1. \A m : EntryOf(obj, Hidden, prop, val, m) = None
    <3>1. \A m : \A i \in DOMAIN obj \ Hidden : obj[i].name # m
      BY DEF Init
    <3>2. QED
      BY <3>1, EntryNone
  <2>2. QED
    BY <2>1, DirectoryIs DEF View, Objects!Init
<1>2. WholeInv /\ WholeInv' /\ [CrashNext]_vars =>
        [~harmed' => Objects!Next \/ UNCHANGED Directory]_vars
  <2> SUFFICES ASSUME WholeInv, WholeInv', CrashNext, ~harmed'
               PROVE  Objects!Next \/ Directory' = Directory
    OBVIOUS
  <2>1. CarefulNext /\ ~harmed /\ BinderyInv /\ BinderyInv'
    BY DEF CrashNext, WholeInv
  <2>2. ASSUME NEW S \in SUBSET DOMAIN disk, Look(S) PROVE Directory' = Directory
    <3>1. obj' = obj /\ prop' = prop /\ val' = val /\ Hidden' = Hidden
      BY <2>2 DEF Look, Hidden
    <3>2. QED
      BY <3>1, DirectoryIs
  <2>3. ASSUME NEW n \in Name, AddObject(n) PROVE Objects!Next
    BY <2>1, <2>3, AddObjectShows DEF Objects!Next, Objects!AddObject, Objects!Absent, Objects!Put
  <2>4. ASSUME NEW n \in Name, NEW p \in PropName, AddProp(n, p) PROVE Objects!Next
    BY <2>1, <2>4, AddPropShows DEF Objects!Next, Objects!AddProperty, Objects!Absent, Objects!Put
  <2>5. ASSUME NEW n \in Name, NEW p \in PropName, NEW d \in Data, WriteProp(n, p, d)
        PROVE  Objects!Next
    BY <2>1, <2>5, WritePropShows DEF Objects!Next, Objects!WriteProperty, Objects!Absent, Objects!Put
  <2>6. ASSUME NEW n \in Name, Named(n) # {}, DeleteObj(n) PROVE Objects!Next
    BY <2>1, <2>6, DeleteObjHides DEF Objects!Next, Objects!DeleteObject, Objects!Absent, Objects!Put
  <2>7. CASE DeleteProp
    BY <2>1, <2>7, DeletePropShows
  <2>8. CASE EndDelete
    BY <2>1, <2>8, EndDeleteShows
  <2>9. CASE Growing
    BY <2>2, <2>3, <2>4, <2>5, <2>9 DEF Growing
  <2>10. QED
    BY <2>1, <2>6, <2>7, <2>8, <2>9 DEF CarefulNext
<1>3. QED
  BY <1>1, <1>2, WholeInvHolds, PTL DEF CrashSpec, ImplementsObjects

-----------------------------------------------------------------------------
(* Set properties *)

Size == IdLen * Entries

Multiples == {k \in Nat : \E q \in Nat : k = q * IdLen}

\* Where the entries begin.
Heads == {m \in Multiples : m < Size}

\* The numbers stand one after the other, or are blank.
Structured(d) ==
  d \in [1..Size -> Byte] /\ \A m \in Heads : Window(d, m) \in Id \cup {Zeroes}

LEMMA SizeIs ==
  /\ IdLen \in Nat /\ IdLen >= 1 /\ Entries \in Nat /\ Entries >= 1 /\ Size \in Nat
  /\ \A i \in Places : i \in Nat /\ i + IdLen <= Size
<1>1. IdLen \in Nat /\ IdLen >= 1 /\ Entries \in Nat /\ Entries >= 1
  BY SetsAssumption
<1>2. Size \in Nat
  BY <1>1 DEF Size
<1>3. Entries - 1 + IdLen <= Size
  <2>1. (IdLen - 1) * (Entries - 1) >= 0
    BY <1>1
  <2>2. (IdLen - 1) * (Entries - 1) = IdLen * Entries - IdLen - Entries + 1
    BY <1>1
  <2>3. QED
    BY <1>1, <2>1, <2>2 DEF Size
<1>4. QED
  BY <1>1, <1>2, <1>3 DEF Places

LEMMA NumbersAre ==
  /\ 0 \in Byte /\ Zeroes \in [1..IdLen -> Byte]
  /\ \A id \in Id : id \in [1..IdLen -> Byte] /\ id # Zeroes
BY SetsAssumption DEF Zeroes

LEMMA MultiplesAre ==
  /\ 0 \in Multiples
  /\ \A m \in Multiples : m \in Nat /\ m + IdLen \in Multiples
  /\ \A m, n \in Multiples : m < n => m + IdLen <= n
  /\ \A i \in Nat : \E m \in Multiples : m <= i /\ i < m + IdLen
<1>1. IdLen \in Nat /\ IdLen >= 1
  BY SizeIs
<1>2. 0 \in Multiples
  BY <1>1 DEF Multiples
<1>3. ASSUME NEW m \in Multiples PROVE m \in Nat /\ m + IdLen \in Multiples
  <2>1. PICK q \in Nat : m = q * IdLen
    BY DEF Multiples
  <2>2. m + IdLen = (q + 1) * IdLen /\ q + 1 \in Nat
    BY <1>1, <2>1
  <2>3. QED
    BY <1>1, <2>1, <2>2 DEF Multiples
<1>4. ASSUME NEW m \in Multiples, NEW n \in Multiples, m < n PROVE m + IdLen <= n
  <2>1. PICK q \in Nat, r \in Nat : m = q * IdLen /\ n = r * IdLen
    BY DEF Multiples
  <2>2. q < r
    <3>1. CASE r <= q
      <4>1. PICK x \in Nat : q = r + x
        <5>1. q - r \in Nat /\ q = r + (q - r)
          BY <3>1
        <5>2. QED
          BY <5>1
      <4>2. q * IdLen = r * IdLen + x * IdLen /\ x * IdLen \in Nat /\ r * IdLen \in Nat
        BY <1>1, <4>1
      <4>3. QED
        BY <1>4, <2>1, <4>2
    <3>2. QED
      BY <3>1
  <2>3. PICK x \in Nat : r = q + 1 + x
    <3>1. r - q - 1 \in Nat /\ r = q + 1 + (r - q - 1)
      BY <2>2
    <3>2. QED
      BY <3>1
  <2>4. r * IdLen = q * IdLen + IdLen + x * IdLen /\ x * IdLen \in Nat /\ q * IdLen \in Nat
    BY <1>1, <2>3
  <2>5. QED
    BY <1>1, <2>1, <2>4
<1>5. ASSUME NEW i \in Nat PROVE \E m \in Multiples : m <= i /\ i < m + IdLen
  <2> DEFINE T == {j \in Nat : \E m \in Multiples : m <= j /\ j < m + IdLen}
  <2>1. 0 \in T
    BY <1>1, <1>2
  <2>2. ASSUME NEW j \in 1..i, j - 1 \in T PROVE j \in T
    <3>1. PICK m \in Multiples : m <= j - 1 /\ j - 1 < m + IdLen
      BY <2>2
    <3>2. m \in Nat /\ m + IdLen \in Multiples
      BY <1>3
    <3>3. CASE j < m + IdLen
      BY <3>1, <3>2, <3>3
    <3>4. CASE j = m + IdLen
      BY <1>1, <3>2, <3>4
    <3>5. QED
      BY <1>1, <3>1, <3>2, <3>3, <3>4
  <2> HIDE DEF T
  <2>3. 0..i \subseteq T
    BY <2>1, <2>2, Climb
  <2>4. i \in T
    BY <2>3
  <2>5. QED
    BY <2>4 DEF T
<1>6. QED
  BY <1>2, <1>3, <1>4, <1>5


LEMMA HeadsAre ==
  /\ \A m \in Heads : m \in Nat /\ m + IdLen <= Size
  /\ \A m, n \in Heads : m < n => m + IdLen <= n
  /\ \A i \in Places : \E m \in Heads : m <= i /\ i < m + IdLen /\ (i # m => m + IdLen \in Heads)
<1>1. IdLen \in Nat /\ IdLen >= 1 /\ Size \in Multiples /\ Size \in Nat
  <2>1. Size = Entries * IdLen
    BY SizeIs DEF Size
  <2>2. QED
    BY <2>1, SizeIs DEF Multiples
<1>2. \A m \in Heads : m \in Nat /\ m + IdLen <= Size
  BY <1>1, MultiplesAre DEF Heads
<1>3. \A m, n \in Heads : m < n => m + IdLen <= n
  BY MultiplesAre DEF Heads
<1>4. ASSUME NEW i \in Places
      PROVE  \E m \in Heads : m <= i /\ i < m + IdLen /\ (i # m => m + IdLen \in Heads)
  <2>1. i \in Nat /\ i + IdLen <= Size
    BY SizeIs
  <2>2. PICK m \in Multiples : m <= i /\ i < m + IdLen
    BY <2>1, MultiplesAre
  <2>3. m \in Nat /\ m + IdLen \in Multiples
    BY MultiplesAre
  <2>4. m \in Heads /\ (i # m => m + IdLen \in Heads)
    BY <1>1, <2>1, <2>2, <2>3 DEF Heads
  <2>5. QED
    BY <2>2, <2>4
<1>5. QED
  BY <1>2, <1>3, <1>4

\* A window at the beginning of an entry holds none of another entry.
LEMMA WindowPut ==
  ASSUME NEW d \in [1..Size -> Byte], NEW m \in Heads, NEW x \in [1..IdLen -> Byte]
  PROVE  /\ Put(d, m, x) \in [1..Size -> Byte]
         /\ \A n \in Heads : Window(Put(d, m, x), n) = IF n = m THEN x ELSE Window(d, n)
<1>1. IdLen \in Nat /\ IdLen >= 1 /\ Size \in Nat /\ m \in Nat /\ m + IdLen <= Size
  BY SizeIs, HeadsAre
<1> DEFINE e == Put(d, m, x)
<1>2. e = [k \in 1..Size |-> IF k \in m+1..m+IdLen THEN x[k - m] ELSE d[k]]
  BY DEF Put
<1>3. \A k \in 1..Size : k \in m+1..m+IdLen => k - m \in 1..IdLen
  BY <1>1
<1>4. e \in [1..Size -> Byte]
  BY <1>2, <1>3
<1>5. \A k \in 1..Size : e[k] = IF k \in m+1..m+IdLen THEN x[k - m] ELSE d[k]
  BY <1>2
<1> HIDE DEF e
<1>6. ASSUME NEW n \in Heads PROVE Window(e, n) = IF n = m THEN x ELSE Window(d, n)
  <2>1. n \in Nat /\ n + IdLen <= Size /\ (n < m => n + IdLen <= m) /\ (m < n => m + IdLen <= n)
    BY HeadsAre
  <2>2. \A k \in 1..IdLen : n + k \in 1..Size
    BY <1>1, <2>1
  <2>3. CASE n = m
    <3>1. \A k \in 1..IdLen : n + k \in m+1..m+IdLen /\ (n + k) - m = k
      BY <1>1, <2>3
    <3>2. \A k \in 1..IdLen : e[n + k] = x[k]
      BY <1>5, <2>2, <3>1
    <3>3. QED
      BY <2>3, <3>2 DEF Window
  <2>4. CASE n # m
    <3>1. \A k \in 1..IdLen : n + k \notin m+1..m+IdLen
      BY <1>1, <2>1, <2>4
    <3>2. \A k \in 1..IdLen : e[n + k] = d[n + k]
      BY <1>5, <2>2, <3>1
    <3>3. QED
      BY <2>4, <3>2 DEF Window
  <2>5. QED
    BY <2>3, <2>4
<1>7. QED
  BY <1>4, <1>6 DEF e

LEMMA PutStructured ==
  ASSUME NEW d, Structured(d), NEW m \in Heads, NEW x \in Id \cup {Zeroes}
  PROVE  /\ Structured(Put(d, m, x))
         /\ \A n \in Heads : Window(Put(d, m, x), n) = IF n = m THEN x ELSE Window(d, n)
<1>1. d \in [1..Size -> Byte] /\ x \in [1..IdLen -> Byte]
  BY NumbersAre DEF Structured
<1>2. /\ Put(d, m, x) \in [1..Size -> Byte]
      /\ \A n \in Heads : Window(Put(d, m, x), n) = IF n = m THEN x ELSE Window(d, n)
  BY <1>1, WindowPut
<1>3. QED
  BY <1>2 DEF Structured

\* What the loops read between the entries is no number, nor the first blank.
LEMMA ReadAcross ==
  ASSUME Apart, NEW d, Structured(d), NEW i \in Places, i \notin Heads
  PROVE  /\ Window(d, i) \notin Id
         /\ Window(d, i) = Zeroes => \E j \in 0..i-1 : Window(d, j) = Zeroes
<1>1. IdLen \in Nat /\ IdLen >= 1 /\ i \in Nat
  BY SizeIs
<1>2. PICK m \in Heads : m <= i /\ i < m + IdLen /\ m + IdLen \in Heads
  BY HeadsAre
<1>3. m \in Nat /\ m # i
  BY <1>2, HeadsAre
<1> DEFINE c == i - m
           a == Window(d, m)
           b == Window(d, m + IdLen)
<1>4. c \in 1..IdLen-1
  BY <1>1, <1>2, <1>3
<1>5. a \in Id \cup {Zeroes} /\ b \in Id \cup {Zeroes}
  BY <1>2 DEF Structured
<1>6. Window(d, i) = Across(a, b, c)
  <2>1. ASSUME NEW k \in 1..IdLen
        PROVE  d[i + k] = IF k <= IdLen - c THEN a[c + k] ELSE b[k - (IdLen - c)]
    <3>1. CASE k <= IdLen - c
      <4>1. c + k \in 1..IdLen /\ m + (c + k) = i + k
        BY <1>1, <1>3, <1>4, <3>1
      <4>2. a[c + k] = d[m + (c + k)]
        BY <4>1 DEF Window
      <4>3. QED
        BY <3>1, <4>1, <4>2
    <3>2. CASE ~(k <= IdLen - c)
      <4>1. k - (IdLen - c) \in 1..IdLen /\ (m + IdLen) + (k - (IdLen - c)) = i + k
        BY <1>1, <1>3, <1>4, <3>2
      <4>2. b[k - (IdLen - c)] = d[(m + IdLen) + (k - (IdLen - c))]
        BY <4>1 DEF Window
      <4>3. QED
        BY <3>2, <4>1, <4>2
    <3>3. QED
      BY <3>1, <3>2
  <2> HIDE DEF a, b, c
  <2>2. QED
    BY <2>1 DEF Window, Across
<1> HIDE DEF a, b, c
<1>7. Window(d, i) \notin Id
  BY <1>4, <1>5, <1>6 DEF Apart
<1>8. ASSUME Window(d, i) = Zeroes PROVE \E j \in 0..i-1 : Window(d, j) = Zeroes
  <2>1. IdLen - c \in 1..IdLen /\ c + (IdLen - c) = IdLen
    BY <1>1, <1>4
  <2>2. Across(a, b, c)[IdLen - c] = a[c + (IdLen - c)]
    BY <2>1 DEF Across
  <2>3. a[IdLen] = 0
    BY <1>6, <1>8, <2>1, <2>2 DEF Zeroes
  <2>4. a = Zeroes
    BY <1>5, <2>3 DEF Apart
  <2>5. m \in 0..i-1
    BY <1>1, <1>2, <1>3
  <2>6. QED
    BY <2>4, <2>5 DEF a
<1>9. QED
  BY <1>7, <1>8

LEMMA MembersAre ==
  ASSUME Apart, Structured(data)
  PROVE  Members = {id \in Id : \E m \in Heads \cap Places : Window(data, m) = id}
<1>1. ASSUME NEW id \in Id, NEW i \in Places, Window(data, i) = id PROVE i \in Heads
  BY <1>1, ReadAcross
<1>2. QED
  BY <1>1 DEF Members, IsObjInSet

LEMMA MembersNext ==
  ASSUME Apart, Structured(data')
  PROVE  Members' = {id \in Id : \E m \in Heads \cap Places : Window(data', m) = id}
<1>1. ASSUME NEW id \in Id, NEW i \in Places, Window(data', i) = id PROVE i \in Heads
  BY <1>1, ReadAcross
<1>2. QED
  BY <1>1 DEF Members, IsObjInSet

LEMMA AddIs ==
  ASSUME Apart, Structured(data), NEW id \in Id, AddObjToSet(id)
  PROVE  Structured(data') /\ Members' = Members \cup {id}
<1>1. PICK i \in Places : /\ Window(data, i) = Zeroes
                          /\ \A j \in 0..i-1 : Window(data, j) \notin {id, Zeroes}
                          /\ data' = Put(data, i, id)
  BY DEF AddObjToSet
<1>2. i \in Heads
  BY <1>1, ReadAcross
<1>3. /\ Structured(data')
      /\ \A m \in Heads : Window(data', m) = IF m = i THEN id ELSE Window(data, m)
  BY <1>1, <1>2, PutStructured
<1>4. Zeroes \notin Id
  BY NumbersAre
<1>5. ASSUME NEW jd \in Id
      PROVE  (\E m \in Heads \cap Places : Window(data', m) = jd)
               <=> (\E m \in Heads \cap Places : Window(data, m) = jd) \/ jd = id
  BY <1>1, <1>2, <1>3, <1>4
<1>6. Members' = Members \cup {id}
  <2>1. Members = {jd \in Id : \E m \in Heads \cap Places : Window(data, m) = jd}
    BY MembersAre
  <2>2. Members' = {jd \in Id : \E m \in Heads \cap Places : Window(data', m) = jd}
    BY <1>3, MembersNext
  <2>3. QED
    BY <1>5, <2>1, <2>2
<1>7. QED
  BY <1>3, <1>6

\* What a deletion of id leaves when its loop has done n windows.
Gone(d, id, n) == {m \in Heads : m < n /\ Window(d, m) = id}

Cut(d, id, n) ==
  [k \in 1..Size |-> IF \E m \in Gone(d, id, n) : k \in m+1..m+IdLen THEN 0 ELSE d[k]]

\* One step of the loop.
PassStep(e, id, i) == IF Window(e, i - 1) = id THEN Put(e, i - 1, Zeroes) ELSE e

LEMMA CutIs ==
  ASSUME NEW d, Structured(d), NEW id \in Id, NEW n \in Nat
  PROVE  /\ Structured(Cut(d, id, n))
         /\ \A m \in Heads : Window(Cut(d, id, n), m)
                               = IF m < n /\ Window(d, m) = id THEN Zeroes ELSE Window(d, m)
<1> DEFINE e == Cut(d, id, n)
<1>1. /\ IdLen \in Nat /\ IdLen >= 1 /\ Size \in Nat /\ 0 \in Byte
      /\ d \in [1..Size -> Byte] /\ \A m \in Heads : Window(d, m) \in Id \cup {Zeroes}
  BY SizeIs, NumbersAre DEF Structured
<1>2. e \in [1..Size -> Byte]
  BY <1>1 DEF Cut
<1>3. \A k \in 1..Size : e[k] = IF \E m \in Gone(d, id, n) : k \in m+1..m+IdLen THEN 0 ELSE d[k]
  BY DEF Cut
<1> HIDE DEF e
<1>4. ASSUME NEW m \in Heads
      PROVE  Window(e, m) = IF m < n /\ Window(d, m) = id THEN Zeroes ELSE Window(d, m)
  <2>1. m \in Nat /\ m + IdLen <= Size
    BY HeadsAre
  <2>2. ASSUME NEW k \in 1..IdLen, NEW x \in Heads, m + k \in x+1..x+IdLen PROVE x = m
    <3>1. x \in Nat /\ (x < m => x + IdLen <= m) /\ (m < x => m + IdLen <= x)
      BY HeadsAre
    <3>2. QED
      BY <1>1, <2>1, <2>2, <3>1
  <2>3. \A k \in 1..IdLen : m + k \in 1..Size /\ m + k \in m+1..m+IdLen
    BY <1>1, <2>1
  <2>4. CASE m \in Gone(d, id, n)
    <3>1. \A k \in 1..IdLen : e[m + k] = 0
      BY <1>3, <2>3, <2>4
    <3>2. QED
      BY <2>4, <3>1 DEF Window, Zeroes, Gone
  <2>5. CASE m \notin Gone(d, id, n)
    <3>1. \A k \in 1..IdLen : e[m + k] = d[m + k]
      BY <1>3, <2>2, <2>3, <2>5 DEF Gone
    <3>2. Window(e, m) = Window(d, m)
      BY <3>1 DEF Window
    <3>3. QED
      BY <2>5, <3>2 DEF Gone
  <2>6. QED
    BY <2>4, <2>5
<1>5. Structured(e)
  BY <1>1, <1>2, <1>4 DEF Structured
<1>6. QED
  BY <1>4, <1>5 DEF e

LEMMA CutStep ==
  ASSUME Apart, NEW d, Structured(d), NEW id \in Id, NEW n \in 1..Entries
  PROVE  PassStep(Cut(d, id, n - 1), id, n) = Cut(d, id, n)
<1> DEFINE e == Cut(d, id, n - 1)
           i == n - 1
<1>1. /\ IdLen \in Nat /\ IdLen >= 1 /\ i \in Places /\ i \in Nat /\ Size \in Nat
      /\ n \in Nat /\ n = i + 1
  BY SizeIs DEF Places
<1>2. /\ Structured(e)
      /\ \A m \in Heads : Window(e, m) = IF m < i /\ Window(d, m) = id THEN Zeroes ELSE Window(d, m)
  BY <1>1, CutIs
<1>3. /\ DOMAIN e = 1..Size
      /\ \A k \in 1..Size : e[k] = IF \E m \in Gone(d, id, i) : k \in m+1..m+IdLen THEN 0 ELSE d[k]
  BY DEF Cut
<1>4. PassStep(e, id, n) = IF Window(e, i) = id THEN Put(e, i, Zeroes) ELSE e
  BY DEF PassStep
<1> HIDE DEF e, i
<1>5. Window(e, i) = id <=> i \in Heads /\ Window(d, i) = id
  <2>1. Window(e, i) = id => i \in Heads
    BY <1>1, <1>2, ReadAcross
  <2>2. i \in Heads => Window(e, i) = Window(d, i)
    BY <1>1, <1>2
  <2>3. QED
    BY <2>1, <2>2
<1>6. Gone(d, id, n) = Gone(d, id, i) \cup (IF Window(e, i) = id THEN {i} ELSE {})
  <2>1. \A m \in Heads : m < n <=> m < i \/ m = i
    BY <1>1, HeadsAre
  <2>2. QED
    BY <1>5, <2>1 DEF Gone
<1>7. Cut(d, id, n) = [k \in 1..Size |-> IF \E m \in Gone(d, id, n) : k \in m+1..m+IdLen
                                         THEN 0 ELSE d[k]]
  BY DEF Cut
<1>8. CASE Window(e, i) = id
  <2>1. \A k \in i+1..i+IdLen : Zeroes[k - i] = 0
    <3>1. \A k \in i+1..i+IdLen : k - i \in 1..IdLen
      BY <1>1
    <3>2. QED
      BY <3>1 DEF Zeroes
  <2>2. ASSUME NEW k \in 1..Size
        PROVE  (IF k \in i+1..i+IdLen THEN Zeroes[k - i] ELSE e[k])
                 = IF \E m \in Gone(d, id, n) : k \in m+1..m+IdLen THEN 0 ELSE d[k]
    BY <1>3, <1>6, <1>8, <2>1
  <2>3. Put(e, i, Zeroes) = Cut(d, id, n)
    BY <1>3, <1>7, <2>2 DEF Put
  <2>4. QED
    BY <1>4, <1>8, <2>3 DEF e
<1>9. CASE Window(e, i) # id
  <2>1. Gone(d, id, n) = Gone(d, id, i)
    BY <1>6, <1>9
  <2>2. e = Cut(d, id, n)
    BY <2>1 DEF Cut, e, i
  <2>3. QED
    BY <1>4, <1>9, <2>2 DEF e
<1>10. QED
  BY <1>8, <1>9

\* Nothing is cut before the first step.
LEMMA CutNothing ==
  ASSUME NEW d, Structured(d), NEW id \in Id
  PROVE  Cut(d, id, 0) = d
<1>1. \A m \in Heads : m \in Nat /\ ~(m < 0)
  BY HeadsAre
<1>2. Gone(d, id, 0) = {}
  BY <1>1 DEF Gone
<1>3. QED
  BY <1>2 DEF Cut, Structured

LEMMA DeletedIs ==
  ASSUME Apart, NEW d, Structured(d), NEW id \in Id
  PROVE  Deleted(d, id) = Cut(d, id, Entries)
<1> DEFINE step(g, i) == IF i = 0 THEN d ELSE PassStep(g[i - 1], id, i)
           pass == CHOOSE g : g = [i \in 0..Entries |-> step(g, i)]
           h == [i \in 0..Entries |-> Cut(d, id, i)]
           T == {i \in Nat : pass[i] = Cut(d, id, i)}
<1>1. Deleted(d, id) = pass[Entries]
  BY DEF Deleted, PassStep
<1>2. Entries \in Nat
  BY SizeIs
<1>3. ASSUME NEW i \in 0..Entries PROVE h[i] = step(h, i)
  <2>1. CASE i = 0
    BY <2>1, CutNothing
  <2>2. CASE i # 0
    <3>1. i \in 1..Entries /\ i - 1 \in 0..Entries
      BY <1>2, <2>2
    <3>2. h[i - 1] = Cut(d, id, i - 1) /\ h[i] = Cut(d, id, i)
      BY <3>1
    <3>3. PassStep(Cut(d, id, i - 1), id, i) = Cut(d, id, i)
      BY <3>1, CutStep
    <3>4. QED
      BY <2>2, <3>2, <3>3
  <2>3. QED
    BY <2>1, <2>2
<1>4. h = [i \in 0..Entries |-> step(h, i)]
  <2> HIDE DEF step
  <2>1. QED
    BY <1>3
<1>5. pass = [i \in 0..Entries |-> step(pass, i)]
  <2> HIDE DEF step, h
  <2>1. QED
    BY <1>4
<1> HIDE DEF pass, h
<1>6. 0 \in T
  BY <1>2, <1>5, CutNothing
<1>7. ASSUME NEW i \in 1..Entries, i - 1 \in T PROVE i \in T
  <2>1. pass[i] = PassStep(pass[i - 1], id, i)
    BY <1>2, <1>5
  <2>2. QED
    BY <1>7, <2>1, CutStep
<1>8. Entries \in T
  <2> HIDE DEF T
  <2>1. 0..Entries \subseteq T
    BY <1>2, <1>6, <1>7, Climb
  <2>2. QED
    BY <1>2, <2>1
<1>9. QED
  BY <1>1, <1>8

LEMMA DeleteIs ==
  ASSUME Apart, Structured(data), NEW id \in Id, DeleteObjFromSet(id)
  PROVE  Structured(data') /\ id \in Members /\ Members' = Members \ {id}
<1>1. data' = Cut(data, id, Entries) /\ Entries \in Nat
  BY DeletedIs, SizeIs DEF DeleteObjFromSet
<1>2. /\ Structured(data')
      /\ \A m \in Heads : Window(data', m)
                            = IF m < Entries /\ Window(data, m) = id THEN Zeroes ELSE Window(data, m)
  BY <1>1, CutIs
<1>3. Zeroes \notin Id /\ \A m \in Places : m < Entries
  BY <1>1, NumbersAre DEF Places
<1>4. ASSUME NEW jd \in Id
      PROVE  (\E m \in Heads \cap Places : Window(data', m) = jd)
               <=> (\E m \in Heads \cap Places : Window(data, m) = jd) /\ jd # id
  BY <1>2, <1>3
<1>5. Members' = Members \ {id}
  <2>1. Members = {jd \in Id : \E m \in Heads \cap Places : Window(data, m) = jd}
    BY MembersAre
  <2>2. Members' = {jd \in Id : \E m \in Heads \cap Places : Window(data', m) = jd}
    BY <1>2, MembersNext
  <2>3. QED
    BY <1>4, <2>1, <2>2
<1>6. QED
  BY <1>2, <1>5 DEF Members, DeleteObjFromSet

\* Every value that the calls can leave is a row of entries.
SetInv == Structured(data)

LEMMA NothingYet ==
  ASSUME SetInit
  PROVE  Structured(data) /\ \A m \in Heads : Window(data, m) = Zeroes
<1>1. data = [k \in 1..Size |-> 0]
  BY DEF SetInit, Size
<1>2. \A m \in Heads, k \in 1..IdLen : m + k \in 1..Size
  BY SizeIs, HeadsAre
<1>3. \A m \in Heads : Window(data, m) = Zeroes
  BY <1>1, <1>2 DEF Window, Zeroes
<1>4. QED
  BY <1>1, <1>3, NumbersAre DEF Structured

LEMMA SetInvHolds ==
  ASSUME Apart
  PROVE  SetSpec => []SetInv
<1>1. SetInit => SetInv
  BY NothingYet DEF SetInv
<1>2. SetInv /\ [SetNext]_data => SetInv'
  <2> SUFFICES ASSUME SetInv, [SetNext]_data PROVE Structured(data')
    BY DEF SetInv
  <2>1. Structured(data)
    BY DEF SetInv
  <2>2. CASE SetNext
    BY <2>1, <2>2, AddIs, DeleteIs DEF SetNext
  <2>3. CASE data' = data
    BY <2>1, <2>3
  <2>4. QED
    BY <2>2, <2>3
<1>3. QED
  BY <1>1, <1>2, PTL DEF SetSpec

\* For entries of any length and number, and any object numbers that the loops can
\* tell apart, those below 256 among them, the value of a set property is a set:
\* each call of bindery.c adds or deletes the number it names and no other.
THEOREM SetsImplementMembers ==
  ASSUME Apart
  PROVE  SetSpec => ImplementsMembers
<1>1. SetInit => Set!Init
  <2> SUFFICES ASSUME SetInit PROVE Members = {}
    BY DEF Set!Init
  <2>1. Structured(data) /\ \A m \in Heads : Window(data, m) = Zeroes
    BY NothingYet
  <2>2. Members = {id \in Id : \E m \in Heads \cap Places : Window(data, m) = id}
    BY <2>1, MembersAre
  <2>3. QED
    BY <2>1, <2>2, NumbersAre
<1>2. SetInv /\ [SetNext]_data => [Set!Next]_Members
  <2> SUFFICES ASSUME Structured(data), [SetNext]_data PROVE [Set!Next]_Members
    BY DEF SetInv
  <2>1. ASSUME NEW id \in Id, AddObjToSet(id) PROVE Set!Next
    BY <2>1, AddIs DEF Set!Next, Set!Add
  <2>2. ASSUME NEW id \in Id, DeleteObjFromSet(id) PROVE Set!Next
    BY <2>2, DeleteIs DEF Set!Next, Set!Delete
  <2>3. CASE data' = data
    BY <2>3 DEF Members, IsObjInSet, Window
  <2>4. QED
    BY <2>1, <2>2, <2>3 DEF SetNext
<1>3. QED
  BY <1>1, <1>2, SetInvHolds, PTL DEF SetSpec, ImplementsMembers, Set!Spec

\* The numbers below 256 are among those the loops can tell apart.
LEMMA SmallAreApart ==
  ASSUME \A id \in Id : \A k \in 1..IdLen-1 : id[k] = 0
  PROVE  Apart
<1>1. IdLen \in Nat /\ IdLen >= 1
  BY SizeIs
<1>2. ASSUME NEW id \in Id, id[IdLen] = 0 PROVE FALSE
  <2>1. \A k \in 1..IdLen : id[k] = 0
    BY <1>1, <1>2
  <2>2. id = Zeroes
    BY <2>1, NumbersAre DEF Zeroes
  <2>3. QED
    BY <2>2, NumbersAre
<1>3. ASSUME NEW a, NEW b \in Id \cup {Zeroes}, NEW c \in 1..IdLen-1, Across(a, b, c) \in Id
      PROVE  FALSE
  <2>1. IdLen - (IdLen - c) = c /\ ~(IdLen <= IdLen - c) /\ IdLen \in 1..IdLen /\ c \in 1..IdLen
    BY <1>1
  <2>2. Across(a, b, c)[IdLen] = b[c]
    BY <2>1 DEF Across
  <2>3. b[c] = 0
    BY <2>1 DEF Zeroes
  <2>4. QED
    BY <1>2, <1>3, <2>2, <2>3
<1>4. QED
  BY <1>2, <1>3 DEF Apart

\* What was deleted is a member no more, also when its number got into the value
\* twice: the loop of a deletion, which reads what it has zeroed already, goes on
\* after the first one it finds (NCP 23 66).
THEOREM DeletedMembersAreGone ==
  ASSUME Apart
  PROVE  SetSpec => DeletedAreGone
<1>1. SetInv /\ [SetNext]_data =>
        [\A id \in Id : DeleteObjFromSet(id) => id \notin Members']_data
  BY DeleteIs DEF SetInv
<1>2. QED
  BY <1>1, SetInvHolds, PTL DEF SetSpec, DeletedAreGone
=============================================================================
