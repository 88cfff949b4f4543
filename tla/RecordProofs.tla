---------------------------- MODULE RecordProofs ----------------------------
(***************************************************************************)
(* Proofs about the task record: the types and what each store has seen,   *)
(* that nothing is taken for saved that is not, and that no line is lost   *)
(* as long as writes do not fail.                                          *)
(*                                                                         *)
(* The merge, the names of the documents and the load are functions over   *)
(* lists.  Their lemmas come first, one section per part of the source,    *)
(* each by induction on the numbers of the list (Induction).  Then one     *)
(* lemma per action for each of the two invariants: Inv and LossInv.       *)
(***************************************************************************)
EXTENDS Record, FiniteSetTheorems, SequenceTheorems, WellFoundedInduction, TLAPS

-----------------------------------------------------------------------------
(* Numbers: induction, least and greatest, and lists of them in order *)

\* Induction over the naturals with a set for the predicate: were a number not
\* in S, the least such number would have a predecessor in S.
Below == {ss \in Nat \X Nat : ss[1] < ss[2]}
LEMMA Induction ==
    ASSUME NEW S, 0 \in S, \A n \in Nat : n \in S => n + 1 \in S
    PROVE  \A n \in Nat : n \in S
<1> DEFINE T == Nat \ S
<1> SUFFICES ASSUME T # {} PROVE FALSE
  OBVIOUS
<1>1. IsWellFoundedOn(Below, Nat)
  BY NatLessThanWellFounded DEF OpToRel, Below
<1>2. T \subseteq Nat
  OBVIOUS
<1>3. PICK x \in T : \A y \in T : ~ (<<y, x>> \in Below)
  BY <1>1, <1>2, WFMin
<1>4. x # 0 /\ x \in Nat /\ x - 1 \in Nat /\ x - 1 < x /\ x = (x - 1) + 1
  BY SMT
<1>5. <<x - 1, x>> \in Below
  BY <1>4 DEF Below
<1>6. x - 1 \in S
  BY <1>3, <1>4, <1>5
<1> QED BY <1>4, <1>6

\* Least of a set of naturals that is not empty.
LEMMA LeastOf ==
    ASSUME NEW S \in SUBSET Nat, S # {}
    PROVE  Least(S) \in S /\ \A y \in S : Least(S) <= y
<1>1. IsWellFoundedOn(Below, Nat)
  BY NatLessThanWellFounded DEF OpToRel, Below
<1>2. PICK x \in S : \A y \in S : ~ (<<y, x>> \in Below)
  BY <1>1, WFMin
<1>3. ASSUME NEW y \in S PROVE x <= y
  <2>1. <<y, x>> \in Nat \X Nat /\ ~(<<y, x>> \in Below)
    BY <1>2
  <2>2. ~(y < x)
    BY <2>1 DEF Below
  <2> QED BY <2>1, <2>2
<1> QED BY <1>2, <1>3 DEF Least

\* nextIndex of a list, or of a part of one: more than every id in it.
LEMMA NextIndexIs ==
    ASSUME NEW n \in Nat, NEW seq, DOMAIN seq \subseteq 1 .. n,
           \A k \in DOMAIN seq : seq[k].id \in Nat
    PROVE  NextIndex(seq) \in Nat \ {0} /\ \A k \in DOMAIN seq : seq[k].id < NextIndex(seq)
<1> DEFINE IdsTo(m) == {0} \cup {seq[k].id : k \in DOMAIN seq \cap (1 .. m)}
           D == {m \in Nat : \E x \in IdsTo(m) : \A y \in IdsTo(m) : y <= x}
<1>0. \A m \in Nat : IdsTo(m) \subseteq Nat
  OBVIOUS
<1>1. 0 \in D
  OBVIOUS
<1>2. ASSUME NEW m \in Nat, m \in D PROVE m + 1 \in D
  <2>1. PICK x \in IdsTo(m) : \A y \in IdsTo(m) : y <= x
    BY <1>2
  <2>2. 1 .. m + 1 = (1 .. m) \cup {m + 1}
    OBVIOUS
  <2>3. IdsTo(m + 1) = IdsTo(m) \cup {seq[k].id : k \in DOMAIN seq \cap {m + 1}}
    BY <2>2
  <2>4. m + 1 \in Nat /\ IdsTo(m) \subseteq Nat
    BY <1>0
  <2> HIDE DEF IdsTo
  <2>5. \E z \in IdsTo(m + 1) : \A y \in IdsTo(m + 1) : y <= z
    <3>1. CASE m + 1 \notin DOMAIN seq
      <4>1. IdsTo(m + 1) = IdsTo(m)
        BY <2>3, <3>1
      <4> QED BY <4>1, <2>1
    <3>2. CASE m + 1 \in DOMAIN seq
      <4> DEFINE z == seq[m + 1].id
      <4>1. IdsTo(m + 1) = IdsTo(m) \cup {z} /\ z \in Nat
        BY <2>3, <3>2
      <4> HIDE DEF z
      <4>2. CASE z <= x
        BY <4>1, <4>2, <2>1
      <4>3. CASE ~(z <= x)
        <5>1. \A y \in IdsTo(m + 1) : y <= z
          BY <4>1, <4>3, <2>1, <2>4
        <5> QED BY <5>1, <4>1
      <4> QED BY <4>2, <4>3
    <3> QED BY <3>1, <3>2
  <2> QED BY <2>4, <2>5
<1> HIDE DEF D
<1>3. n \in D
  BY <1>1, <1>2, Induction
<1>4. PICK x \in IdsTo(n) : \A y \in IdsTo(n) : y <= x
  BY <1>3 DEF D
<1> DEFINE I == {0} \cup {seq[k].id : k \in DOMAIN seq}
           m == CHOOSE m \in I : \A k \in DOMAIN seq : seq[k].id <= m
<1>5. x \in I /\ \A k \in DOMAIN seq : seq[k].id <= x
  BY <1>4
<1>6. m \in I /\ \A k \in DOMAIN seq : seq[k].id <= m
  BY <1>5
<1>7. NextIndex(seq) = 1 + m
  BY DEF NextIndex
<1> HIDE DEF m
<1>8. m \in Nat
  BY <1>6
<1> QED BY <1>6, <1>8, <1>7

\* InOrder: the numbers of S up to n, rising.
Ordering(S, n, up) == up = [k \in 0 .. n |-> IF k = 0 THEN <<>>
                                             ELSE IF k \in S THEN Append(up[k - 1], k) ELSE up[k - 1]]
LEMMA InOrderUp ==
    ASSUME NEW S, NEW n \in Nat
    PROVE  \E up : /\ InOrder(S, n) = up[n] /\ up[0] = <<>>
                   /\ \A k \in 1 .. n : up[k] = IF k \in S THEN Append(up[k - 1], k) ELSE up[k - 1]
<1> DEFINE D == {m \in Nat : \E up : Ordering(S, m, up)}
<1>1. 0 \in D
  <2>1. Ordering(S, 0, [k \in 0 .. 0 |-> <<>>])
    BY DEF Ordering
  <2> QED BY <2>1
<1>2. ASSUME NEW m \in Nat, m \in D PROVE m + 1 \in D
  <2>1. PICK u : Ordering(S, m, u)
    BY <1>2
  <2> DEFINE v == [k \in 0 .. m + 1 |-> IF k <= m THEN u[k] ELSE IF k \in S THEN Append(u[m], k) ELSE u[m]]
  <2>2. \A k \in 0 .. m : u[k] = IF k = 0 THEN <<>> ELSE IF k \in S THEN Append(u[k - 1], k) ELSE u[k - 1]
    BY <2>1 DEF Ordering
  <2>3. \A k \in 0 .. m + 1 : v[k] = IF k = 0 THEN <<>> ELSE IF k \in S THEN Append(v[k - 1], k) ELSE v[k - 1]
    BY <2>2
  <2>4. Ordering(S, m + 1, v)
    BY <2>3 DEF Ordering
  <2> QED BY <2>4
<1> HIDE DEF D
<1>3. n \in D
  BY <1>1, <1>2, Induction
<1> DEFINE u == CHOOSE up : Ordering(S, n, up)
<1>4. InOrder(S, n) = u[n]
  BY DEF InOrder, Ordering
<1>5. Ordering(S, n, u)
  BY <1>3 DEF D
<1> HIDE DEF u
<1>6. \A k \in 0 .. n : u[k] = IF k = 0 THEN <<>> ELSE IF k \in S THEN Append(u[k - 1], k) ELSE u[k - 1]
  BY <1>5 DEF Ordering
<1>7. u[0] = <<>> /\ \A k \in 1 .. n : u[k] = IF k \in S THEN Append(u[k - 1], k) ELSE u[k - 1]
  BY <1>6
<1> QED BY <1>4, <1>7

\* What a list that grows by one place holds.
LEMMA OneMore ==
    ASSUME NEW v, NEW w, NEW n, NEW x,
           DOMAIN v = DOMAIN w \cup {n}, \A i \in DOMAIN w : v[i] = w[i], v[n] = x
    PROVE  ToSet(v) = ToSet(w) \cup {x}
<1>1. \A y : y \in ToSet(v) <=> \E i \in DOMAIN v : y = v[i]
  BY DEF ToSet
<1>2. \A y : y \in ToSet(w) <=> \E i \in DOMAIN w : y = w[i]
  BY DEF ToSet
<1>3. \A y : y \in ToSet(v) <=> y \in ToSet(w) \cup {x}
  BY <1>1, <1>2
<1> QED BY <1>3

LEMMA AppendedSet ==
    ASSUME NEW T, NEW s \in Seq(T), NEW e \in T
    PROVE  Append(s, e) \in Seq(T) /\ ToSet(Append(s, e)) = ToSet(s) \cup {e}
<1> DEFINE v == Append(s, e)
<1>1. /\ v \in Seq(T) /\ Len(v) = Len(s) + 1 /\ Len(s) \in Nat
      /\ \A i \in 1 .. Len(s) : v[i] = s[i]
      /\ v[Len(s) + 1] = e
  BY AppendProperties
<1> HIDE DEF v
<1>2. DOMAIN v = 1 .. Len(s) + 1 /\ DOMAIN s = 1 .. Len(s)
  BY <1>1
<1>3. DOMAIN v = DOMAIN s \cup {Len(s) + 1}
  BY <1>1, <1>2
<1>4. ToSet(v) = ToSet(s) \cup {e}
  BY <1>1, <1>2, <1>3, OneMore
<1> QED BY <1>1, <1>4 DEF v

LEMMA InOrderIs ==
    ASSUME NEW S, NEW n \in Nat
    PROVE  InOrder(S, n) \in Seq(S \cap (1 .. n)) /\ ToSet(InOrder(S, n)) = S \cap (1 .. n)
<1>1. PICK up : /\ InOrder(S, n) = up[n] /\ up[0] = <<>>
                /\ \A k \in 1 .. n : up[k] = IF k \in S THEN Append(up[k - 1], k) ELSE up[k - 1]
  BY InOrderUp
<1> DEFINE Good(k) == up[k] \in Seq(S \cap (1 .. n)) /\ ToSet(up[k]) = S \cap (1 .. k)
           D == {k \in Nat : k <= n => Good(k)}
<1>2. 0 \in D
  <2>1. ToSet(up[0]) = {}
    BY <1>1 DEF ToSet
  <2>2. up[0] \in Seq(S \cap (1 .. n)) /\ S \cap (1 .. 0) = {}
    BY <1>1
  <2> QED BY <2>1, <2>2
<1>3. ASSUME NEW k \in Nat, k \in D PROVE k + 1 \in D
  <2> SUFFICES ASSUME k + 1 <= n PROVE Good(k + 1)
    OBVIOUS
  <2>1. Good(k)
    BY <1>3
  <2>2. up[k + 1] = IF k + 1 \in S THEN Append(up[k], k + 1) ELSE up[k]
    BY <1>1
  <2>3. CASE k + 1 \in S
    <3>1. up[k + 1] = Append(up[k], k + 1) /\ k + 1 \in S \cap (1 .. n)
      BY <2>2, <2>3
    <3>2. Append(up[k], k + 1) \in Seq(S \cap (1 .. n)) /\ ToSet(Append(up[k], k + 1)) = ToSet(up[k]) \cup {k + 1}
      BY <3>1, <2>1, AppendedSet
    <3>3. S \cap (1 .. k + 1) = (S \cap (1 .. k)) \cup {k + 1}
      BY <2>3
    <3> QED BY <3>1, <3>2, <3>3, <2>1
  <2>4. CASE k + 1 \notin S
    <3>1. S \cap (1 .. k + 1) = S \cap (1 .. k)
      BY <2>4
    <3> QED BY <3>1, <2>1, <2>2, <2>4
  <2> QED BY <2>3, <2>4
<1> HIDE DEF D
<1>4. n \in D
  BY <1>2, <1>3, Induction
<1> QED BY <1>1, <1>4 DEF D

LEMMA RemoveAtIs ==
    ASSUME NEW S, NEW s \in Seq(S), NEW i \in 1 .. Len(s)
    PROVE  /\ RemoveAt(s, i) \in Seq(S) /\ Len(RemoveAt(s, i)) = Len(s) - 1
           /\ \A j \in 1 .. Len(s) - 1 : RemoveAt(s, i)[j] = IF j < i THEN s[j] ELSE s[j + 1]
<1> DEFINE a == SubSeq(s, 1, i - 1)  b == SubSeq(s, i + 1, Len(s))
<1>1. a \in Seq(S) /\ Len(a) = i - 1 /\ \A j \in 1 .. i - 1 : a[j] = s[j]
  <2>1. \A j \in 1 .. i - 1 : s[j] \in S
    OBVIOUS
  <2> QED BY <2>1, SubSeqProperties
<1>2. b \in Seq(S) /\ Len(b) = Len(s) - i /\ \A j \in 1 .. Len(s) - i : b[j] = s[i + j]
  <2>1. \A j \in i + 1 .. Len(s) : s[j] \in S
    OBVIOUS
  <2>2. /\ b \in Seq(S) /\ Len(b) = IF i + 1 <= Len(s) THEN Len(s) - (i + 1) + 1 ELSE 0
        /\ \A j \in 1 .. Len(s) - (i + 1) + 1 : b[j] = s[i + 1 + j - 1]
    BY <2>1, SubSeqProperties
  <2> QED BY <2>2
<1>3. RemoveAt(s, i) = a \o b
  BY DEF RemoveAt
<1> HIDE DEF a, b
<1>4. /\ a \o b \in Seq(S) /\ Len(a \o b) = Len(a) + Len(b)
      /\ \A j \in 1 .. Len(a) + Len(b) : (a \o b)[j] = IF j <= Len(a) THEN a[j] ELSE b[j - Len(a)]
  BY <1>1, <1>2, ConcatProperties
<1> QED BY <1>1, <1>2, <1>3, <1>4

-----------------------------------------------------------------------------
(* Types: of steps, tasks, documents and stores *)
Nodes == [id : Nat, text : Texts, st : Statuses, ev : SUBSET Nat]
Tasks == [id : Nat, text : Texts, kids : Seq(Nodes)]
Roots == [file : Files \cup {NoFile}, id : Nat, text : Texts, kids : Seq(Nodes)]
Contents == [is : {"tasks"}, roots : Seq(Tasks)] \cup {Bad, NoDoc}
Seens == [doc : Contents, base : Tasks \cup {NoTask}]
Stores == [up : BOOLEAN, tree : Seq(Roots), seen : [Files -> Seens],
           reserved : SUBSET Files, dirty : BOOLEAN, moved : BOOLEAN]

\* Two trees with the same roots in the same files, and the same evidence.
Alike(a, b) ==
    /\ b \in Seq(Roots) /\ Len(b) = Len(a)
    /\ \A i \in 1 .. Len(a) : b[i].file = a[i].file /\ EvOf(b[i].kids) = EvOf(a[i].kids)

-----------------------------------------------------------------------------
(* Evidence: what an operator on steps or trees makes of it *)
LEMMA IsSequence ==
    ASSUME NEW S, NEW n \in Nat, NEW s, s = [k \in 1 .. n |-> s[k]], \A k \in 1 .. n : s[k] \in S
    PROVE  s \in Seq(S) /\ Len(s) = n
<1>1. [k \in 1 .. n |-> s[k]] \in [1 .. n -> S]
  OBVIOUS
<1>2. s \in [1 .. n -> S]
  BY <1>1
<1> QED BY <1>2

LEMMA EvAlike ==
    ASSUME NEW a, NEW b, DOMAIN a = DOMAIN b, \A k \in DOMAIN a : a[k].ev = b[k].ev
    PROVE  EvOf(a) = EvOf(b)
<1>1. {a[k].ev : k \in DOMAIN a} = {b[k].ev : k \in DOMAIN b}
  OBVIOUS
<1> QED BY <1>1 DEF EvOf

LEMMA EvOfIn ==
    ASSUME NEW a, NEW b, \A k \in DOMAIN a : \E j \in DOMAIN b : a[k].ev \subseteq b[j].ev
    PROVE  EvOf(a) \subseteq EvOf(b)
<1>1. ASSUME NEW l \in EvOf(a) PROVE l \in EvOf(b)
  <2>1. PICK k \in DOMAIN a : l \in a[k].ev
    BY <1>1 DEF EvOf
  <2>2. PICK j \in DOMAIN b : a[k].ev \subseteq b[j].ev
    BY <2>1
  <2> QED BY <2>1, <2>2 DEF EvOf
<1> QED BY <1>1

LEMMA ParseIs ==
    ASSUME NEW t \in Tasks
    PROVE  Parse(t) \in Tasks /\ Parse(t).text = t.text /\ EvOf(Parse(t).kids) = EvOf(t.kids)
<1> DEFINE kids == [k \in DOMAIN t.kids |-> [t.kids[k] EXCEPT !.id = k]]
<1>1. Parse(t) = [t EXCEPT !.kids = kids]
  BY DEF Parse
<1>2. t.kids \in Seq(Nodes) /\ DOMAIN t.kids = 1 .. Len(t.kids) /\ Len(t.kids) \in Nat
  BY DEF Tasks
<1>3. \A k \in 1 .. Len(t.kids) : kids[k] \in Nodes /\ kids[k].ev = t.kids[k].ev
  <2> SUFFICES ASSUME NEW k \in 1 .. Len(t.kids) PROVE kids[k] \in Nodes /\ kids[k].ev = t.kids[k].ev
    OBVIOUS
  <2>1. t.kids[k] \in Nodes /\ k \in Nat /\ kids[k] = [t.kids[k] EXCEPT !.id = k]
    BY <1>2
  <2> HIDE DEF kids
  <2> QED BY <2>1 DEF Nodes
<1>4. DOMAIN kids = DOMAIN t.kids /\ kids = [k \in 1 .. Len(t.kids) |-> kids[k]]
  BY <1>2
<1>5. kids \in Seq(Nodes)
  <2> HIDE DEF kids
  <2> QED BY <1>2, <1>3, <1>4, IsSequence
<1> HIDE DEF kids
<1>6. EvOf(kids) = EvOf(t.kids)
  BY <1>2, <1>3, <1>4, EvAlike
<1> QED BY <1>1, <1>5, <1>6 DEF Tasks

\* A mark changes no evidence, wherever it is put.
LEMMA SetMarkIs ==
    ASSUME NEW tree \in Seq(Roots), NEW p, NEW st \in Statuses
    PROVE  Alike(tree, SetMark(tree, p, st))
<1> DEFINE r == tree[p[1]]  n == r.kids[p[2]]
           kids == [r.kids EXCEPT ![p[2]] = [n EXCEPT !.st = st]]
           new == [tree EXCEPT ![p[1]] = [r EXCEPT !.kids = kids]]
<1>1. SetMark(tree, p, st) = new
  BY DEF SetMark
<1>2. CASE p[1] \notin DOMAIN tree
  <2>1. new = tree
    BY <1>2
  <2> HIDE DEF new
  <2> QED BY <1>1, <2>1 DEF Alike
<1>3. CASE p[1] \in DOMAIN tree
  <2>1. r \in Roots /\ p[1] \in 1 .. Len(tree)
    BY <1>3
  <2> HIDE DEF r
  <2>2. kids \in Seq(Nodes) /\ EvOf(kids) = EvOf(r.kids)
    <3>1. r.kids \in Seq(Nodes)
      BY <2>1 DEF Roots
    <3>2. CASE p[2] \notin DOMAIN r.kids
      <4>1. kids = r.kids
        BY <3>1, <3>2
      <4> HIDE DEF kids
      <4> QED BY <4>1, <3>1
    <3>3. CASE p[2] \in DOMAIN r.kids
      <4>1. n \in Nodes
        BY <3>1, <3>3
      <4> HIDE DEF n
      <4>2. [n EXCEPT !.st = st] \in Nodes /\ [n EXCEPT !.st = st].ev = n.ev
        BY <4>1 DEF Nodes
      <4>3. kids \in Seq(Nodes) /\ DOMAIN kids = DOMAIN r.kids
        BY <3>1, <3>3, <4>2
      <4>4. \A k \in DOMAIN kids : kids[k].ev = r.kids[k].ev
        BY <3>1, <3>3, <4>2 DEF n
      <4> HIDE DEF kids
      <4> QED BY <4>3, <4>4, EvAlike
    <3> QED BY <3>2, <3>3
  <2> HIDE DEF kids
  <2>3. [r EXCEPT !.kids = kids] \in Roots /\ [r EXCEPT !.kids = kids].file = r.file /\ [r EXCEPT !.kids = kids].kids = kids
    BY <2>1, <2>2 DEF Roots
  <2>4. new \in Seq(Roots) /\ Len(new) = Len(tree)
    BY <2>1, <2>3
  <2>5. \A i \in 1 .. Len(tree) : new[i].file = tree[i].file /\ EvOf(new[i].kids) = EvOf(tree[i].kids)
    BY <2>1, <2>2, <2>3 DEF r
  <2> HIDE DEF new
  <2> QED BY <1>1, <2>4, <2>5 DEF Alike
<1> QED BY <1>2, <1>3

LEMMA TakeBackIs ==
    ASSUME NEW tree \in Seq(Roots)
    PROVE  Alike(tree, TakeBack(tree))
<1>1. "todo" \in Statuses
  BY DEF Statuses
<1>2. Alike(tree, tree)
  BY DEF Alike
<1> QED BY <1>1, <1>2, SetMarkIs DEF TakeBack

LEMMA AlikeTwice ==
    ASSUME NEW a, NEW b, NEW c, Alike(a, b), Alike(b, c)
    PROVE  Alike(a, c)
BY DEF Alike

-----------------------------------------------------------------------------
(* merge.go: the steps of one task *)
\* Pairs are of one step with one.
LEMMA PairsIn ==
    ASSUME NEW a \in Seq(Nodes), NEW b \in Seq(Nodes)
    PROVE  /\ DOMAIN PairNodes(a, b) = DOMAIN a
           /\ \A x \in DOMAIN a : PairNodes(a, b)[x] \in DOMAIN b \cup {0}
           /\ \A x, y \in DOMAIN a : PairNodes(a, b)[x] = PairNodes(a, b)[y] /\ PairNodes(a, b)[x] # 0 => x = y
<1> DEFINE Like(s, i) == {j \in 1 .. i : s[j].text = s[i].text}
           same == {p \in (DOMAIN a) \X (DOMAIN b) :
                       a[p[1]].text = b[p[2]].text /\ Cardinality(Like(a, p[1])) = Cardinality(Like(b, p[2]))}
           left(s, n) == {i \in DOMAIN s : \A p \in same : p[n] # i}
           Nth(s, n, i) == {j \in left(s, n) : j <= i /\ s[j].id = s[i].id}
           numbered == {p \in left(a, 1) \X left(b, 2) :
                           a[p[1]].id = b[p[2]].id /\ Cardinality(Nth(a, 1, p[1])) = Cardinality(Nth(b, 2, p[2]))}
           pair(x) == {y \in DOMAIN b : <<x, y>> \in same \cup numbered}
           pairs == PairNodes(a, b)
<1>1. pairs = [x \in DOMAIN a |-> IF pair(x) = {} THEN 0 ELSE Least(pair(x))]
  BY DEF PairNodes
<1>2. DOMAIN a = 1 .. Len(a) /\ DOMAIN b = 1 .. Len(b) /\ Len(a) \in Nat /\ Len(b) \in Nat
  OBVIOUS
<1> HIDE DEF pairs, pair, same, numbered
<1>3. ASSUME NEW x \in DOMAIN a
      PROVE  /\ pairs[x] \in DOMAIN b \cup {0}
             /\ pairs[x] # 0 => <<x, pairs[x]>> \in same \cup numbered
  <2>1. pair(x) \in SUBSET Nat /\ pair(x) \subseteq DOMAIN b
    BY <1>2 DEF pair
  <2>2. CASE pair(x) = {}
    BY <2>2, <1>1
  <2>3. CASE pair(x) # {}
    <3>1. Least(pair(x)) \in pair(x)
      BY <2>1, <2>3, LeastOf
    <3>2. pairs[x] = Least(pair(x))
      BY <2>3, <1>1
    <3> QED BY <2>1, <3>1, <3>2 DEF pair
  <2> QED BY <2>2, <2>3
<1>4. ASSUME NEW x \in DOMAIN a, NEW y \in DOMAIN a, x < y, NEW z \in DOMAIN b,
             <<x, z>> \in same \cup numbered, <<y, z>> \in same \cup numbered
      PROVE  FALSE
  <2>1. CASE <<x, z>> \in same /\ <<y, z>> \in same
    <3> DEFINE A == Like(a, x)  B == Like(a, y)
    <3>1. a[x].text = a[y].text /\ Cardinality(A) = Cardinality(B)
      BY <2>1 DEF same
    <3>2. A \subseteq B /\ B \subseteq 1 .. y /\ y \in B /\ y \notin A
      BY <1>2, <1>4, <3>1
    <3> HIDE DEF A, B
    <3>3. IsFiniteSet(B)
      <4>1. y \in Int /\ 1 \in Int /\ B \in SUBSET (1 .. y)
        BY <1>2, <3>2
      <4>2. IsFiniteSet(1 .. y)
        BY <4>1, FS_Interval
      <4> QED BY <4>1, <4>2, FS_Subset
    <3> QED BY <3>1, <3>2, <3>3, FS_Subset
  <2>2. CASE <<x, z>> \in numbered /\ <<y, z>> \in numbered
    <3> DEFINE A == Nth(a, 1, x)  B == Nth(a, 1, y)
    <3>1. a[x].id = a[y].id /\ Cardinality(A) = Cardinality(B) /\ y \in left(a, 1)
      BY <2>2 DEF numbered
    <3>2. left(a, 1) \subseteq 1 .. Len(a)
      BY <1>2
    <3> HIDE DEF left
    <3>3. A \subseteq B /\ B \subseteq 1 .. y /\ y \in B /\ y \notin A
      BY <1>2, <1>4, <3>1, <3>2
    <3> HIDE DEF A, B
    <3>4. IsFiniteSet(B)
      <4>1. y \in Int /\ 1 \in Int /\ B \in SUBSET (1 .. y)
        BY <1>2, <3>3
      <4>2. IsFiniteSet(1 .. y)
        BY <4>1, FS_Interval
      <4> QED BY <4>1, <4>2, FS_Subset
    <3> QED BY <3>1, <3>3, <3>4, FS_Subset
  <2>3. ASSUME NEW u, NEW v, <<u, z>> \in same, <<v, z>> \in numbered PROVE FALSE
    <3>1. z \in left(b, 2)
      BY <2>3 DEF numbered
    <3>2. \A p \in same : p[2] # z
      BY <3>1
    <3> QED BY <2>3, <3>2
  <2> QED BY <1>4, <2>1, <2>2, <2>3
<1>5. ASSUME NEW x \in DOMAIN a, NEW y \in DOMAIN a, pairs[x] = pairs[y], pairs[x] # 0 PROVE x = y
  <2>1. pairs[x] \in DOMAIN b /\ <<x, pairs[x]>> \in same \cup numbered /\ <<y, pairs[x]>> \in same \cup numbered
    BY <1>3, <1>5
  <2>2. ~(x < y) /\ ~(y < x)
    BY <2>1, <1>4
  <2> QED BY <1>2, <2>2
<1>6. DOMAIN pairs = DOMAIN a
  BY <1>1
<1> QED BY <1>3, <1>5, <1>6 DEF pairs

LEMMA MergeNodeIs ==
    ASSUME NEW o \in Nodes, NEW t \in Nodes, NEW b, b.ev \subseteq Nat
    PROVE  /\ MergeNode(o, t, b) \in Nodes /\ t.ev \subseteq MergeNode(o, t, b).ev
           /\ o.ev \subseteq MergeNode(o, t, b).ev \cup b.ev
BY DEF MergeNode, MergeEvidence, Nodes

\* What a document says of a step is in the merged list, and so is what the
\* tree says, but for what the base has.
LEMMA MergeKidsIs ==
    ASSUME NEW ours \in Seq(Nodes), NEW theirs \in Seq(Nodes), NEW base \in Seq(Nodes)
    PROVE  /\ MergeKids(ours, theirs, base) \in Seq(Nodes)
           /\ EvOf(theirs) \subseteq EvOf(MergeKids(ours, theirs, base))
           /\ EvOf(ours) \subseteq EvOf(MergeKids(ours, theirs, base)) \cup EvOf(base)
<1> DEFINE toTheirs == PairNodes(ours, theirs)
           toBase == PairNodes(ours, base)
           Was(x) == IF toBase[x] = 0 THEN NoNode ELSE base[toBase[x]]
           Mine(y) == {x \in DOMAIN ours : toTheirs[x] = y}
           Stays(x) == toTheirs[x] = 0 /\ ~(toBase[x] # 0 /\ UnchangedSince(ours[x], Was(x)))
           settled == [x \in {z \in DOMAIN ours : toTheirs[z] # 0 \/ Stays(z)} |-> ours[x]]
           Added(y) == Cardinality({z \in 1 .. y : Mine(z) = {}})
           Led(y) == IF Mine(y) = {} THEN [theirs[y] EXCEPT !.id = NextIndex(settled) + Added(y) - 1]
                     ELSE LET x == Least(Mine(y)) IN MergeNode(ours[x], theirs[y], Was(x))
           lead == [y \in DOMAIN theirs |-> Led(y)]
           stay == {x \in DOMAIN ours : Stays(x)}
           rest == InOrder(stay, Len(ours))
           tail == [k \in DOMAIN rest |-> ours[rest[k]]]
<1>1. MergeKids(ours, theirs, base) = lead \o tail
  BY DEF MergeKids
<1>2. \A x \in DOMAIN ours : Was(x).ev \subseteq Nat /\ Was(x).ev \subseteq EvOf(base)
  <2> SUFFICES ASSUME NEW x \in DOMAIN ours PROVE Was(x).ev \subseteq Nat /\ Was(x).ev \subseteq EvOf(base)
    OBVIOUS
  <2>1. toBase[x] \in DOMAIN base \cup {0}
    BY PairsIn
  <2> HIDE DEF toBase
  <2>2. CASE toBase[x] = 0
    BY <2>2 DEF NoNode
  <2>3. CASE toBase[x] \in DOMAIN base
    <3>1. base[toBase[x]] \in Nodes /\ toBase[x] # 0
      BY <2>3
    <3>2. Was(x) = base[toBase[x]]
      BY <3>1
    <3> QED BY <2>3, <3>1, <3>2 DEF Nodes, EvOf
  <2> QED BY <2>1, <2>2, <2>3
<1>3. NextIndex(settled) \in Nat \ {0}
  <2>1. DOMAIN settled \subseteq 1 .. Len(ours)
    OBVIOUS
  <2>2. ASSUME NEW x \in DOMAIN settled PROVE settled[x].id \in Nat
    <3>1. settled[x] = ours[x] /\ ours[x] \in Nodes
      OBVIOUS
    <3> HIDE DEF settled
    <3> QED BY <3>1 DEF Nodes
  <2> HIDE DEF settled
  <2> QED BY <2>1, <2>2, NextIndexIs
<1>4. \A y \in Nat : Added(y) \in Nat
  <2> SUFFICES ASSUME NEW y \in Nat PROVE Added(y) \in Nat
    OBVIOUS
  <2>1. IsFiniteSet(1 .. y)
    BY FS_Interval
  <2>2. IsFiniteSet({z \in 1 .. y : Mine(z) = {}})
    BY <2>1, FS_Subset
  <2> HIDE DEF Mine
  <2> QED BY <2>2, FS_CardinalityType
<1>5. \A y \in DOMAIN theirs : Led(y) \in Nodes /\ theirs[y].ev \subseteq Led(y).ev
  <2> SUFFICES ASSUME NEW y \in DOMAIN theirs PROVE Led(y) \in Nodes /\ theirs[y].ev \subseteq Led(y).ev
    OBVIOUS
  <2>0. theirs[y] \in Nodes /\ y \in Nat
    OBVIOUS
  <2>1. CASE Mine(y) = {}
    <3>1. NextIndex(settled) + Added(y) - 1 \in Nat
      BY <1>3, <1>4, <2>0
    <3> DEFINE n == NextIndex(settled) + Added(y) - 1
    <3>2. Led(y) = [theirs[y] EXCEPT !.id = n]
      BY <2>1
    <3> HIDE DEF n, Led
    <3>3. n \in Nat
      BY <3>1 DEF n
    <3> QED BY <2>0, <3>2, <3>3 DEF Nodes
  <2>2. CASE Mine(y) # {}
    <3> DEFINE x == Least(Mine(y))
    <3>1. x \in DOMAIN ours
      <4>1. Mine(y) \in SUBSET Nat /\ Mine(y) \subseteq DOMAIN ours
        OBVIOUS
      <4> HIDE DEF Mine
      <4> QED BY <4>1, <2>2, LeastOf
    <3>2. Led(y) = MergeNode(ours[x], theirs[y], Was(x))
      BY <2>2
    <3> HIDE DEF x, Led
    <3>3. ours[x] \in Nodes /\ Was(x).ev \subseteq Nat
      BY <3>1, <1>2
    <3> HIDE DEF Was
    <3> QED BY <2>0, <3>2, <3>3, MergeNodeIs
  <2> QED BY <2>1, <2>2
<1>6. lead \in Seq(Nodes) /\ DOMAIN lead = DOMAIN theirs
  <2> HIDE DEF Led
  <2> QED BY <1>5
<1>7. tail \in Seq(Nodes)
  <2>1. stay \cap (1 .. Len(ours)) \subseteq DOMAIN ours
    OBVIOUS
  <2>2. rest \in Seq(stay \cap (1 .. Len(ours)))
    <3> HIDE DEF stay
    <3> QED BY InOrderIs
  <2> HIDE DEF rest, stay
  <2>3. \A k \in DOMAIN rest : ours[rest[k]] \in Nodes
    BY <2>1, <2>2
  <2> QED BY <2>2, <2>3
<1>8. \A y \in DOMAIN lead : lead[y] = Led(y)
  OBVIOUS
\* A step of the tree meets its own, stays, or was in the base.
<1>9. ASSUME NEW x \in DOMAIN ours
      PROVE  \/ \E y \in DOMAIN lead : ours[x].ev \subseteq lead[y].ev \cup EvOf(base)
             \/ \E k \in DOMAIN tail : tail[k] = ours[x]
             \/ ours[x].ev \subseteq EvOf(base)
  <2>1. CASE toTheirs[x] # 0
    <3> DEFINE y == toTheirs[x]
    <3>1. y \in DOMAIN theirs /\ x \in Mine(y)
      BY <2>1, PairsIn
    <3>2. Mine(y) \in SUBSET Nat /\ \A z \in Mine(y) : z = x
      BY <2>1, PairsIn
    <3>3. Least(Mine(y)) = x
      <4> HIDE DEF Mine, y
      <4> QED BY <3>1, <3>2, LeastOf
    <3>4. Led(y) = MergeNode(ours[x], theirs[y], Was(x))
      BY <3>1, <3>3
    <3> HIDE DEF Led, y, Was, lead
    <3>5. ours[x] \in Nodes /\ theirs[y] \in Nodes /\ Was(x).ev \subseteq Nat /\ Was(x).ev \subseteq EvOf(base)
      BY <1>2, <3>1
    <3>6. ours[x].ev \subseteq Led(y).ev \cup EvOf(base)
      BY <3>4, <3>5, MergeNodeIs
    <3> QED BY <1>6, <1>8, <3>1, <3>6
  <2>2. CASE Stays(x)
    <3>1. x \in stay \cap (1 .. Len(ours)) /\ Len(ours) \in Nat
      BY <2>2
    <3> HIDE DEF stay
    <3>2. x \in ToSet(rest)
      BY <3>1, InOrderIs
    <3>3. PICK k \in DOMAIN rest : rest[k] = x
      BY <3>2 DEF ToSet
    <3>4. k \in DOMAIN tail /\ tail[k] = ours[x]
      BY <3>3
    <3> QED BY <3>4
  <2>3. CASE toTheirs[x] = 0 /\ toBase[x] # 0 /\ UnchangedSince(ours[x], Was(x))
    <3>1. ours[x].ev \subseteq Was(x).ev
      BY <2>3 DEF UnchangedSince
    <3> HIDE DEF Was
    <3> QED BY <3>1, <1>2
  <2> QED BY <2>1, <2>2, <2>3
<1> HIDE DEF lead, tail, Led
<1>10. /\ lead \o tail \in Seq(Nodes) /\ Len(lead \o tail) = Len(lead) + Len(tail)
       /\ \A i \in 1 .. Len(lead) : (lead \o tail)[i] = lead[i]
       /\ \A i \in 1 .. Len(tail) : (lead \o tail)[Len(lead) + i] = tail[i]
  BY <1>6, <1>7
<1>11. \A y \in DOMAIN theirs : y \in DOMAIN (lead \o tail) /\ theirs[y].ev \subseteq (lead \o tail)[y].ev
  BY <1>5, <1>6, <1>8, <1>10
<1>12. EvOf(theirs) \subseteq EvOf(lead \o tail)
  BY <1>11, EvOfIn
<1>13. ASSUME NEW l \in EvOf(ours) PROVE l \in EvOf(lead \o tail) \cup EvOf(base)
  <2>1. PICK x \in DOMAIN ours : l \in ours[x].ev
    BY <1>13 DEF EvOf
  <2>2. ASSUME NEW y \in DOMAIN lead, l \in lead[y].ev PROVE l \in EvOf(lead \o tail)
    <3>1. y \in DOMAIN (lead \o tail) /\ (lead \o tail)[y] = lead[y]
      BY <1>6, <1>7, <1>10
    <3> QED BY <2>2, <3>1 DEF EvOf
  <2>3. ASSUME NEW k \in DOMAIN tail, l \in tail[k].ev PROVE l \in EvOf(lead \o tail)
    <3>1. Len(lead) + k \in DOMAIN (lead \o tail) /\ (lead \o tail)[Len(lead) + k] = tail[k]
      BY <1>6, <1>7, <1>10
    <3> QED BY <2>3, <3>1 DEF EvOf
  <2> QED BY <2>1, <2>2, <2>3, <1>9
<1> QED BY <1>1, <1>10, <1>12, <1>13

-----------------------------------------------------------------------------
(* merge.go: the tasks of one document *)

\* A document f has come into a tree: roots of other files are as they were,
\* what is new is of f, and m, the first root of f, has the lines of kids.
Within(old, new, f) ==
    /\ new \in Seq(Roots) /\ Len(old) <= Len(new)
    /\ \A i \in 1 .. Len(old) : /\ new[i].file = old[i].file
                                /\ old[i].file # f => EvOf(new[i].kids) = EvOf(old[i].kids)
    /\ \A i \in Len(old) + 1 .. Len(new) : new[i].file = f
Merged(old, new, f, m, kids) ==
    /\ Within(old, new, f)
    /\ m \in 1 .. Len(new) /\ IsFirst(new, f, m)
    /\ EvOf(kids) \subseteq EvOf(new[m].kids)
IsAcc(acc) == acc = [tree |-> acc.tree, user |-> acc.user]

LEMMA RootIs ==
    ASSUME NEW f \in Files, NEW id \in Nat, NEW t \in Tasks
    PROVE  Root(f, id, t) \in Roots /\ Root(f, id, t).file = f /\ Root(f, id, t).kids = t.kids
BY DEF Root, Roots, Tasks

LEMMA BaseKids ==
    ASSUME NEW b \in Tasks \cup {NoTask}
    PROVE  b.kids \in Seq(Nodes)
<1>1. CASE b \in Tasks
  BY <1>1 DEF Tasks
<1>2. CASE b = NoTask
  BY <1>2 DEF NoTask
<1> QED BY <1>1, <1>2

LEMMA TreeIds ==
    ASSUME NEW tree \in Seq(Roots)
    PROVE  NextIndex(tree) \in Nat \ {0}
<1>1. DOMAIN tree \subseteq 1 .. Len(tree) /\ Len(tree) \in Nat
  OBVIOUS
<1>2. ASSUME NEW k \in DOMAIN tree PROVE tree[k].id \in Nat
  <2>1. tree[k] \in Roots
    OBVIOUS
  <2> QED BY <2>1 DEF Roots
<1> QED BY <1>1, <1>2, NextIndexIs

LEMMA MergeRootIs ==
    ASSUME NEW st \in Stores, NEW f \in Files, NEW roots \in Seq(Tasks), NEW k \in 1 .. Len(roots),
           NEW acc, IsAcc(acc), Within(st.tree, acc.tree, f), RootsOf(st.tree, f) # {}
    PROVE  LET new == MergeRoot(acc, st, f, roots, k)
               m == Least(RootsOf(st.tree, f))
           IN  /\ IsAcc(new) /\ Within(st.tree, new.tree, f)
               /\ k = 1 => EvOf(roots[1].kids) \subseteq EvOf(new.tree[m].kids)
               /\ k # 1 => new.tree[m].kids = acc.tree[m].kids
               /\ \A j \in 1 .. Len(acc.tree) :
                     /\ j \in 1 .. Len(new.tree) /\ new.tree[j].file = acc.tree[j].file
                     /\ EvOf(acc.tree[j].kids) \subseteq
                            EvOf(new.tree[j].kids) \cup (IF k = 1 /\ j = m THEN EvOf(st.seen[f].base.kids) ELSE {})
               /\ k # 1 => \E j \in 1 .. Len(new.tree) :
                     j # m /\ new.tree[j].file = f /\ EvOf(roots[k].kids) \subseteq EvOf(new.tree[j].kids)
<1> DEFINE mine == RootsOf(st.tree, f)
           m == Least(mine)
           t == Parse(roots[k])
           is == IF k = 1 THEN {m} ELSE {i \in mine \ {m} : acc.tree[i].text = t.text}
           i == Least(is)
           b == IF k = 1 THEN st.seen[f].base ELSE NoTask
           u == UserDoing(acc.tree[i].kids, t.kids, b.kids)
           new == MergeRoot(acc, st, f, roots, k)
           text == IF t.text # b.text THEN t.text ELSE acc.tree[i].text
           kids == MergeKids(acc.tree[i].kids, t.kids, b.kids)
<1>1. new = IF is = {} THEN [acc EXCEPT !.tree = Append(@, Root(f, NextIndex(@), t))]
            ELSE [tree |-> [acc.tree EXCEPT ![i].text = IF t.text # b.text THEN t.text ELSE @,
                                            ![i].kids = MergeKids(@, t.kids, b.kids)],
                  user |-> IF u = 0 THEN acc.user ELSE <<i, u>>]
  BY DEF MergeRoot
<1>2. t \in Tasks /\ EvOf(t.kids) = EvOf(roots[k].kids)
  BY ParseIs
<1>3. st.tree \in Seq(Roots) /\ st.seen[f].base \in Tasks \cup {NoTask}
  BY DEF Stores, Seens
<1>4. mine \in SUBSET Nat /\ mine \subseteq 1 .. Len(st.tree) /\ \A j \in mine : st.tree[j].file = f
  BY <1>3 DEF RootsOf
<1>5. m \in mine
  BY <1>4, LeastOf
<1>6. b.kids \in Seq(Nodes)
  BY <1>3, BaseKids
<1>7. acc.tree \in Seq(Roots) /\ Len(st.tree) \in Nat /\ Len(st.tree) <= Len(acc.tree)
  BY <1>3 DEF Within
<1>8. CASE is = {}
  <2> DEFINE r == Root(f, NextIndex(acc.tree), t)
  <2>1. r \in Roots /\ r.file = f /\ EvOf(r.kids) = EvOf(roots[k].kids)
    BY <1>2, <1>7, TreeIds, RootIs
  <2>2. new = [acc EXCEPT !.tree = Append(acc.tree, r)]
    BY <1>1, <1>8
  <2>3. k # 1
    BY <1>8
  <2> HIDE DEF new, r, is, t, m
  <2>4. IsAcc(new) /\ new.tree = Append(acc.tree, r)
    BY <2>2 DEF IsAcc
  <2>5. /\ new.tree \in Seq(Roots) /\ Len(new.tree) = Len(acc.tree) + 1
        /\ \A j \in 1 .. Len(acc.tree) : new.tree[j] = acc.tree[j]
        /\ new.tree[Len(acc.tree) + 1] = r
    BY <2>1, <2>4, <1>7, AppendProperties
  <2>6. Within(st.tree, new.tree, f)
    <3>1. \A j \in 1 .. Len(st.tree) : j \in 1 .. Len(acc.tree)
      BY <1>7
    <3>2. ASSUME NEW j \in Len(st.tree) + 1 .. Len(new.tree) PROVE new.tree[j].file = f
      <4>1. CASE j = Len(acc.tree) + 1
        BY <4>1, <2>1, <2>5
      <4>2. CASE j # Len(acc.tree) + 1
        <5>1. j \in Len(st.tree) + 1 .. Len(acc.tree)
          BY <4>2, <2>5, <1>7
        <5> QED BY <5>1, <2>5 DEF Within
      <4> QED BY <4>1, <4>2
    <3>3. Len(st.tree) <= Len(new.tree) /\ \A j \in 1 .. Len(st.tree) : new.tree[j] = acc.tree[j]
      BY <3>1, <2>5, <1>7
    <3>4. new.tree \in Seq(Roots)
      BY <2>5
    <3> HIDE DEF mine
    <3> QED BY <3>2, <3>3, <3>4, Zenon DEF Within
  <2>7. new.tree[m] = acc.tree[m]
    BY <2>5, <1>4, <1>5, <1>7
  <2>8. \A j \in 1 .. Len(acc.tree) : j \in 1 .. Len(new.tree) /\ new.tree[j] = acc.tree[j]
    BY <2>5, <1>7
  <2>9. \E j \in 1 .. Len(new.tree) :
            j # m /\ new.tree[j].file = f /\ EvOf(roots[k].kids) \subseteq EvOf(new.tree[j].kids)
    <3>1. Len(acc.tree) + 1 \in 1 .. Len(new.tree) /\ Len(acc.tree) + 1 # m
      BY <2>5, <1>4, <1>5, <1>7
    <3> QED BY <3>1, <2>1, <2>5
  <2> HIDE DEF mine
  <2> QED BY <2>3, <2>4, <2>6, <2>7, <2>8, <2>9 DEF m, mine, new
<1>9. CASE is # {}
  <2>1. is \subseteq mine
    BY <1>5
  <2>2. is \in SUBSET Nat
    BY <2>1, <1>4
  <2>3. i \in is
    <3> HIDE DEF is
    <3> QED BY <1>9, <2>2, LeastOf
  <2>4. (k = 1 => i = m) /\ (k # 1 => i # m)
    BY <2>3
  <2> HIDE DEF is, i, b, t, m, mine
  <2>5. i \in 1 .. Len(st.tree) /\ i \in 1 .. Len(acc.tree) /\ st.tree[i].file = f
    BY <2>1, <2>3, <1>4, <1>7
  <2> DEFINE r == acc.tree[i]
  <2>6. r \in Roots /\ r.kids \in Seq(Nodes) /\ t.kids \in Seq(Nodes) /\ t.text \in Texts
    <3>1. r \in Roots
      BY <2>5, <1>7
    <3> HIDE DEF r
    <3> QED BY <3>1, <1>2 DEF Roots, Tasks
  <2>7. kids \in Seq(Nodes) /\ EvOf(t.kids) \subseteq EvOf(kids) /\ EvOf(r.kids) \subseteq EvOf(kids) \cup EvOf(b.kids)
    BY <2>6, <1>6, MergeKidsIs
  <2> DEFINE tree == [acc.tree EXCEPT ![i].text = IF t.text # b.text THEN t.text ELSE @,
                                      ![i].kids = MergeKids(@, t.kids, b.kids)]
             one == [r EXCEPT !.text = text, !.kids = kids]
  <2>8. tree = [acc.tree EXCEPT ![i] = one]
    BY <2>5, <2>6, <1>7 DEF Roots
  <2>9. one \in Roots /\ one.file = r.file /\ one.kids = kids
    <3>1. text \in Texts
      BY <2>6 DEF Roots
    <3> HIDE DEF text, kids, r
    <3> QED BY <2>6, <2>7, <3>1 DEF Roots
  <2>10. new = [tree |-> tree, user |-> IF u = 0 THEN acc.user ELSE <<i, u>>]
    BY <1>1, <1>9 DEF i
  <2> HIDE DEF new, u, tree, one, kids
  <2>11. IsAcc(new) /\ new.tree = tree
    BY <2>10 DEF IsAcc
  <2>12. /\ tree \in Seq(Roots) /\ Len(tree) = Len(acc.tree) /\ tree[i] = one
         /\ \A j \in 1 .. Len(acc.tree) : j # i => tree[j] = acc.tree[j]
    BY <2>5, <2>8, <2>9, <1>7
  <2>13. Within(st.tree, new.tree, f)
    <3>1. tree[i].file = acc.tree[i].file /\ st.tree[i].file = f
      BY <2>5, <2>9, <2>12 DEF r
    <3>2. /\ Len(st.tree) <= Len(acc.tree) /\ Len(st.tree) \in Nat /\ Len(acc.tree) \in Nat
          /\ \A j \in 1 .. Len(st.tree) :
                /\ acc.tree[j].file = st.tree[j].file
                /\ st.tree[j].file # f => EvOf(acc.tree[j].kids) = EvOf(st.tree[j].kids)
          /\ \A j \in Len(st.tree) + 1 .. Len(acc.tree) : acc.tree[j].file = f
      BY <1>7 DEF Within
    <3>3. \A j \in 1 .. Len(acc.tree) : tree[j].file = acc.tree[j].file
      BY <3>1, <2>12
    <3>4. ASSUME NEW j \in 1 .. Len(st.tree)
          PROVE  /\ tree[j].file = st.tree[j].file
                 /\ st.tree[j].file # f => EvOf(tree[j].kids) = EvOf(st.tree[j].kids)
      <4>1. j \in 1 .. Len(acc.tree)
        BY <3>2
      <4>2. st.tree[j].file # f => tree[j] = acc.tree[j]
        BY <4>1, <3>1, <2>12
      <4> QED BY <4>1, <4>2, <3>2, <3>3
    <3>5. ASSUME NEW j \in Len(st.tree) + 1 .. Len(tree) PROVE tree[j].file = f
      <4>1. j \in 1 .. Len(acc.tree) /\ j \in Len(st.tree) + 1 .. Len(acc.tree)
        BY <3>2, <2>12
      <4> QED BY <4>1, <3>2, <3>3
    <3>6. tree \in Seq(Roots) /\ Len(st.tree) <= Len(tree)
      BY <3>2, <2>12
    <3> QED BY <3>4, <3>5, <3>6, <2>11 DEF Within
  <2>14. k = 1 => EvOf(roots[1].kids) \subseteq EvOf(new.tree[m].kids)
    BY <2>4, <2>7, <2>9, <2>11, <2>12, <1>2
  <2>15. k # 1 => new.tree[m].kids = acc.tree[m].kids
    <3>1. m \in 1 .. Len(acc.tree)
      BY <1>4, <1>5, <1>7
    <3> QED BY <3>1, <2>4, <2>11, <2>12
  <2>16. ASSUME NEW j \in 1 .. Len(acc.tree)
         PROVE  /\ j \in 1 .. Len(new.tree) /\ new.tree[j].file = acc.tree[j].file
                /\ EvOf(acc.tree[j].kids) \subseteq
                       EvOf(new.tree[j].kids) \cup (IF k = 1 /\ j = m THEN EvOf(st.seen[f].base.kids) ELSE {})
    <3>1. CASE j # i
      BY <3>1, <2>11, <2>12, <1>7
    <3>2. CASE j = i
      <4>1. k # 1 => EvOf(b.kids) = {}
        BY DEF b, NoTask, EvOf
      <4>2. k = 1 => EvOf(b.kids) = EvOf(st.seen[f].base.kids)
        BY DEF b
      <4>3. new.tree[j].file = acc.tree[j].file /\ new.tree[j].kids = kids /\ acc.tree[j] = r
        BY <3>2, <2>9, <2>11, <2>12
      <4> QED BY <3>2, <4>1, <4>2, <4>3, <2>4, <2>7, <2>11, <2>12, <1>7
    <3> QED BY <3>1, <3>2
  <2>17. k # 1 => \E j \in 1 .. Len(new.tree) :
             j # m /\ new.tree[j].file = f /\ EvOf(roots[k].kids) \subseteq EvOf(new.tree[j].kids)
    <3>1. new.tree[i].file = f /\ new.tree[i].kids = kids /\ i \in 1 .. Len(new.tree)
      <4>1. acc.tree[i].file = f
        BY <2>5 DEF Within
      <4> QED BY <4>1, <2>5, <2>9, <2>11, <2>12, <1>7 DEF r
    <3> QED BY <3>1, <2>4, <2>7, <1>2
  <2> QED BY <2>11, <2>13, <2>14, <2>15, <2>16, <2>17 DEF m, mine, new
<1> QED BY <1>8, <1>9

\* The tasks of the document, one after another.
MergingRoots(st, f, roots, n, up) ==
    up = [k \in 0 .. n |-> IF k = 0 THEN [tree |-> st.tree, user |-> <<>>]
                           ELSE MergeRoot(up[k - 1], st, f, roots, k)]
LEMMA MergeRootsUp ==
    ASSUME NEW st, NEW f, NEW roots, Len(roots) \in Nat
    PROVE  \E up : /\ MergeRoots(st, f, roots) = Displace(up[Len(roots)].tree, up[Len(roots)].user)
                   /\ up[0] = [tree |-> st.tree, user |-> <<>>]
                   /\ \A k \in 1 .. Len(roots) : up[k] = MergeRoot(up[k - 1], st, f, roots, k)
<1> DEFINE D == {n \in Nat : \E up : MergingRoots(st, f, roots, n, up)}
<1>1. 0 \in D
  <2>1. MergingRoots(st, f, roots, 0, [k \in 0 .. 0 |-> [tree |-> st.tree, user |-> <<>>]])
    BY DEF MergingRoots
  <2> QED BY <2>1
<1>2. ASSUME NEW n \in Nat, n \in D PROVE n + 1 \in D
  <2>1. PICK u : MergingRoots(st, f, roots, n, u)
    BY <1>2
  <2> DEFINE v == [k \in 0 .. n + 1 |-> IF k <= n THEN u[k] ELSE MergeRoot(u[n], st, f, roots, k)]
  <2>2. \A k \in 0 .. n : u[k] = IF k = 0 THEN [tree |-> st.tree, user |-> <<>>]
                                 ELSE MergeRoot(u[k - 1], st, f, roots, k)
    BY <2>1 DEF MergingRoots
  <2>3. \A k \in 0 .. n + 1 : v[k] = IF k = 0 THEN [tree |-> st.tree, user |-> <<>>]
                                     ELSE MergeRoot(v[k - 1], st, f, roots, k)
    <3>1. \A k \in 0 .. n : v[k] = u[k]
      OBVIOUS
    <3>2. v[n + 1] = MergeRoot(v[n], st, f, roots, n + 1)
      OBVIOUS
    <3> HIDE DEF v
    <3>3. \A k \in 0 .. n : v[k] = IF k = 0 THEN [tree |-> st.tree, user |-> <<>>]
                                   ELSE MergeRoot(v[k - 1], st, f, roots, k)
      BY <2>2, <3>1
    <3>4. \A k \in 0 .. n + 1 : k \in 0 .. n \/ (k = n + 1 /\ k # 0 /\ k - 1 = n)
      OBVIOUS
    <3> QED BY <3>2, <3>3, <3>4
  <2>4. MergingRoots(st, f, roots, n + 1, v)
    BY <2>3 DEF MergingRoots
  <2> QED BY <2>4
<1> HIDE DEF D
<1>3. Len(roots) \in D
  BY <1>1, <1>2, Induction
<1> DEFINE u == CHOOSE up : MergingRoots(st, f, roots, Len(roots), up)
<1>4. MergeRoots(st, f, roots) = Displace(u[Len(roots)].tree, u[Len(roots)].user)
  BY DEF MergeRoots, MergingRoots
<1>5. MergingRoots(st, f, roots, Len(roots), u)
  BY <1>3 DEF D
<1> HIDE DEF u
<1>6. \A k \in 0 .. Len(roots) : u[k] = IF k = 0 THEN [tree |-> st.tree, user |-> <<>>]
                                        ELSE MergeRoot(u[k - 1], st, f, roots, k)
  BY <1>5 DEF MergingRoots
<1>7. u[0] = [tree |-> st.tree, user |-> <<>>] /\ \A k \in 1 .. Len(roots) : u[k] = MergeRoot(u[k - 1], st, f, roots, k)
  BY <1>6
<1> QED BY <1>4, <1>7

\* Taking doing marks back changes no evidence.
LEMMA DisplaceIs ==
    ASSUME NEW tree \in Seq(Roots), NEW user
    PROVE  Alike(tree, Displace(tree, user))
<1> DEFINE Marked(i) == [k \in DOMAIN tree[i].kids |->
                          IF tree[i].kids[k].st = "doing" /\ <<i, k>> # user
                          THEN [tree[i].kids[k] EXCEPT !.st = "todo"] ELSE tree[i].kids[k]]
           One(i) == [tree[i] EXCEPT !.kids = Marked(i)]
           new == [i \in DOMAIN tree |-> One(i)]
<1>1. CASE user = <<>>
  BY <1>1 DEF Displace, Alike
<1>2. CASE user # <<>>
  <2>1. Displace(tree, user) = new
    BY <1>2 DEF Displace
  <2>2. ASSUME NEW i \in DOMAIN tree
        PROVE  One(i) \in Roots /\ One(i).file = tree[i].file /\ EvOf(One(i).kids) = EvOf(tree[i].kids)
    <3> DEFINE r == tree[i]
    <3>1. r \in Roots
      OBVIOUS
    <3>2. r.kids \in Seq(Nodes)
      <4> HIDE DEF r
      <4> QED BY <3>1 DEF Roots
    <3>3. \A k \in DOMAIN r.kids : Marked(i)[k] \in Nodes /\ Marked(i)[k].ev = r.kids[k].ev
      <4> SUFFICES ASSUME NEW k \in DOMAIN r.kids PROVE Marked(i)[k] \in Nodes /\ Marked(i)[k].ev = r.kids[k].ev
        OBVIOUS
      <4> DEFINE n == r.kids[k]
      <4>1. n \in Nodes
        BY <3>2
      <4>2. Marked(i)[k] = IF n.st = "doing" /\ <<i, k>> # user THEN [n EXCEPT !.st = "todo"] ELSE n
        OBVIOUS
      <4> HIDE DEF n, Marked
      <4>3. [n EXCEPT !.st = "todo"] \in Nodes /\ [n EXCEPT !.st = "todo"].ev = n.ev
        BY <4>1 DEF Nodes, Statuses
      <4> QED BY <4>1, <4>2, <4>3 DEF n
    <3>4. DOMAIN Marked(i) = DOMAIN r.kids /\ Marked(i) = [k \in 1 .. Len(r.kids) |-> Marked(i)[k]]
      BY <3>2
    <3>5. One(i) = [r EXCEPT !.kids = Marked(i)]
      OBVIOUS
    <3> HIDE DEF r, Marked, One
    <3>6. DOMAIN r.kids = 1 .. Len(r.kids) /\ Len(r.kids) \in Nat
      BY <3>2
    <3>7. Marked(i) \in Seq(Nodes)
      BY <3>3, <3>4, <3>6, IsSequence
    <3>8. EvOf(Marked(i)) = EvOf(r.kids)
      BY <3>3, <3>4, EvAlike
    <3>9. One(i) \in Roots /\ One(i).file = r.file /\ One(i).kids = Marked(i)
      BY <3>1, <3>5, <3>7 DEF Roots
    <3> QED BY <3>8, <3>9 DEF r
  <2>3. DOMAIN tree = 1 .. Len(tree) /\ Len(tree) \in Nat
    OBVIOUS
  <2> HIDE DEF One
  <2>4. new \in Seq(Roots) /\ Len(new) = Len(tree)
    BY <2>2, <2>3
  <2>5. \A i \in 1 .. Len(tree) : new[i] = One(i)
    BY <2>3
  <2> QED BY <2>1, <2>2, <2>3, <2>4, <2>5 DEF Alike
<1> QED BY <1>1, <1>2

\* A root loses nothing but what the base has, and each task of the document
\* after its first has a root that is not m.
Gains(old, new, f, m, roots, base) ==
    /\ \A i \in 1 .. Len(old) :
          EvOf(old[i].kids) \subseteq EvOf(new[i].kids) \cup (IF i = m THEN EvOf(base) ELSE {})
    /\ \A k \in 2 .. Len(roots) : \E i \in 1 .. Len(new) :
          i # m /\ new[i].file = f /\ EvOf(roots[k].kids) \subseteq EvOf(new[i].kids)

LEMMA MergeRootsIs ==
    ASSUME NEW st \in Stores, NEW f \in Files, NEW roots \in Seq(Tasks), roots # <<>>,
           RootsOf(st.tree, f) # {}
    PROVE  /\ Merged(st.tree, MergeRoots(st, f, roots), f, Least(RootsOf(st.tree, f)), roots[1].kids)
           /\ Gains(st.tree, MergeRoots(st, f, roots), f, Least(RootsOf(st.tree, f)), roots, st.seen[f].base.kids)
<1> DEFINE m == Least(RootsOf(st.tree, f))  n == Len(roots)
<1>0. n \in Nat /\ n >= 1 /\ st.tree \in Seq(Roots) /\ Len(st.tree) \in Nat
  BY DEF Stores
<1>1. PICK up : /\ MergeRoots(st, f, roots) = Displace(up[n].tree, up[n].user)
                /\ up[0] = [tree |-> st.tree, user |-> <<>>]
                /\ \A k \in 1 .. n : up[k] = MergeRoot(up[k - 1], st, f, roots, k)
  BY <1>0, MergeRootsUp
<1> DEFINE Well(k) == /\ IsAcc(up[k]) /\ Within(st.tree, up[k].tree, f)
                      /\ k >= 1 => EvOf(roots[1].kids) \subseteq EvOf(up[k].tree[m].kids)
           Has(k) == /\ \A j \in 1 .. Len(st.tree) : EvOf(st.tree[j].kids) \subseteq
                            EvOf(up[k].tree[j].kids) \cup (IF j = m THEN EvOf(st.seen[f].base.kids) ELSE {})
                     /\ \A q \in 2 .. k : \E i \in 1 .. Len(up[k].tree) :
                            i # m /\ up[k].tree[i].file = f /\ EvOf(roots[q].kids) \subseteq EvOf(up[k].tree[i].kids)
           D == {k \in Nat : k <= n => Well(k) /\ Has(k)}
<1>2. 0 \in D
  BY <1>0, <1>1 DEF IsAcc, Within
<1> HIDE DEF Well, Has
<1>3. ASSUME NEW k \in Nat, k \in D PROVE k + 1 \in D
  <2> SUFFICES ASSUME k + 1 <= n PROVE Well(k + 1) /\ Has(k + 1)
    OBVIOUS
  <2>1. Well(k) /\ Has(k)
    BY <1>3
  <2>2. up[k + 1] = MergeRoot(up[k], st, f, roots, k + 1) /\ k + 1 \in 1 .. Len(roots)
    BY <1>1
  <2> HIDE DEF m
  <2>3. IsAcc(up[k]) /\ Within(st.tree, up[k].tree, f)
    BY <2>1 DEF Well
  <2>4. /\ IsAcc(up[k + 1]) /\ Within(st.tree, up[k + 1].tree, f)
        /\ k + 1 = 1 => EvOf(roots[1].kids) \subseteq EvOf(up[k + 1].tree[m].kids)
        /\ k + 1 # 1 => up[k + 1].tree[m].kids = up[k].tree[m].kids
        /\ \A j \in 1 .. Len(up[k].tree) :
              /\ j \in 1 .. Len(up[k + 1].tree) /\ up[k + 1].tree[j].file = up[k].tree[j].file
              /\ EvOf(up[k].tree[j].kids) \subseteq
                     EvOf(up[k + 1].tree[j].kids) \cup (IF k + 1 = 1 /\ j = m THEN EvOf(st.seen[f].base.kids) ELSE {})
        /\ k + 1 # 1 => \E j \in 1 .. Len(up[k + 1].tree) :
              j # m /\ up[k + 1].tree[j].file = f /\ EvOf(roots[k + 1].kids) \subseteq EvOf(up[k + 1].tree[j].kids)
    <3> DEFINE acc == up[k]  w == k + 1  next == MergeRoot(acc, st, f, roots, w)
    <3>1. w \in 1 .. Len(roots) /\ IsAcc(acc) /\ Within(st.tree, acc.tree, f) /\ up[k + 1] = next
      BY <2>2, <2>3
    <3> HIDE DEF acc, w
    <3>2. /\ IsAcc(next) /\ Within(st.tree, next.tree, f)
          /\ w = 1 => EvOf(roots[1].kids) \subseteq EvOf(next.tree[m].kids)
          /\ w # 1 => next.tree[m].kids = acc.tree[m].kids
          /\ \A j \in 1 .. Len(acc.tree) :
                /\ j \in 1 .. Len(next.tree) /\ next.tree[j].file = acc.tree[j].file
                /\ EvOf(acc.tree[j].kids) \subseteq
                       EvOf(next.tree[j].kids) \cup (IF w = 1 /\ j = m THEN EvOf(st.seen[f].base.kids) ELSE {})
          /\ w # 1 => \E j \in 1 .. Len(next.tree) :
                j # m /\ next.tree[j].file = f /\ EvOf(roots[w].kids) \subseteq EvOf(next.tree[j].kids)
      BY <3>1, MergeRootIs DEF m
    <3> HIDE DEF next
    <3> QED BY <3>1, <3>2 DEF acc, w
  <2>5. Well(k + 1)
    BY <2>1, <2>4 DEF Well
  <2>6. ASSUME NEW j \in 1 .. Len(st.tree)
        PROVE  EvOf(st.tree[j].kids) \subseteq
                   EvOf(up[k + 1].tree[j].kids) \cup (IF j = m THEN EvOf(st.seen[f].base.kids) ELSE {})
    <3>1. j \in 1 .. Len(up[k].tree)
      BY <1>0, <2>3 DEF Within
    <3> QED BY <3>1, <2>1, <2>4 DEF Has
  <2>7. ASSUME NEW q \in 2 .. k + 1
        PROVE  \E i \in 1 .. Len(up[k + 1].tree) :
                   i # m /\ up[k + 1].tree[i].file = f /\ EvOf(roots[q].kids) \subseteq EvOf(up[k + 1].tree[i].kids)
    <3>1. CASE q = k + 1
      BY <3>1, <2>4
    <3>2. CASE q # k + 1
      <4>1. q \in 2 .. k
        BY <3>2
      <4>2. PICK i \in 1 .. Len(up[k].tree) :
                i # m /\ up[k].tree[i].file = f /\ EvOf(roots[q].kids) \subseteq EvOf(up[k].tree[i].kids)
        BY <4>1, <2>1 DEF Has
      <4>3. /\ i \in 1 .. Len(up[k + 1].tree) /\ up[k + 1].tree[i].file = f
            /\ EvOf(up[k].tree[i].kids) \subseteq EvOf(up[k + 1].tree[i].kids)
        BY <4>2, <2>4
      <4> QED BY <4>2, <4>3
    <3> QED BY <3>1, <3>2
  <2> QED BY <2>5, <2>6, <2>7 DEF Has
<1> HIDE DEF D
<1>4. n \in D
  BY <1>0, <1>2, <1>3, Induction
<1>5. Well(n) /\ Has(n)
  BY <1>4 DEF D
<1>6. Alike(up[n].tree, MergeRoots(st, f, roots))
  BY <1>1, <1>5, DisplaceIs DEF Within, Well
<1>7. m \in 1 .. Len(st.tree) /\ st.tree[m].file = f /\ \A j \in 1 .. m - 1 : st.tree[j].file # f
  <2>1. RootsOf(st.tree, f) \in SUBSET Nat
    BY <1>0 DEF RootsOf
  <2>2. m \in RootsOf(st.tree, f) /\ \A y \in RootsOf(st.tree, f) : m <= y
    BY <2>1, LeastOf
  <2> HIDE DEF m
  <2> QED BY <2>2, <1>0 DEF RootsOf
<1> DEFINE new == MergeRoots(st, f, roots)
<1> HIDE DEF m, n, new
<1>8. Within(st.tree, new, f)
  <2>1. \A i \in 1 .. Len(st.tree) : i \in 1 .. Len(up[n].tree)
    BY <1>0, <1>5 DEF Within, Well
  <2>2. \A i \in Len(st.tree) + 1 .. Len(new) : i \in 1 .. Len(up[n].tree)
    BY <1>0, <1>5, <1>6 DEF Within, Alike, new, Well
  <2> QED BY <2>1, <2>2, <1>0, <1>5, <1>6 DEF Within, Alike, new, Well
<1>9. m \in 1 .. Len(new) /\ IsFirst(new, f, m)
  <2>1. Len(st.tree) <= Len(new) /\ Len(new) \in Nat /\ \A j \in 1 .. Len(st.tree) : new[j].file = st.tree[j].file
    BY <1>0, <1>8 DEF Within
  <2> QED BY <2>1, <1>0, <1>7 DEF IsFirst
<1>10. EvOf(roots[1].kids) \subseteq EvOf(new[m].kids)
  <2>1. m \in 1 .. Len(up[n].tree) /\ n >= 1
    BY <1>0, <1>5, <1>7 DEF Within, n, Well
  <2> QED BY <2>1, <1>5, <1>6 DEF Alike, new, Well
<1>11. Gains(st.tree, new, f, m, roots, st.seen[f].base.kids)
  <2>1. \A j \in 1 .. Len(st.tree) : j \in 1 .. Len(up[n].tree)
    BY <1>0, <1>5 DEF Within, Well
  <2>2. Len(new) = Len(up[n].tree) /\ \A j \in 1 .. Len(up[n].tree) : new[j].file = up[n].tree[j].file /\ EvOf(new[j].kids) = EvOf(up[n].tree[j].kids)
    BY <1>6 DEF Alike, new
  <2>3. \A j \in 1 .. Len(st.tree) : EvOf(st.tree[j].kids) \subseteq
            EvOf(new[j].kids) \cup (IF j = m THEN EvOf(st.seen[f].base.kids) ELSE {})
    BY <1>5, <2>1, <2>2 DEF Has
  <2>4. \A q \in 2 .. Len(roots) : \E i \in 1 .. Len(new) :
            i # m /\ new[i].file = f /\ EvOf(roots[q].kids) \subseteq EvOf(new[i].kids)
    BY <1>5, <2>2 DEF n, Has
  <2> QED BY <2>3, <2>4 DEF Gains
<1> QED BY <1>8, <1>9, <1>10, <1>11 DEF Merged, m, new

\* Roots put after a tree that has none of their file.
LEMMA AppendedIs ==
    ASSUME NEW tree \in Seq(Roots), NEW more \in Seq(Roots), NEW f \in Files, NEW roots, NEW base,
           RootsOf(tree, f) = {}, more # <<>>, Len(more) = Len(roots),
           \A k \in 1 .. Len(more) : more[k].file = f /\ EvOf(more[k].kids) = EvOf(roots[k].kids)
    PROVE  /\ Merged(tree, tree \o more, f, Len(tree) + 1, roots[1].kids)
           /\ Gains(tree, tree \o more, f, Len(tree) + 1, roots, base)
           /\ EvOf((tree \o more)[Len(tree) + 1].kids) = EvOf(roots[1].kids)
<1> DEFINE new == tree \o more  m == Len(tree) + 1
<1>1. /\ new \in Seq(Roots) /\ Len(new) = Len(tree) + Len(more)
      /\ \A i \in 1 .. Len(tree) + Len(more) : new[i] =
             IF i <= Len(tree) THEN tree[i] ELSE more[i - Len(tree)]
  BY ConcatProperties
<1>2. Len(tree) \in Nat /\ Len(more) \in Nat /\ Len(more) >= 1
  OBVIOUS
<1> HIDE DEF new
<1>3. ASSUME NEW i \in 1 .. Len(tree) PROVE new[i] = tree[i] /\ new[i].file # f
  <2>1. new[i] = tree[i] /\ i \in DOMAIN tree
    BY <1>1, <1>2
  <2> QED BY <2>1 DEF RootsOf
<1>4. \A i \in Len(tree) + 1 .. Len(new) : i - Len(tree) \in 1 .. Len(more) /\ new[i] = more[i - Len(tree)]
  BY <1>1, <1>2
<1>5. Within(tree, new, f)
  BY <1>1, <1>2, <1>3, <1>4 DEF Within
<1>6. m \in Len(tree) + 1 .. Len(new) /\ m \in 1 .. Len(new) /\ m - Len(tree) = 1
  BY <1>1, <1>2
<1>7. new[m] = more[1] /\ 1 \in 1 .. Len(more)
  BY <1>2, <1>4, <1>6
<1>8. IsFirst(new, f, m)
  BY <1>2, <1>3, <1>7 DEF IsFirst
<1>9. ASSUME NEW k \in 2 .. Len(roots)
      PROVE  \E i \in 1 .. Len(new) : i # m /\ new[i].file = f /\ EvOf(roots[k].kids) \subseteq EvOf(new[i].kids)
  <2>1. k \in 1 .. Len(more) /\ Len(tree) + k \in Len(tree) + 1 .. Len(new) /\ Len(tree) + k \in 1 .. Len(new)
        /\ Len(tree) + k - Len(tree) = k /\ Len(tree) + k # m
    BY <1>1, <1>2
  <2>2. new[Len(tree) + k] = more[k]
    BY <2>1, <1>4
  <2> QED BY <2>1, <2>2
<1>10. Gains(tree, new, f, m, roots, base)
  BY <1>3, <1>9 DEF Gains
<1> QED BY <1>5, <1>6, <1>7, <1>8, <1>10 DEF Merged, new, m

LEMMA JoinIs ==
    ASSUME NEW st \in Stores, NEW f \in Files, NEW roots \in Seq(Tasks), roots # <<>>,
           RootsOf(st.tree, f) = {}
    PROVE  /\ Join(st, f, roots) = [st EXCEPT !.tree = Join(st, f, roots).tree]
           /\ Merged(st.tree, Join(st, f, roots).tree, f, Len(st.tree) + 1, roots[1].kids)
           /\ Gains(st.tree, Join(st, f, roots).tree, f, Len(st.tree) + 1, roots, st.seen[f].base.kids)
<1> DEFINE One(k) == Root(f, NextIndex(st.tree) + k - 1, Parse(roots[k]))
           more == [k \in DOMAIN roots |-> One(k)]
<1>1. Join(st, f, roots) = [st EXCEPT !.tree = st.tree \o more] /\ Join(st, f, roots).tree = st.tree \o more
  BY DEF Join, Stores
<1>2. st.tree \in Seq(Roots) /\ Len(roots) \in Nat /\ Len(roots) >= 1
  BY DEF Stores
<1>3. ASSUME NEW k \in DOMAIN roots
      PROVE  One(k) \in Roots /\ One(k).file = f /\ EvOf(One(k).kids) = EvOf(roots[k].kids)
  <2>1. NextIndex(st.tree) + k - 1 \in Nat
    BY <1>2, TreeIds
  <2>2. Parse(roots[k]) \in Tasks /\ EvOf(Parse(roots[k]).kids) = EvOf(roots[k].kids)
    BY ParseIs
  <2> QED BY <2>1, <2>2, RootIs
<1> HIDE DEF One
<1>4. more \in Seq(Roots) /\ Len(more) = Len(roots) /\ \A k \in 1 .. Len(roots) : more[k] = One(k)
  BY <1>3
<1> HIDE DEF more
<1>5. more # <<>> /\ \A k \in 1 .. Len(more) : more[k].file = f /\ EvOf(more[k].kids) = EvOf(roots[k].kids)
  BY <1>2, <1>3, <1>4
<1>6. /\ Merged(st.tree, st.tree \o more, f, Len(st.tree) + 1, roots[1].kids)
      /\ Gains(st.tree, st.tree \o more, f, Len(st.tree) + 1, roots, st.seen[f].base.kids)
  BY <1>2, <1>4, <1>5, AppendedIs
<1> QED BY <1>1, <1>6

-----------------------------------------------------------------------------
(* What holds of a store *)

\* The first root of a document the store has seen has all its lines; while
\* the store is not dirty it has no others, and every root has a document.
Shown(doc) == doc.is = "tasks" /\ doc # Bare
HasSeen(st) ==
    \A f \in Files : \A i \in 1 .. Len(st.tree) :
        IsFirst(st.tree, f, i) /\ Shown(st.seen[f].doc) =>
            EvOf(st.seen[f].doc.roots[1].kids) \subseteq EvOf(st.tree[i].kids)
NoneElse(st) ==
    /\ \A i \in 1 .. Len(st.tree) : st.tree[i].file # NoFile
    /\ \A f \in Files : \A i \in 1 .. Len(st.tree) :
          IsFirst(st.tree, f, i) /\ Shown(st.seen[f].doc) =>
              EvOf(st.tree[i].kids) \subseteq EvOf(st.seen[f].doc.roots[1].kids)
Good(st) == st \in Stores /\ HasSeen(st) /\ (~st.dirty => NoneElse(st))
\* A step of a store that forgets no change and keeps the session.
Keeps(old, new) == (old.dirty => new.dirty) /\ new.up = old.up

LEMMA ShownIs ==
    ASSUME NEW c \in Contents, Shown(c)
    PROVE  c = Doc(c.roots) /\ c.roots \in Seq(Tasks) /\ c.roots # <<>> /\ c.roots[1] \in Tasks
<1>1. c \in [is : {"tasks"}, roots : Seq(Tasks)]
  BY DEF Contents, Shown, Bad, NoDoc
<1>2. c = Doc(c.roots) /\ c.roots \in Seq(Tasks)
  BY <1>1 DEF Doc
<1>3. c.roots # <<>>
  BY <1>2 DEF Shown, Bare
<1> QED BY <1>2, <1>3

LEMMA DirtyIsGood ==
    ASSUME NEW st, Good(st)
    PROVE  Good(MarkDirty(st)) /\ Keeps(st, MarkDirty(st)) /\ MarkDirty(st).moved /\ MarkDirty(st).dirty
<1> DEFINE new == MarkDirty(st)
<1>1. new = [st EXCEPT !.dirty = TRUE, !.moved = TRUE] /\ st \in Stores
  BY DEF MarkDirty, Good
<1> HIDE DEF new
<1>2. /\ new \in Stores /\ new.tree = st.tree /\ new.seen = st.seen /\ new.up = st.up
      /\ new.dirty /\ new.moved
  BY <1>1 DEF Stores
<1> QED BY <1>2 DEF Good, HasSeen, Keeps, new

LEMMA BaseIs ==
    ASSUME NEW c \in Contents, Shown(c)
    PROVE  [doc |-> c, base |-> Parse(c.roots[1])] \in Seens
<1>1. Parse(c.roots[1]) \in Tasks
  BY ShownIs, ParseIs
<1> QED BY <1>1 DEF Seens

\* A document seen and merged: all its lines are there, and if the store is
\* not to be written afterwards there are no others.
LEMMA SeenIsGood ==
    ASSUME NEW st, Good(st), NEW f \in Files, NEW c, NEW tree, NEW m,
           Merged(st.tree, tree, f, m, c.roots[1].kids),
           NEW new \in Stores, new.tree = tree, Keeps(st, new),
           new.seen[f].doc = c, \A g \in Files \ {f} : new.seen[g] = st.seen[g],
           ~new.dirty => EvOf(tree[m].kids) \subseteq EvOf(c.roots[1].kids)
    PROVE  Good(new)
<1>1. tree \in Seq(Roots) /\ st.tree \in Seq(Roots)
  BY DEF Good, Stores
<1>2. /\ Len(st.tree) \in Nat /\ Len(tree) \in Nat /\ Len(st.tree) <= Len(tree)
      /\ m \in 1 .. Len(tree) /\ IsFirst(tree, f, m)
      /\ EvOf(c.roots[1].kids) \subseteq EvOf(tree[m].kids)
  BY <1>1 DEF Merged, Within
<1>3. ASSUME NEW i \in 1 .. Len(tree), IsFirst(tree, f, i) PROVE i = m
  BY <1>2, <1>3 DEF IsFirst
<1>4. ASSUME NEW g \in Files \ {f}, NEW i \in 1 .. Len(tree), IsFirst(tree, g, i)
      PROVE  i \in 1 .. Len(st.tree) /\ IsFirst(st.tree, g, i) /\ EvOf(tree[i].kids) = EvOf(st.tree[i].kids)
  <2>1. tree[i].file = g
    BY <1>4 DEF IsFirst
  <2>2. i \in 1 .. Len(st.tree)
    <3>1. i \in 1 .. Len(st.tree) \/ i \in Len(st.tree) + 1 .. Len(tree)
      BY <1>2
    <3> QED BY <3>1, <2>1, <1>4 DEF Merged, Within
  <2>3. \A j \in 1 .. i : tree[j].file = st.tree[j].file
    BY <1>2, <2>2 DEF Merged, Within
  <2>4. IsFirst(st.tree, g, i)
    <3>1. tree[i].file = g /\ \A j \in 1 .. i - 1 : tree[j].file # g
      BY <1>4 DEF IsFirst
    <3>2. i \in 1 .. i /\ \A j \in 1 .. i - 1 : j \in 1 .. i
      BY <2>2, <1>2
    <3>3. st.tree[i].file = g /\ \A j \in 1 .. i - 1 : st.tree[j].file # g
      BY <2>3, <3>1, <3>2
    <3> QED BY <2>2, <3>3 DEF IsFirst
  <2>5. st.tree[i].file # f
    BY <1>2, <2>1, <2>2, <2>3
  <2> QED BY <2>2, <2>4, <2>5 DEF Merged, Within
<1>5. HasSeen(new)
  <2> SUFFICES ASSUME NEW g \in Files, NEW i \in 1 .. Len(tree), IsFirst(tree, g, i), Shown(new.seen[g].doc)
               PROVE  EvOf(new.seen[g].doc.roots[1].kids) \subseteq EvOf(tree[i].kids)
    BY DEF HasSeen
  <2>1. CASE g = f
    BY <2>1, <1>2, <1>3
  <2>2. CASE g # f
    BY <2>2, <1>4 DEF Good, HasSeen
  <2> QED BY <2>1, <2>2
<1>6. ASSUME ~new.dirty PROVE NoneElse(new)
  <2>1. NoneElse(st)
    BY <1>6 DEF Good, Keeps
  <2>2. ASSUME NEW i \in 1 .. Len(tree) PROVE tree[i].file # NoFile
    <3>1. CASE i \in 1 .. Len(st.tree)
      BY <3>1, <2>1 DEF NoneElse, Merged, Within
    <3>2. CASE i \in Len(st.tree) + 1 .. Len(tree)
      BY <3>2 DEF Merged, Within, Files, NoFile
    <3> QED BY <3>1, <3>2, <1>2
  <2>3. ASSUME NEW g \in Files, NEW i \in 1 .. Len(tree), IsFirst(tree, g, i), Shown(new.seen[g].doc)
        PROVE  EvOf(tree[i].kids) \subseteq EvOf(new.seen[g].doc.roots[1].kids)
    <3>1. CASE g = f
      BY <3>1, <2>3, <1>3, <1>6
    <3>2. CASE g # f
      BY <3>2, <2>1, <2>3, <1>4 DEF NoneElse
    <3> QED BY <3>1, <3>2
  <2> QED BY <2>2, <2>3 DEF NoneElse
<1> QED BY <1>5, <1>6 DEF Good

LEMMA SeeIs ==
    ASSUME NEW st \in Stores, NEW f \in Files, NEW c \in Contents, Shown(c), NEW tree \in Seq(Roots)
    PROVE  LET new == See([st EXCEPT !.tree = tree], f, c) IN
           /\ new \in Stores /\ new.tree = tree /\ new.up = st.up /\ new.dirty = st.dirty
           /\ new.reserved = st.reserved
           /\ new.seen[f].doc = c /\ EvOf(new.seen[f].base.kids) = EvOf(c.roots[1].kids)
           /\ \A g \in Files \ {f} : new.seen[g] = st.seen[g]
<1> DEFINE seen == [doc |-> c, base |-> Parse(c.roots[1])]
           new == See([st EXCEPT !.tree = tree], f, c)
<1>1. new = [[st EXCEPT !.tree = tree] EXCEPT !.seen[f] = seen]
  BY DEF See
<1>2. seen \in Seens /\ seen.doc = c /\ EvOf(seen.base.kids) = EvOf(c.roots[1].kids)
  BY BaseIs, ShownIs, ParseIs
<1> HIDE DEF new, seen
<1>3. /\ new \in Stores /\ new.tree = tree /\ new.up = st.up /\ new.dirty = st.dirty
      /\ new.reserved = st.reserved /\ new.seen = [st.seen EXCEPT ![f] = seen]
  BY <1>1, <1>2 DEF Stores
<1>4. new.seen[f] = seen /\ \A g \in Files \ {f} : new.seen[g] = st.seen[g]
  BY <1>3 DEF Stores
<1> QED BY <1>2, <1>3, <1>4 DEF new

LEMMA SeenAs ==
    ASSUME NEW st \in Stores, NEW f \in Files, NEW c \in Contents, Shown(c), NEW tree \in Seq(Roots), NEW m
    PROVE  LET new == DirtyIfDiffers(See([st EXCEPT !.tree = tree], f, c), c, m) IN
           /\ new \in Stores /\ new.tree = tree /\ new.up = st.up /\ new.reserved = st.reserved
           /\ new.seen[f].doc = c /\ EvOf(new.seen[f].base.kids) = EvOf(c.roots[1].kids)
           /\ \A g \in Files \ {f} : new.seen[g] = st.seen[g]
           /\ (st.dirty => new.dirty) /\ (~new.dirty => Render(tree[m]) = c)
<1> DEFINE mid == See([st EXCEPT !.tree = tree], f, c)
           new == DirtyIfDiffers(mid, c, m)
<1>1. /\ mid \in Stores /\ mid.tree = tree /\ mid.up = st.up /\ mid.dirty = st.dirty /\ mid.reserved = st.reserved
      /\ mid.seen[f].doc = c /\ EvOf(mid.seen[f].base.kids) = EvOf(c.roots[1].kids)
      /\ \A g \in Files \ {f} : mid.seen[g] = st.seen[g]
  BY SeeIs
<1> HIDE DEF mid
<1>2. /\ new \in Stores /\ new.tree = tree /\ new.up = st.up /\ new.seen = mid.seen /\ new.reserved = st.reserved
      /\ (st.dirty => new.dirty)
      /\ ~new.dirty => Render(tree[m]) = c
  <2>1. CASE Render(mid.tree[m]) # c \/ Len(c.roots) > 1
    <3>1. new = [mid EXCEPT !.dirty = TRUE, !.moved = TRUE]
      BY <2>1 DEF DirtyIfDiffers, MarkDirty
    <3> HIDE DEF new
    <3> QED BY <3>1, <1>1 DEF Stores
  <2>2. CASE ~(Render(mid.tree[m]) # c \/ Len(c.roots) > 1)
    <3>1. new = [mid EXCEPT !.moved = TRUE]
      BY <2>2 DEF DirtyIfDiffers, Changed
    <3> HIDE DEF new
    <3> QED BY <3>1, <1>1, <2>2 DEF Stores
  <2> QED BY <2>1, <2>2
<1> QED BY <1>1, <1>2 DEF mid

LEMMA SeeIsGood ==
    ASSUME NEW st, Good(st), NEW f \in Files, NEW c \in Contents, Shown(c), NEW tree, NEW m,
           Merged(st.tree, tree, f, m, c.roots[1].kids)
    PROVE  LET new == DirtyIfDiffers(See([st EXCEPT !.tree = tree], f, c), c, m) IN
           Good(new) /\ Keeps(st, new)
<1> DEFINE new == DirtyIfDiffers(See([st EXCEPT !.tree = tree], f, c), c, m)
<1>1. st \in Stores /\ tree \in Seq(Roots)
  BY DEF Good, Merged, Within
<1>2. /\ new \in Stores /\ new.tree = tree /\ new.up = st.up
      /\ new.seen[f].doc = c /\ \A g \in Files \ {f} : new.seen[g] = st.seen[g]
      /\ (st.dirty => new.dirty) /\ (~new.dirty => Render(tree[m]) = c)
  BY <1>1, SeenAs
<1> HIDE DEF new
<1>3. ~new.dirty => EvOf(tree[m].kids) \subseteq EvOf(c.roots[1].kids)
  BY <1>2 DEF Render, Doc, Task
<1>4. Keeps(st, new)
  BY <1>2 DEF Keeps
<1>5. Good(new)
  BY <1>2, <1>3, <1>4, SeenIsGood
<1> QED BY <1>4, <1>5 DEF new

\* mergeDoc takes a document that has tasks into the tree, and of another it
\* takes the name or notes that there is something to write.
Takes(st, f, c, tree, m) ==
    /\ Merged(st.tree, tree, f, m, c.roots[1].kids)
    /\ Gains(st.tree, tree, f, m, c.roots, st.seen[f].base.kids)
LEMMA MergeDocIs ==
    ASSUME NEW st \in Stores, NEW f \in Files, NEW c \in Contents, c # NoDoc
    PROVE  \/ MergeDoc(st, f, c) \in {st, MarkDirty(st), [st EXCEPT !.reserved = @ \cup {f}]}
           \/ Shown(c) /\ \E tree, m :
                 /\ Takes(st, f, c, tree, m)
                 /\ MergeDoc(st, f, c) = DirtyIfDiffers(See([st EXCEPT !.tree = tree], f, c), c, m)
<1> DEFINE mine == RootsOf(st.tree, f)
<1>1. CASE c = Bad
  <2>1. c # Bare
    BY <1>1 DEF Bad, Bare, Doc
  <2> QED BY <1>1, <2>1 DEF MergeDoc
<1>2. CASE c = Bare /\ c # Bad
  BY <1>2 DEF MergeDoc
<1>3. CASE c \notin {Bad, Bare}
  <2>1. Shown(c)
    BY <1>3 DEF Shown, Contents
  <2>2. c.roots \in Seq(Tasks) /\ c.roots # <<>>
    BY <2>1, ShownIs
  <2>3. CASE mine = {}
    <3> DEFINE tree == Join(st, f, c.roots).tree  m == Len(st.tree) + 1
    <3>1. Join(st, f, c.roots) = [st EXCEPT !.tree = tree] /\ Takes(st, f, c, tree, m)
      BY <2>2, <2>3, JoinIs DEF Takes
    <3>2. MergeDoc(st, f, c) = DirtyIfDiffers(See(Join(st, f, c.roots), f, c), c, m)
      BY <1>3, <2>3 DEF MergeDoc
    <3> HIDE DEF tree, m
    <3>3. MergeDoc(st, f, c) = DirtyIfDiffers(See([st EXCEPT !.tree = tree], f, c), c, m)
      BY <3>1, <3>2
    <3> QED BY <2>1, <3>1, <3>3
  <2>4. CASE mine # {}
    <3> DEFINE tree == MergeRoots(st, f, c.roots)  m == Least(mine)
    <3>1. Takes(st, f, c, tree, m)
      BY <2>2, <2>4, MergeRootsIs DEF Takes
    <3>2. MergeDoc(st, f, c) = DirtyIfDiffers(See([st EXCEPT !.tree = tree], f, c), c, m)
      BY <1>3, <2>4 DEF MergeDoc
    <3> HIDE DEF tree, m
    <3> QED BY <2>1, <3>1, <3>2
  <2> QED BY <2>3, <2>4
<1> QED BY <1>1, <1>2, <1>3

LEMMA ReservedIsGood ==
    ASSUME NEW st, Good(st), NEW f \in Files
    PROVE  LET new == [st EXCEPT !.reserved = @ \cup {f}] IN
           /\ Good(new) /\ Keeps(st, new) /\ new.tree = st.tree /\ new.seen = st.seen
           /\ new.reserved = st.reserved \cup {f}
<1> DEFINE new == [st EXCEPT !.reserved = @ \cup {f}]
<1>1. /\ new \in Stores /\ new.tree = st.tree /\ new.seen = st.seen /\ new.dirty = st.dirty /\ new.up = st.up
      /\ new.reserved = st.reserved \cup {f}
  BY DEF Good, Stores
<1> HIDE DEF new
<1> QED BY <1>1 DEF Good, HasSeen, NoneElse, Keeps, new

LEMMA MergeDocIsGood ==
    ASSUME NEW st, Good(st), NEW f \in Files, NEW c \in Contents, c # NoDoc
    PROVE  Good(MergeDoc(st, f, c)) /\ Keeps(st, MergeDoc(st, f, c))
<1>1. st \in Stores
  BY DEF Good
<1>2. Good(st) /\ Keeps(st, st)
  BY DEF Keeps
<1>3. ASSUME Shown(c), NEW tree, NEW m, Takes(st, f, c, tree, m),
             MergeDoc(st, f, c) = DirtyIfDiffers(See([st EXCEPT !.tree = tree], f, c), c, m)
      PROVE  Good(MergeDoc(st, f, c)) /\ Keeps(st, MergeDoc(st, f, c))
  BY <1>3, SeeIsGood DEF Takes
<1>4. CASE MergeDoc(st, f, c) = [st EXCEPT !.reserved = @ \cup {f}]
  BY <1>4, ReservedIsGood
<1>5. CASE MergeDoc(st, f, c) = MarkDirty(st)
  BY <1>5, DirtyIsGood
<1>6. CASE MergeDoc(st, f, c) = st
  BY <1>2, <1>6
<1>7. \/ MergeDoc(st, f, c) \in {st, MarkDirty(st), [st EXCEPT !.reserved = @ \cup {f}]}
      \/ Shown(c) /\ \E tree, m :
            /\ Takes(st, f, c, tree, m)
            /\ MergeDoc(st, f, c) = DirtyIfDiffers(See([st EXCEPT !.tree = tree], f, c), c, m)
  BY <1>1, MergeDocIs
<1> QED BY <1>3, <1>4, <1>5, <1>6, <1>7

-----------------------------------------------------------------------------
(* reconcile: all documents that changed, file by file *)
Forget(st, got) == [st EXCEPT !.seen = [f \in Files |-> IF got[f] = NoDoc THEN Unseen ELSE @[f]]]
Reconciling(st, got, n, up) ==
    up = [f \in 0 .. n |-> IF f = 0 THEN Forget(st, got)
                           ELSE IF IsChanged(st, got, f) THEN MergeDoc(up[f - 1], f, got[f]) ELSE up[f - 1]]
LEMMA ReconcileUp ==
    ASSUME NEW st, NEW got
    PROVE  \E up : /\ Reconcile(st, got) = up[MaxFile] /\ up[0] = Forget(st, got)
                   /\ \A f \in 1 .. MaxFile : up[f] = IF IsChanged(st, got, f) THEN MergeDoc(up[f - 1], f, got[f])
                                                      ELSE up[f - 1]
<1> DEFINE D == {n \in Nat : \E up : Reconciling(st, got, n, up)}
<1>1. 0 \in D
  <2>1. Reconciling(st, got, 0, [f \in 0 .. 0 |-> Forget(st, got)])
    BY DEF Reconciling
  <2> QED BY <2>1
<1>2. ASSUME NEW n \in Nat, n \in D PROVE n + 1 \in D
  <2>1. PICK u : Reconciling(st, got, n, u)
    BY <1>2
  <2> DEFINE Next1(f, x) == IF IsChanged(st, got, f) THEN MergeDoc(x, f, got[f]) ELSE x
             v == [f \in 0 .. n + 1 |-> IF f <= n THEN u[f] ELSE Next1(f, u[n])]
  <2>2. \A f \in 0 .. n : u[f] = IF f = 0 THEN Forget(st, got) ELSE Next1(f, u[f - 1])
    BY <2>1 DEF Reconciling
  <2> HIDE DEF Next1
  <2>3. \A f \in 0 .. n + 1 : v[f] = IF f = 0 THEN Forget(st, got) ELSE Next1(f, v[f - 1])
    <3>1. \A f \in 0 .. n : v[f] = u[f]
      OBVIOUS
    <3>2. v[n + 1] = Next1(n + 1, v[n])
      OBVIOUS
    <3> HIDE DEF v
    <3>3. \A f \in 0 .. n : v[f] = IF f = 0 THEN Forget(st, got) ELSE Next1(f, v[f - 1])
      BY <2>2, <3>1
    <3>4. \A f \in 0 .. n + 1 : f \in 0 .. n \/ (f = n + 1 /\ f # 0 /\ f - 1 = n)
      OBVIOUS
    <3> QED BY <3>2, <3>3, <3>4
  <2>4. Reconciling(st, got, n + 1, v)
    BY <2>3 DEF Reconciling, Next1
  <2> QED BY <2>4
<1> HIDE DEF D
<1>3. MaxFile \in D
  BY <1>1, <1>2, Induction, RecordAssumption
<1> DEFINE u == CHOOSE up : Reconciling(st, got, MaxFile, up)
<1>4. Reconcile(st, got) = u[MaxFile]
  BY DEF Reconcile, Reconciling, Forget
<1>5. Reconciling(st, got, MaxFile, u)
  BY <1>3 DEF D
<1> HIDE DEF u
<1>6. \A f \in 0 .. MaxFile : u[f] = IF f = 0 THEN Forget(st, got)
          ELSE IF IsChanged(st, got, f) THEN MergeDoc(u[f - 1], f, got[f]) ELSE u[f - 1]
  BY <1>5 DEF Reconciling
<1>7. u[0] = Forget(st, got) /\ \A f \in 1 .. MaxFile : u[f] = IF IsChanged(st, got, f) THEN MergeDoc(u[f - 1], f, got[f])
                                                             ELSE u[f - 1]
  BY <1>6, RecordAssumption
<1> QED BY <1>4, <1>7

LEMMA ForgetIsGood ==
    ASSUME NEW st, Good(st), NEW got
    PROVE  LET new == Forget(st, got) IN
           /\ Good(new) /\ Keeps(st, new) /\ new.tree = st.tree /\ new.reserved = st.reserved
           /\ \A f \in Files : new.seen[f] = Unseen \/ new.seen[f] = st.seen[f]
<1> DEFINE seen == [f \in Files |-> IF got[f] = NoDoc THEN Unseen ELSE st.seen[f]]
           new == Forget(st, got)
<1>1. new = [st EXCEPT !.seen = seen] /\ st \in Stores
  BY DEF Forget, Good
<1>2. Unseen \in Seens /\ ~Shown(Unseen.doc)
  BY DEF Unseen, Seens, Contents, Shown, NoDoc
<1>3. seen \in [Files -> Seens] /\ \A f \in Files : seen[f] = Unseen \/ seen[f] = st.seen[f]
  BY <1>1, <1>2 DEF Stores
<1> HIDE DEF seen, new
<1>4. /\ new \in Stores /\ new.tree = st.tree /\ new.seen = seen /\ new.dirty = st.dirty /\ new.up = st.up
      /\ new.reserved = st.reserved
  BY <1>1, <1>3 DEF Stores
<1>5. HasSeen(new)
  BY <1>2, <1>3, <1>4 DEF HasSeen, Good
<1>6. ~new.dirty => NoneElse(new)
  BY <1>2, <1>3, <1>4 DEF NoneElse, Good
<1> QED BY <1>3, <1>4, <1>5, <1>6 DEF Good, Keeps, new

LEMMA ReconcileIsGood ==
    ASSUME NEW st, Good(st), NEW got \in [Files -> Contents]
    PROVE  Good(Reconcile(st, got)) /\ Keeps(st, Reconcile(st, got))
<1>1. PICK up : /\ Reconcile(st, got) = up[MaxFile] /\ up[0] = Forget(st, got)
                /\ \A f \in 1 .. MaxFile : up[f] = IF IsChanged(st, got, f) THEN MergeDoc(up[f - 1], f, got[f])
                                                   ELSE up[f - 1]
  BY ReconcileUp
<1> DEFINE Well(f) == Good(up[f]) /\ Keeps(st, up[f])
           D == {f \in Nat : f <= MaxFile => Well(f)}
<1>2. 0 \in D
  BY <1>1, ForgetIsGood
<1>3. ASSUME NEW f \in Nat, f \in D PROVE f + 1 \in D
  <2> SUFFICES ASSUME f + 1 <= MaxFile PROVE Well(f + 1)
    OBVIOUS
  <2>0. f + 1 \in 1 .. MaxFile /\ f + 1 \in Files /\ (f + 1) - 1 = f
    BY RecordAssumption DEF Files
  <2>1. Well(f)
    BY <1>3, RecordAssumption
  <2>2. up[f + 1] = IF IsChanged(st, got, f + 1) THEN MergeDoc(up[f], f + 1, got[f + 1]) ELSE up[f]
    BY <1>1, <2>0
  <2>3. CASE IsChanged(st, got, f + 1)
    <3>1. got[f + 1] \in Contents /\ got[f + 1] # NoDoc
      BY <2>0, <2>3 DEF IsChanged
    <3> QED BY <2>0, <2>1, <2>2, <2>3, <3>1, MergeDocIsGood DEF Keeps
  <2>4. CASE ~IsChanged(st, got, f + 1)
    BY <2>1, <2>2, <2>4
  <2> QED BY <2>3, <2>4
<1> HIDE DEF D
<1>4. MaxFile \in D /\ MaxFile \in Nat
  BY <1>2, <1>3, Induction, RecordAssumption
<1> QED BY <1>1, <1>4 DEF D

-----------------------------------------------------------------------------
(* store.go: the names of the documents *)
Naming(st, n, up) == up = [i \in 0 .. n |-> IF i = 0 THEN <<>> ELSE Append(up[i - 1], Name(st, up[i - 1], i))]
LEMMA DocNamesUp ==
    ASSUME NEW st, Len(st.tree) \in Nat
    PROVE  \E up : /\ DocNames(st) = up[Len(st.tree)] /\ up[0] = <<>>
                   /\ \A i \in 1 .. Len(st.tree) : up[i] = Append(up[i - 1], Name(st, up[i - 1], i))
<1> DEFINE D == {n \in Nat : \E up : Naming(st, n, up)}
<1>1. 0 \in D
  <2>1. Naming(st, 0, [i \in 0 .. 0 |-> <<>>])
    BY DEF Naming
  <2> QED BY <2>1
<1>2. ASSUME NEW n \in Nat, n \in D PROVE n + 1 \in D
  <2>1. PICK u : Naming(st, n, u)
    BY <1>2
  <2> DEFINE More(x, i) == Append(x, Name(st, x, i))
             v == [i \in 0 .. n + 1 |-> IF i <= n THEN u[i] ELSE More(u[n], i)]
  <2>2. \A i \in 0 .. n : u[i] = IF i = 0 THEN <<>> ELSE More(u[i - 1], i)
    BY <2>1 DEF Naming
  <2> HIDE DEF More
  <2>3. \A i \in 0 .. n + 1 : v[i] = IF i = 0 THEN <<>> ELSE More(v[i - 1], i)
    <3>1. \A i \in 0 .. n : v[i] = u[i]
      OBVIOUS
    <3>2. v[n + 1] = More(v[n], n + 1)
      OBVIOUS
    <3> HIDE DEF v
    <3>3. \A i \in 0 .. n : v[i] = IF i = 0 THEN <<>> ELSE More(v[i - 1], i)
      BY <2>2, <3>1
    <3>4. \A i \in 0 .. n + 1 : i \in 0 .. n \/ (i = n + 1 /\ i # 0 /\ i - 1 = n)
      OBVIOUS
    <3> QED BY <3>2, <3>3, <3>4
  <2>4. Naming(st, n + 1, v)
    BY <2>3 DEF Naming, More
  <2> QED BY <2>4
<1> HIDE DEF D
<1>3. Len(st.tree) \in D
  BY <1>1, <1>2, Induction
<1> DEFINE u == CHOOSE up : Naming(st, Len(st.tree), up)
<1>4. DocNames(st) = u[Len(st.tree)]
  BY DEF DocNames, Naming
<1>5. Naming(st, Len(st.tree), u)
  BY <1>3 DEF D
<1> HIDE DEF u
<1>6. \A i \in 0 .. Len(st.tree) : u[i] = IF i = 0 THEN <<>> ELSE Append(u[i - 1], Name(st, u[i - 1], i))
  BY <1>5 DEF Naming
<1>7. u[0] = <<>> /\ \A i \in 1 .. Len(st.tree) : u[i] = Append(u[i - 1], Name(st, u[i - 1], i))
  <2>1. 0 \in 0 .. Len(st.tree) /\ \A i \in 1 .. Len(st.tree) : i \in 0 .. Len(st.tree) /\ i # 0
    OBVIOUS
  <2> QED BY <1>6, <2>1
<1> QED BY <1>4, <1>7

\* A name that is not kept is a new one: after i names at most, MaxFile + i + 1
\* is always free.
Fits(st, names, i) ==
    /\ names[i] \in Nat /\ names[i] <= MaxFile + i
    /\ KeepsName(st, i) => names[i] = st.tree[i].file
    /\ ~KeepsName(st, i) => names[i] \notin NamesKept(st) /\ \A j \in 1 .. i - 1 : names[j] # names[i]
LEMMA NameFits ==
    ASSUME NEW st \in Stores, NEW k \in Nat, k + 1 <= Len(st.tree), NEW names \in Seq(Nat), Len(names) = k,
           \A i \in 1 .. k : Fits(st, names, i)
    PROVE  LET n == Name(st, names, k + 1) IN
           /\ n \in Nat /\ n <= MaxFile + (k + 1)
           /\ KeepsName(st, k + 1) => n = st.tree[k + 1].file
           /\ ~KeepsName(st, k + 1) => n \notin NamesKept(st) /\ \A j \in 1 .. k : names[j] # n
<1>0. /\ MaxFile \in Nat /\ st.tree \in Seq(Roots) /\ st.reserved \subseteq Files
      /\ \A i \in 1 .. Len(st.tree) : st.tree[i].file \in Files \cup {NoFile}
  <2>1. st.tree \in Seq(Roots) /\ st.reserved \subseteq Files
    BY DEF Stores
  <2>2. ASSUME NEW i \in 1 .. Len(st.tree) PROVE st.tree[i].file \in Files \cup {NoFile}
    <3>1. st.tree[i] \in Roots
      BY <2>1
    <3> QED BY <3>1 DEF Roots
  <2> QED BY <2>1, <2>2, RecordAssumption
<1>1. CASE KeepsName(st, k + 1)
  <2>1. Name(st, names, k + 1) = st.tree[k + 1].file /\ k + 1 \in 1 .. Len(st.tree)
    BY <1>1, <1>0 DEF Name
  <2>2. st.tree[k + 1].file \in Files
    BY <1>0, <1>1, <2>1 DEF KeepsName
  <2> QED BY <1>0, <1>1, <2>1, <2>2 DEF Files
<1>2. CASE ~KeepsName(st, k + 1)
  <2> DEFINE free == (k + 1 .. MaxFile + Len(st.tree)) \ (NamesKept(st) \cup ToSet(names))
             x == MaxFile + (k + 1)
  <2>1. Name(st, names, k + 1) = Least(free)
    BY <1>2 DEF Name
  <2>2. NamesKept(st) \subseteq Files
    <3>1. \A i \in 1 .. Len(st.tree) : KeepsName(st, i) => st.tree[i].file \in Files
      BY <1>0 DEF KeepsName
    <3> QED BY <1>0, <3>1 DEF NamesKept
  <2>3. x \notin NamesKept(st)
    BY <1>0, <2>2 DEF Files
  <2>4. x \notin ToSet(names)
    <3>1. \A i \in 1 .. k : names[i] \in Nat /\ names[i] <= MaxFile + i
      BY DEF Fits
    <3>2. \A i \in DOMAIN names : names[i] # x
      BY <1>0, <3>1
    <3> QED BY <3>2 DEF ToSet
  <2>5. x \in k + 1 .. MaxFile + Len(st.tree)
    BY <1>0
  <2>6. x \in free /\ free \in SUBSET Nat
    BY <2>3, <2>4, <2>5, <1>0
  <2> HIDE DEF x
  <2>7. Least(free) \in free /\ Least(free) <= x
    <3> HIDE DEF free
    <3> QED BY <2>6, LeastOf
  <2>8. \A j \in 1 .. k : names[j] \in ToSet(names)
    BY DEF ToSet
  <2> QED BY <1>2, <2>1, <2>7, <2>8, <1>0 DEF x
<1> QED BY <1>1, <1>2

LEMMA DocNamesFit ==
    ASSUME NEW st \in Stores
    PROVE  /\ DocNames(st) \in Seq(Nat) /\ Len(DocNames(st)) = Len(st.tree)
           /\ \A i \in 1 .. Len(st.tree) : Fits(st, DocNames(st), i)
<1> DEFINE n == Len(st.tree)
<1>0. n \in Nat
  BY DEF Stores
<1>1. PICK up : /\ DocNames(st) = up[n] /\ up[0] = <<>>
                /\ \A i \in 1 .. n : up[i] = Append(up[i - 1], Name(st, up[i - 1], i))
  BY <1>0, DocNamesUp
<1> DEFINE Well(k) == up[k] \in Seq(Nat) /\ Len(up[k]) = k /\ \A i \in 1 .. k : Fits(st, up[k], i)
           D == {k \in Nat : k <= n => Well(k)}
<1>2. 0 \in D
  <2>1. up[0] \in Seq(Nat) /\ Len(up[0]) = 0
    BY <1>1
  <2> QED BY <2>1
<1>3. ASSUME NEW k \in Nat, k \in D PROVE k + 1 \in D
  <2> SUFFICES ASSUME k + 1 <= n PROVE Well(k + 1)
    OBVIOUS
  <2>1. Well(k)
    BY <1>0, <1>3
  <2> DEFINE x == Name(st, up[k], k + 1)
  <2>2. up[k + 1] = Append(up[k], x)
    BY <1>1
  <2>3. /\ x \in Nat /\ x <= MaxFile + (k + 1)
        /\ KeepsName(st, k + 1) => x = st.tree[k + 1].file
        /\ ~KeepsName(st, k + 1) => x \notin NamesKept(st) /\ \A j \in 1 .. k : up[k][j] # x
    BY <2>1, NameFits
  <2> HIDE DEF x
  <2>4. /\ up[k + 1] \in Seq(Nat) /\ Len(up[k + 1]) = k + 1
        /\ \A i \in 1 .. k : up[k + 1][i] = up[k][i]
        /\ up[k + 1][k + 1] = x
    BY <2>1, <2>2, <2>3, AppendProperties
  <2>5. ASSUME NEW i \in 1 .. k + 1 PROVE Fits(st, up[k + 1], i)
    <3>1. CASE i \in 1 .. k
      <4>1. Fits(st, up[k], i) /\ \A j \in 1 .. i : j \in 1 .. k
        BY <3>1, <2>1
      <4>2. \A j \in 1 .. i : up[k + 1][j] = up[k][j]
        BY <2>4, <4>1
      <4>3. i \in 1 .. i /\ \A j \in 1 .. i - 1 : j \in 1 .. i
        BY <3>1
      <4> QED BY <4>1, <4>2, <4>3 DEF Fits
    <3>2. CASE i = k + 1
      <4>1. i - 1 = k
        BY <3>2
      <4> QED BY <3>2, <4>1, <2>3, <2>4 DEF Fits
    <3> QED BY <3>1, <3>2
  <2> QED BY <2>4, <2>5
<1> HIDE DEF D
<1>4. n \in D
  BY <1>0, <1>2, <1>3, Induction
<1> QED BY <1>0, <1>1, <1>4 DEF D

\* docNamesLocked names every root, no two alike and none with a name that is
\* taken; the first root of a document that is not taken keeps its name.
LEMMA DocNamesIs ==
    ASSUME NEW st \in Stores
    PROVE  LET names == DocNames(st) IN
           /\ names \in Seq(Nat) /\ Len(names) = Len(st.tree)
           /\ \A i, j \in 1 .. Len(names) : names[i] = names[j] => i = j
           /\ \A i \in 1 .. Len(names) : names[i] \notin st.reserved
           /\ \A f \in Files : \A i \in 1 .. Len(names) :
                 IsFirst(st.tree, f, i) /\ f \notin st.reserved => names[i] = f
<1> DEFINE names == DocNames(st)
<1>1. names \in Seq(Nat) /\ Len(names) = Len(st.tree) /\ \A i \in 1 .. Len(names) : Fits(st, names, i)
  BY DocNamesFit
<1> HIDE DEF names
<1>2. \A i \in 1 .. Len(names) : KeepsName(st, i) => st.tree[i].file \in NamesKept(st)
  BY <1>1 DEF NamesKept, Stores
<1>3. ASSUME NEW i \in 1 .. Len(names), NEW j \in 1 .. i - 1 PROVE names[i] # names[j]
  <2>0. j \in 1 .. Len(names) /\ Len(names) \in Nat
    BY <1>1
  <2>1. CASE ~KeepsName(st, i)
    BY <2>1, <1>1 DEF Fits
  <2>2. CASE KeepsName(st, i) /\ ~KeepsName(st, j)
    BY <2>0, <2>2, <1>1, <1>2 DEF Fits
  <2>3. CASE KeepsName(st, i) /\ KeepsName(st, j)
    BY <2>0, <2>3, <1>1 DEF Fits, KeepsName
  <2> QED BY <2>1, <2>2, <2>3
<1>4. ASSUME NEW i \in 1 .. Len(names), NEW j \in 1 .. Len(names), names[i] = names[j] PROVE i = j
  <2>1. i \in Nat /\ j \in Nat
    OBVIOUS
  <2>2. CASE j < i
    BY <2>1, <2>2, <1>3, <1>4
  <2>3. CASE i < j
    BY <2>1, <2>3, <1>3, <1>4
  <2> QED BY <2>1, <2>2, <2>3
<1>5. ASSUME NEW i \in 1 .. Len(names) PROVE names[i] \notin st.reserved
  <2>1. CASE KeepsName(st, i)
    BY <2>1, <1>1 DEF Fits, KeepsName
  <2>2. CASE ~KeepsName(st, i)
    BY <2>2, <1>1 DEF Fits, NamesKept
  <2> QED BY <2>1, <2>2
<1>6. ASSUME NEW f \in Files, NEW i \in 1 .. Len(names), IsFirst(st.tree, f, i), f \notin st.reserved
      PROVE  names[i] = f
  <2>1. KeepsName(st, i)
    BY <1>6, RecordAssumption DEF KeepsName, IsFirst, Files, NoFile
  <2> QED BY <2>1, <1>1, <1>6 DEF Fits, IsFirst
<1> QED BY <1>1, <1>4, <1>5, <1>6 DEF names

-----------------------------------------------------------------------------
(* store.go: what a start makes of the documents *)

\* A tree with the same evidence is as good.
LEMMA AlikeIsGood ==
    ASSUME NEW st, Good(st), NEW tree, Alike(st.tree, tree)
    PROVE  LET new == [st EXCEPT !.tree = tree] IN Good(new) /\ Keeps(st, new)
<1> DEFINE new == [st EXCEPT !.tree = tree]
<1>1. st \in Stores /\ tree \in Seq(Roots) /\ Len(tree) = Len(st.tree)
  BY DEF Good, Alike
<1>2. new \in Stores /\ new.tree = tree /\ new.seen = st.seen /\ new.dirty = st.dirty /\ new.up = st.up
  BY <1>1 DEF Stores
<1> HIDE DEF new
<1>3. \A i \in 1 .. Len(tree) : tree[i].file = st.tree[i].file /\ EvOf(tree[i].kids) = EvOf(st.tree[i].kids)
  BY <1>1 DEF Alike
<1>4. ASSUME NEW f \in Files, NEW i \in 1 .. Len(tree), IsFirst(tree, f, i) PROVE IsFirst(st.tree, f, i)
  <2>1. Len(tree) \in Nat /\ \A j \in 1 .. i - 1 : j \in 1 .. Len(tree)
    BY <1>1
  <2> QED BY <1>3, <1>4, <2>1 DEF IsFirst
<1>5. HasSeen(new)
  BY <1>1, <1>2, <1>3, <1>4 DEF Good, HasSeen
<1>6. ~new.dirty => NoneElse(new)
  BY <1>1, <1>2, <1>3, <1>4 DEF Good, NoneElse
<1> QED BY <1>2, <1>5, <1>6 DEF Good, Keeps, new

\* A store whose roots are as they were but for numbers and marks.
Remade(st, new) ==
    \E tree : Alike(st.tree, tree) /\ new \in {st, MarkDirty([st EXCEPT !.tree = tree])}
LEMMA RemadeIsGood ==
    ASSUME NEW st, Good(st), NEW new, Remade(st, new)
    PROVE  Good(new) /\ Keeps(st, new)
<1>1. PICK tree : Alike(st.tree, tree) /\ new \in {st, MarkDirty([st EXCEPT !.tree = tree])}
  BY DEF Remade
<1>2. CASE new = st
  BY <1>2 DEF Keeps
<1>3. CASE new = MarkDirty([st EXCEPT !.tree = tree])
  <2> DEFINE mid == [st EXCEPT !.tree = tree]
  <2>1. Good(mid) /\ Keeps(st, mid)
    BY <1>1, AlikeIsGood
  <2> HIDE DEF mid
  <2>2. Good(MarkDirty(mid)) /\ Keeps(mid, MarkDirty(mid))
    BY <2>1, DirtyIsGood
  <2> QED BY <1>3, <2>1, <2>2 DEF Keeps, mid
<1> QED BY <1>1, <1>2, <1>3

LEMMA RepairIs ==
    ASSUME NEW st \in Stores
    PROVE  Remade(st, RepairRootIDs(st))
<1>0. st.tree \in Seq(Roots) /\ Alike(st.tree, st.tree)
  BY DEF Stores, Alike
<1>1. CASE \A i \in DOMAIN st.tree : st.tree[i].id = i
  BY <1>0, <1>1 DEF RepairRootIDs, Remade
<1>2. CASE ~(\A i \in DOMAIN st.tree : st.tree[i].id = i)
  <2> DEFINE One(i) == [st.tree[i] EXCEPT !.id = i]
             tree == [i \in DOMAIN st.tree |-> One(i)]
  <2>1. RepairRootIDs(st) = MarkDirty([st EXCEPT !.tree = tree])
    BY <1>2 DEF RepairRootIDs
  <2>2. ASSUME NEW i \in DOMAIN st.tree
        PROVE  One(i) \in Roots /\ One(i).file = st.tree[i].file /\ One(i).kids = st.tree[i].kids
    <3> DEFINE r == st.tree[i]
    <3>1. r \in Roots /\ i \in Nat /\ One(i) = [r EXCEPT !.id = i]
      BY <1>0
    <3> HIDE DEF r, One
    <3>2. One(i) \in Roots /\ One(i).file = r.file /\ One(i).kids = r.kids
      BY <3>1 DEF Roots
    <3> QED BY <3>2 DEF r
  <2> HIDE DEF One
  <2>3. Alike(st.tree, tree)
    BY <1>0, <2>2 DEF Alike
  <2> HIDE DEF tree
  <2> QED BY <2>1, <2>3 DEF Remade
<1> QED BY <1>1, <1>2

\* dropSplitDuplicates: the roots up to p are still to be looked at, and the
\* first root of a document is the one it was.
Rest(was, tree, p) ==
    /\ tree \in Seq(Roots) /\ p \in 0 .. Len(tree)
    /\ \A j \in 1 .. p : tree[j] = was[j]
    /\ \A f \in Files : \A j \in 1 .. Len(tree) : IsFirst(tree, f, j) =>
          \E i \in 1 .. Len(was) : IsFirst(was, f, i) /\ was[i] = tree[j]
\* Nothing new, and no file and no line fewer.
Left(was, tree) ==
    /\ \A j \in 1 .. Len(tree) : \E i \in 1 .. Len(was) : was[i] = tree[j]
    /\ \A i \in 1 .. Len(was) : /\ \E j \in 1 .. Len(tree) : tree[j].file = was[i].file
                               /\ \E j \in 1 .. Len(tree) : EvOf(tree[j].kids) = EvOf(was[i].kids)

LEMMA SameLines ==
    ASSUME NEW a \in Roots, NEW b \in Roots, SameSubtree(a, b)
    PROVE  EvOf(a.kids) = EvOf(b.kids)
<1>1. Len(a.kids) = Len(b.kids) /\ \A k \in DOMAIN a.kids : [a.kids[k] EXCEPT !.id = 0] = [b.kids[k] EXCEPT !.id = 0]
  BY DEF SameSubtree
<1>2. a.kids \in Seq(Nodes) /\ b.kids \in Seq(Nodes)
  BY DEF Roots
<1>3. DOMAIN a.kids = DOMAIN b.kids
  BY <1>1, <1>2
<1>4. ASSUME NEW k \in DOMAIN a.kids PROVE a.kids[k].ev = b.kids[k].ev
  <2> DEFINE x == a.kids[k]  y == b.kids[k]
  <2>1. x \in Nodes /\ y \in Nodes /\ [x EXCEPT !.id = 0] = [y EXCEPT !.id = 0]
    BY <1>1, <1>2, <1>3
  <2> HIDE DEF x, y
  <2>2. [x EXCEPT !.id = 0].ev = x.ev /\ [y EXCEPT !.id = 0].ev = y.ev
    BY <2>1 DEF Nodes
  <2> QED BY <2>1, <2>2 DEF x, y
<1> QED BY <1>3, <1>4, EvAlike

LEMMA DropCopyIs ==
    ASSUME NEW was \in Seq(Roots), NEW i \in 1 .. Len(was), NEW tree, Rest(was, tree, i), Left(was, tree)
    PROVE  Rest(was, DropCopy(was, tree, i), i - 1) /\ Left(was, DropCopy(was, tree, i))
<1> DEFINE new == RemoveAt(tree, i)
<1>0. /\ tree \in Seq(Roots) /\ Len(tree) \in Nat /\ i \in 1 .. Len(tree) /\ i - 1 \in 0 .. Len(tree)
      /\ \A j \in 1 .. i - 1 : j \in 1 .. i
  BY DEF Rest
<1>1. CASE DropCopy(was, tree, i) = tree
  BY <1>0, <1>1 DEF Rest
<1>2. CASE DropCopy(was, tree, i) # tree
  <2>1. ~FirstOf(was, i) /\ DropCopy(was, tree, i) = new
    BY <1>2 DEF DropCopy
  <2>2. PICK h \in 1 .. i - 1 : was[h].file = was[i].file
    BY <2>1 DEF FirstOf, IsFirst
  <2>3. /\ new \in Seq(Roots) /\ Len(new) = Len(tree) - 1
        /\ \A j \in 1 .. Len(tree) - 1 : new[j] = IF j < i THEN tree[j] ELSE tree[j + 1]
    BY <1>0, RemoveAtIs
  <2> HIDE DEF new
  <2>4. \A j \in 1 .. i - 1 : new[j] = tree[j] /\ new[j] = was[j] /\ j \in 1 .. Len(new)
    BY <1>0, <2>3 DEF Rest
  <2>5. tree[h] = was[h] /\ tree[i] = was[i] /\ h \in 1 .. i
    BY <1>0 DEF Rest
  <2>6. ASSUME NEW f \in Files, NEW j \in 1 .. Len(new), IsFirst(new, f, j)
        PROVE  \E k \in 1 .. Len(was) : IsFirst(was, f, k) /\ was[k] = new[j]
    <3>1. CASE j < i
      <4>1. new[j] = tree[j] /\ j \in 1 .. Len(tree)
        BY <1>0, <2>3, <3>1
      <4>2. \A k \in 1 .. j - 1 : tree[k] = new[k]
        BY <1>0, <2>3, <3>1
      <4>3. IsFirst(tree, f, j)
        BY <2>6, <4>1, <4>2 DEF IsFirst
      <4> QED BY <4>1, <4>3 DEF Rest
    <3>2. CASE ~(j < i)
      <4>1. new[j] = tree[j + 1] /\ j + 1 \in 1 .. Len(tree) /\ h < j /\ h \in 1 .. j - 1
        <5>1. j \in 1 .. Len(tree) - 1 /\ i <= j
          BY <1>0, <2>3, <3>2
        <5>2. new[j] = tree[j + 1]
          BY <2>3, <3>2, <5>1
        <5>3. j + 1 \in 1 .. Len(tree)
          BY <1>0, <5>1
        <5>4. h < j /\ h \in 1 .. j - 1
          BY <1>0, <5>1
        <5> QED BY <5>2, <5>3, <5>4
      <4>2. tree[j + 1].file = f /\ \A k \in 1 .. j - 1 : new[k].file # f
        BY <2>6, <4>1 DEF IsFirst
      <4>3. tree[i].file # f
        BY <2>2, <2>4, <2>5, <4>1, <4>2
      <4>4. ASSUME NEW k \in 1 .. (j + 1) - 1 PROVE tree[k].file # f
        <5>1. CASE k < i
          BY <5>1, <3>2, <4>1, <4>2, <2>4, <1>0
        <5>2. CASE k = i
          BY <5>2, <4>3
        <5>3. CASE k > i
          <6>1. k - 1 \in 1 .. j - 1 /\ k - 1 \in 1 .. Len(tree) - 1 /\ ~(k - 1 < i) /\ (k - 1) + 1 = k
            BY <5>3, <1>0, <2>3
          <6>2. new[k - 1] = tree[k]
            BY <6>1, <2>3
          <6> QED BY <6>1, <6>2, <4>2
        <5> QED BY <5>1, <5>2, <5>3, <1>0
      <4>5. IsFirst(tree, f, j + 1)
        BY <4>2, <4>4 DEF IsFirst
      <4> QED BY <4>1, <4>5 DEF Rest
    <3> QED BY <3>1, <3>2
  <2>7. i - 1 \in 0 .. Len(new)
    BY <1>0, <2>3
  <2>8. ASSUME NEW j \in 1 .. Len(new) PROVE \E k \in 1 .. Len(was) : was[k] = new[j]
    <3>1. \E k \in 1 .. Len(tree) : new[j] = tree[k]
      <4>1. j \in 1 .. Len(tree) - 1 /\ j \in 1 .. Len(tree) /\ j + 1 \in 1 .. Len(tree)
        BY <1>0, <2>3
      <4> QED BY <4>1, <2>3
    <3> QED BY <3>1 DEF Left
  <2>9. ASSUME NEW k \in 1 .. Len(tree), k # i PROVE \E j \in 1 .. Len(new) : new[j] = tree[k]
    <3>1. CASE k < i
      <4>1. k \in 1 .. Len(tree) - 1
        BY <1>0, <3>1
      <4> QED BY <3>1, <4>1, <2>3
    <3>2. CASE ~(k < i)
      <4>1. k - 1 \in 1 .. Len(tree) - 1 /\ ~(k - 1 < i) /\ k - 1 + 1 = k
        BY <1>0, <2>9, <3>2
      <4>2. new[k - 1] = tree[k] /\ k - 1 \in 1 .. Len(new)
        BY <2>3, <4>1
      <4> QED BY <4>2
    <3> QED BY <3>1, <3>2
  <2>10. PICK g \in 1 .. Len(tree) : g # i /\ EvOf(tree[g].kids) = EvOf(tree[i].kids)
    <3>1. PICK g \in DOMAIN tree : tree[g].file # tree[i].file /\ SameSubtree(tree[i], tree[g])
      BY <1>2 DEF DropCopy
    <3>2. g \in 1 .. Len(tree) /\ tree[i] \in Roots /\ tree[g] \in Roots
      BY <1>0
    <3> QED BY <3>1, <3>2, SameLines
  <2>11. ASSUME NEW k \in 1 .. Len(was)
         PROVE  /\ \E j \in 1 .. Len(new) : new[j].file = was[k].file
                /\ \E j \in 1 .. Len(new) : EvOf(new[j].kids) = EvOf(was[k].kids)
    <3>1. PICK x \in 1 .. Len(tree) : tree[x].file = was[k].file
      BY DEF Left
    <3>2. PICK y \in 1 .. Len(tree) : EvOf(tree[y].kids) = EvOf(was[k].kids)
      BY DEF Left
    <3>3. h \in 1 .. Len(tree) /\ h # i /\ tree[h].file = tree[i].file
      BY <1>0, <2>2, <2>5
    <3>4. \E j \in 1 .. Len(new) : new[j].file = was[k].file
      BY <3>1, <3>3, <2>9
    <3>5. \E j \in 1 .. Len(new) : EvOf(new[j].kids) = EvOf(was[k].kids)
      BY <3>2, <2>9, <2>10
    <3> QED BY <3>4, <3>5
  <2>12. Left(was, new)
    BY <2>8, <2>11 DEF Left
  <2> QED BY <2>1, <2>3, <2>4, <2>6, <2>7, <2>12 DEF Rest
<1> QED BY <1>1, <1>2

Dropping(was, n, up) ==
    up = [k \in 0 .. n |-> IF k = 0 THEN was ELSE DropCopy(was, up[k - 1], Len(was) + 1 - k)]
LEMMA DropUp ==
    ASSUME NEW st, Len(st.tree) \in Nat
    PROVE  \E up : /\ DropSplitDuplicates(st) = IF up[Len(st.tree)] = st.tree THEN st
                                                ELSE MarkDirty([st EXCEPT !.tree = up[Len(st.tree)]])
                   /\ up[0] = st.tree
                   /\ \A k \in 1 .. Len(st.tree) : up[k] = DropCopy(st.tree, up[k - 1], Len(st.tree) + 1 - k)
<1> DEFINE was == st.tree
           D == {n \in Nat : \E up : Dropping(was, n, up)}
<1>1. 0 \in D
  <2>1. Dropping(was, 0, [k \in 0 .. 0 |-> was])
    BY DEF Dropping
  <2> QED BY <2>1
<1>2. ASSUME NEW n \in Nat, n \in D PROVE n + 1 \in D
  <2>1. PICK u : Dropping(was, n, u)
    BY <1>2
  <2> DEFINE More(x, k) == DropCopy(was, x, Len(was) + 1 - k)
             v == [k \in 0 .. n + 1 |-> IF k <= n THEN u[k] ELSE More(u[n], k)]
  <2>2. \A k \in 0 .. n : u[k] = IF k = 0 THEN was ELSE More(u[k - 1], k)
    BY <2>1 DEF Dropping
  <2> HIDE DEF More
  <2>3. \A k \in 0 .. n + 1 : v[k] = IF k = 0 THEN was ELSE More(v[k - 1], k)
    <3>1. \A k \in 0 .. n : v[k] = u[k]
      OBVIOUS
    <3>2. v[n + 1] = More(v[n], n + 1)
      OBVIOUS
    <3> HIDE DEF v
    <3>3. \A k \in 0 .. n : v[k] = IF k = 0 THEN was ELSE More(v[k - 1], k)
      BY <2>2, <3>1
    <3>4. \A k \in 0 .. n + 1 : k \in 0 .. n \/ (k = n + 1 /\ k # 0 /\ k - 1 = n)
      OBVIOUS
    <3> QED BY <3>2, <3>3, <3>4
  <2>4. Dropping(was, n + 1, v)
    BY <2>3 DEF Dropping, More
  <2> QED BY <2>4
<1> HIDE DEF D
<1>3. Len(was) \in D
  BY <1>1, <1>2, Induction
<1> DEFINE u == CHOOSE up : Dropping(was, Len(was), up)
<1>4. DropSplitDuplicates(st) = IF u[Len(was)] = was THEN st ELSE MarkDirty([st EXCEPT !.tree = u[Len(was)]])
  BY DEF DropSplitDuplicates, Dropping
<1>5. Dropping(was, Len(was), u)
  BY <1>3 DEF D
<1> HIDE DEF u
<1>6. \A k \in 0 .. Len(was) : u[k] = IF k = 0 THEN was ELSE DropCopy(was, u[k - 1], Len(was) + 1 - k)
  BY <1>5 DEF Dropping
<1>7. u[0] = was /\ \A k \in 1 .. Len(was) : u[k] = DropCopy(was, u[k - 1], Len(was) + 1 - k)
  <2>1. 0 \in 0 .. Len(was) /\ \A k \in 1 .. Len(was) : k \in 0 .. Len(was) /\ k # 0
    OBVIOUS
  <2> QED BY <1>6, <2>1
<1> QED BY <1>4, <1>7

LEMMA DropIs ==
    ASSUME NEW st \in Stores
    PROVE  \E tree : /\ Rest(st.tree, tree, 0) /\ Left(st.tree, tree)
                     /\ DropSplitDuplicates(st) = IF tree = st.tree THEN st ELSE MarkDirty([st EXCEPT !.tree = tree])
<1> DEFINE was == st.tree  n == Len(was)
<1>0. was \in Seq(Roots) /\ n \in Nat
  BY DEF Stores
<1>1. PICK up : /\ DropSplitDuplicates(st) = IF up[n] = was THEN st ELSE MarkDirty([st EXCEPT !.tree = up[n]])
                /\ up[0] = was
                /\ \A k \in 1 .. n : up[k] = DropCopy(was, up[k - 1], n + 1 - k)
  BY <1>0, DropUp
<1> HIDE DEF was
<1> DEFINE D == {k \in Nat : k <= n => Rest(was, up[k], n - k) /\ Left(was, up[k])}
<1>2. 0 \in D
  <2>1. Rest(was, was, n)
    BY <1>0 DEF Rest
  <2>2. Left(was, was)
    BY DEF Left
  <2>3. n - 0 = n
    BY <1>0
  <2> HIDE DEF n
  <2> QED BY <1>1, <2>1, <2>2, <2>3
<1>3. ASSUME NEW k \in Nat, k \in D PROVE k + 1 \in D
  <2> SUFFICES ASSUME k + 1 <= n PROVE Rest(was, up[k + 1], n - (k + 1)) /\ Left(was, up[k + 1])
    OBVIOUS
  <2>1. Rest(was, up[k], n - k) /\ Left(was, up[k]) /\ n - k \in 1 .. n /\ (n - k) - 1 = n - (k + 1)
    BY <1>0, <1>3
  <2>2. up[k + 1] = DropCopy(was, up[k], n - k)
    <3>1. k + 1 \in 1 .. n /\ (k + 1) - 1 = k /\ n + 1 - (k + 1) = n - k
      BY <1>0
    <3> QED BY <1>1, <3>1
  <2> QED BY <1>0, <2>1, <2>2, DropCopyIs
<1> HIDE DEF D
<1>4. n \in D
  BY <1>0, <1>2, <1>3, Induction
<1>5. Rest(was, up[n], 0) /\ Left(was, up[n])
  <2>1. n - n = 0 /\ n <= n
    BY <1>0
  <2> QED BY <1>4, <2>1 DEF D
<1> QED BY <1>1, <1>5 DEF was

LEMMA DropIsGood ==
    ASSUME NEW st, Good(st)
    PROVE  Good(DropSplitDuplicates(st)) /\ Keeps(st, DropSplitDuplicates(st))
<1> DEFINE was == st.tree
<1>0. st \in Stores
  BY DEF Good
<1>1. PICK tree : /\ Rest(was, tree, 0)
                  /\ DropSplitDuplicates(st) = IF tree = was THEN st ELSE MarkDirty([st EXCEPT !.tree = tree])
  BY <1>0, DropIs
<1>2. CASE tree = was
  BY <1>1, <1>2 DEF Keeps
<1>3. CASE tree # was
  <2> DEFINE new == MarkDirty([st EXCEPT !.tree = tree])
  <2>1. new = [[st EXCEPT !.tree = tree] EXCEPT !.dirty = TRUE, !.moved = TRUE]
    BY DEF MarkDirty
  <2> HIDE DEF new
  <2>2. new \in Stores /\ new.tree = tree /\ new.seen = st.seen /\ new.dirty /\ new.up = st.up
    BY <1>0, <1>1, <2>1 DEF Stores, Rest
  <2>3. HasSeen(new)
    <3> SUFFICES ASSUME NEW f \in Files, NEW j \in 1 .. Len(tree), IsFirst(tree, f, j), Shown(st.seen[f].doc)
                 PROVE  EvOf(st.seen[f].doc.roots[1].kids) \subseteq EvOf(tree[j].kids)
      BY <2>2 DEF HasSeen
    <3>1. PICK i \in 1 .. Len(was) : IsFirst(was, f, i) /\ was[i] = tree[j]
      BY <1>1 DEF Rest
    <3> QED BY <3>1 DEF Good, HasSeen
  <2> QED BY <1>1, <1>3, <2>2, <2>3 DEF Good, Keeps, new
<1> QED BY <1>2, <1>3

\* loadDocs puts the tasks of a document after those of the ones before it.
LEMMA LoadDocIs ==
    ASSUME NEW st \in Stores, NEW f \in Files, NEW c \in Contents, RootsOf(st.tree, f) = {}
    PROVE  \/ LoadDoc(st, f, c) \in {st, MarkDirty(st), [st EXCEPT !.reserved = @ \cup {f}]}
           \/ Shown(c) /\ \E tree :
                 /\ Takes(st, f, c, tree, Len(st.tree) + 1)
                 /\ EvOf(tree[Len(st.tree) + 1].kids) = EvOf(c.roots[1].kids)
                 /\ LoadDoc(st, f, c) = See([st EXCEPT !.tree = tree], f, c)
<1> DEFINE new == LoadDoc(st, f, c)
<1>1. CASE c \in {NoDoc, Bad, Bare}
  BY <1>1 DEF LoadDoc, Bad, NoDoc, Bare, Doc
<1>2. CASE c \notin {NoDoc, Bad, Bare}
  <2> DEFINE One(k) == LET t == Parse(c.roots[k]) IN Root(f, t.id, t)
             more == [k \in DOMAIN c.roots |-> One(k)]
             tree == st.tree \o more
             m == Len(st.tree) + 1
             base == st.seen[f].base.kids
  <2>1. Shown(c)
    BY <1>2 DEF Shown, Contents
  <2>2. c.roots \in Seq(Tasks) /\ c.roots # <<>> /\ Len(c.roots) \in Nat /\ Len(c.roots) >= 1
    BY <2>1, ShownIs
  <2>3. new = [See(st, f, c) EXCEPT !.tree = @ \o more]
    BY <1>2 DEF LoadDoc
  <2>4. ASSUME NEW k \in DOMAIN c.roots
        PROVE  One(k) \in Roots /\ One(k).file = f /\ EvOf(One(k).kids) = EvOf(c.roots[k].kids)
    <3>1. c.roots[k] \in Tasks
      BY <2>2
    <3>2. Parse(c.roots[k]) \in Tasks /\ EvOf(Parse(c.roots[k]).kids) = EvOf(c.roots[k].kids)
      BY <3>1, ParseIs
    <3>3. Parse(c.roots[k]).id \in Nat
      BY <3>2 DEF Tasks
    <3> QED BY <3>2, <3>3, RootIs
  <2> HIDE DEF One
  <2>5. more \in Seq(Roots) /\ Len(more) = Len(c.roots) /\ \A k \in 1 .. Len(c.roots) : more[k] = One(k)
    BY <2>2, <2>4
  <2> HIDE DEF more, base
  <2>6. more # <<>> /\ \A k \in 1 .. Len(more) : more[k].file = f /\ EvOf(more[k].kids) = EvOf(c.roots[k].kids)
    BY <2>2, <2>4, <2>5
  <2>7. /\ Merged(st.tree, tree, f, m, c.roots[1].kids)
        /\ EvOf(tree[m].kids) = EvOf(c.roots[1].kids)
        /\ Gains(st.tree, tree, f, m, c.roots, base)
    <3>1. st.tree \in Seq(Roots) /\ more \in Seq(Roots) /\ Len(more) = Len(c.roots)
      BY <2>5 DEF Stores
    <3>2. RootsOf(st.tree, f) = {}
      OBVIOUS
    <3>3. tree = st.tree \o more /\ m = Len(st.tree) + 1
      OBVIOUS
    <3> HIDE DEF tree, m
    <3> QED BY <2>6, <3>1, <3>2, <3>3, AppendedIs
  <2>8. new = See([st EXCEPT !.tree = tree], f, c)
    BY <2>3 DEF See, Stores
  <2> HIDE DEF tree, m, new
  <2>9. Takes(st, f, c, tree, m)
    BY <2>7 DEF Takes, base
  <2> QED BY <2>1, <2>7, <2>8, <2>9 DEF m, new
<1> QED BY <1>1, <1>2

LEMMA TakenFiles ==
    ASSUME NEW st \in Stores, NEW f, NEW c, NEW tree, NEW m, Takes(st, f, c, tree, m), NEW i \in DOMAIN tree
    PROVE  tree[i].file \in {st.tree[j].file : j \in DOMAIN st.tree} \cup {f}
<1>1. DOMAIN tree = 1 .. Len(tree) /\ DOMAIN st.tree = 1 .. Len(st.tree) /\ Len(st.tree) \in Nat
  BY DEF Stores, Takes, Merged, Within
<1>2. CASE i \in 1 .. Len(st.tree)
  BY <1>1, <1>2 DEF Takes, Merged, Within
<1>3. CASE i \in Len(st.tree) + 1 .. Len(tree)
  BY <1>3 DEF Takes, Merged, Within
<1> QED BY <1>1, <1>2, <1>3

LEMMA LoadDocIsGood ==
    ASSUME NEW st, Good(st), NEW f \in Files, NEW c \in Contents, RootsOf(st.tree, f) = {}
    PROVE  /\ Good(LoadDoc(st, f, c)) /\ Keeps(st, LoadDoc(st, f, c))
           /\ \A i \in DOMAIN LoadDoc(st, f, c).tree :
                 LoadDoc(st, f, c).tree[i].file \in {st.tree[j].file : j \in DOMAIN st.tree} \cup {f}
<1> DEFINE new == LoadDoc(st, f, c)
<1>0. st \in Stores
  BY DEF Good
<1>1. Good(st) /\ Keeps(st, st)
  BY DEF Keeps
<1>2. MarkDirty(st).tree = st.tree
  BY <1>0 DEF MarkDirty, Stores
<1>3. ASSUME Shown(c), NEW tree, Takes(st, f, c, tree, Len(st.tree) + 1),
             EvOf(tree[Len(st.tree) + 1].kids) = EvOf(c.roots[1].kids),
             new = See([st EXCEPT !.tree = tree], f, c)
      PROVE  Good(new) /\ Keeps(st, new) /\ new.tree = tree
  <2>1. tree \in Seq(Roots)
    BY <1>3 DEF Takes, Merged, Within
  <2>2. /\ new \in Stores /\ new.tree = tree /\ new.up = st.up /\ new.dirty = st.dirty
        /\ new.seen[f].doc = c /\ \A g \in Files \ {f} : new.seen[g] = st.seen[g]
    BY <1>0, <1>3, <2>1, SeeIs
  <2> HIDE DEF new
  <2>3. Keeps(st, new)
    BY <2>2 DEF Keeps
  <2> DEFINE m == Len(st.tree) + 1
  <2> HIDE DEF m
  <2>4. Merged(st.tree, tree, f, m, c.roots[1].kids) /\ EvOf(tree[m].kids) \subseteq EvOf(c.roots[1].kids)
    BY <1>3 DEF Takes, m
  <2>5. Good(new)
    BY <2>2, <2>3, <2>4, SeenIsGood
  <2> QED BY <2>2, <2>3, <2>5
<1>4. CASE new = [st EXCEPT !.reserved = @ \cup {f}]
  BY <1>4, ReservedIsGood
<1>5. CASE new = MarkDirty(st)
  BY <1>2, <1>5, DirtyIsGood
<1>6. CASE new = st
  BY <1>1, <1>6
<1>7. CASE Shown(c) /\ \E tree :
                 /\ Takes(st, f, c, tree, Len(st.tree) + 1)
                 /\ EvOf(tree[Len(st.tree) + 1].kids) = EvOf(c.roots[1].kids)
                 /\ LoadDoc(st, f, c) = See([st EXCEPT !.tree = tree], f, c)
  <2>1. PICK tree :
          /\ Takes(st, f, c, tree, Len(st.tree) + 1)
          /\ EvOf(tree[Len(st.tree) + 1].kids) = EvOf(c.roots[1].kids)
          /\ new = See([st EXCEPT !.tree = tree], f, c)
    BY <1>7
  <2>2. Good(new) /\ Keeps(st, new) /\ new.tree = tree
    BY <1>3, <1>7, <2>1
  <2> QED BY <1>0, <2>1, <2>2, TakenFiles
<1> QED BY <1>0, <1>4, <1>5, <1>6, <1>7, LoadDocIs

Loading(docs, n, up) ==
    up = [f \in 0 .. n |-> IF f = 0 THEN [NoStore EXCEPT !.up = TRUE] ELSE LoadDoc(up[f - 1], f, docs[f])]
LEMMA LoadUp ==
    ASSUME NEW docs
    PROVE  \E up : /\ LoadDocs(docs) = RepairRootIDs(DropSplitDuplicates(up[MaxFile]))
                   /\ up[0] = [NoStore EXCEPT !.up = TRUE]
                   /\ \A f \in 1 .. MaxFile : up[f] = LoadDoc(up[f - 1], f, docs[f])
<1> DEFINE D == {n \in Nat : \E up : Loading(docs, n, up)}
<1>1. 0 \in D
  <2>1. Loading(docs, 0, [f \in 0 .. 0 |-> [NoStore EXCEPT !.up = TRUE]])
    BY DEF Loading
  <2> QED BY <2>1
<1>2. ASSUME NEW n \in Nat, n \in D PROVE n + 1 \in D
  <2>1. PICK u : Loading(docs, n, u)
    BY <1>2
  <2> DEFINE More(x, f) == LoadDoc(x, f, docs[f])
             none == [NoStore EXCEPT !.up = TRUE]
             v == [f \in 0 .. n + 1 |-> IF f <= n THEN u[f] ELSE More(u[n], f)]
  <2>2. \A f \in 0 .. n : u[f] = IF f = 0 THEN none ELSE More(u[f - 1], f)
    BY <2>1 DEF Loading
  <2> HIDE DEF More, none
  <2>3. \A f \in 0 .. n + 1 : v[f] = IF f = 0 THEN none ELSE More(v[f - 1], f)
    <3>1. \A f \in 0 .. n : v[f] = u[f]
      OBVIOUS
    <3>2. v[n + 1] = More(v[n], n + 1)
      OBVIOUS
    <3> HIDE DEF v
    <3>3. \A f \in 0 .. n : v[f] = IF f = 0 THEN none ELSE More(v[f - 1], f)
      BY <2>2, <3>1
    <3>4. \A f \in 0 .. n + 1 : f \in 0 .. n \/ (f = n + 1 /\ f # 0 /\ f - 1 = n)
      OBVIOUS
    <3> QED BY <3>2, <3>3, <3>4
  <2>4. Loading(docs, n + 1, v)
    BY <2>3 DEF Loading, More, none
  <2> QED BY <2>4
<1> HIDE DEF D
<1>3. MaxFile \in D
  BY <1>1, <1>2, Induction, RecordAssumption
<1> DEFINE u == CHOOSE up : Loading(docs, MaxFile, up)
<1>4. LoadDocs(docs) = RepairRootIDs(DropSplitDuplicates(u[MaxFile]))
  BY DEF LoadDocs, Loading
<1>5. Loading(docs, MaxFile, u)
  BY <1>3 DEF D
<1> HIDE DEF u
<1>6. \A f \in 0 .. MaxFile : u[f] = IF f = 0 THEN [NoStore EXCEPT !.up = TRUE] ELSE LoadDoc(u[f - 1], f, docs[f])
  BY <1>5 DEF Loading
<1>7. u[0] = [NoStore EXCEPT !.up = TRUE] /\ \A f \in 1 .. MaxFile : u[f] = LoadDoc(u[f - 1], f, docs[f])
  <2>1. 0 \in 0 .. MaxFile /\ \A f \in 1 .. MaxFile : f \in 0 .. MaxFile /\ f # 0
    BY RecordAssumption
  <2> QED BY <1>6, <2>1
<1> QED BY <1>4, <1>7

LEMMA NoStoreIs == Good(NoStore) /\ ~NoStore.up /\ ~NoStore.dirty
<1>1. Unseen \in Seens
  BY DEF Unseen, Seens, Contents
<1>2. NoStore \in Stores
  BY <1>1 DEF NoStore, Stores
<1>3. NoStore.tree = <<>> /\ ~NoStore.up /\ ~NoStore.dirty
  BY DEF NoStore
<1> QED BY <1>2, <1>3 DEF Good, HasSeen, NoneElse

\* A store that has just loaded the documents.
LEMMA LoadIsGood ==
    ASSUME NEW docs \in [Files -> Contents]
    PROVE  Good(LoadDocs(docs)) /\ LoadDocs(docs).up
<1>1. PICK up : /\ LoadDocs(docs) = RepairRootIDs(DropSplitDuplicates(up[MaxFile]))
                /\ up[0] = [NoStore EXCEPT !.up = TRUE]
                /\ \A f \in 1 .. MaxFile : up[f] = LoadDoc(up[f - 1], f, docs[f])
  BY LoadUp
<1> DEFINE Well(f) == /\ Good(up[f]) /\ up[f].up
                      /\ \A i \in DOMAIN up[f].tree : up[f].tree[i].file \in 1 .. f
           D == {f \in Nat : f <= MaxFile => Well(f)}
<1>2. 0 \in D
  <2> DEFINE none == [NoStore EXCEPT !.up = TRUE]
  <2>1. none \in Stores /\ none.tree = <<>> /\ none.up
    BY NoStoreIs DEF Good, Stores, NoStore
  <2> HIDE DEF none
  <2>2. Good(none)
    BY <2>1 DEF Good, HasSeen, NoneElse
  <2>3. up[0] = none
    BY <1>1 DEF none
  <2>4. DOMAIN up[0].tree = {}
    BY <2>1, <2>3
  <2> QED BY <2>1, <2>2, <2>3, <2>4
<1>3. ASSUME NEW f \in Nat, f \in D PROVE f + 1 \in D
  <2> SUFFICES ASSUME f + 1 <= MaxFile PROVE Well(f + 1)
    OBVIOUS
  <2>0. f + 1 \in 1 .. MaxFile /\ f + 1 \in Files /\ (f + 1) - 1 = f
    BY RecordAssumption DEF Files
  <2>1. Well(f)
    BY <1>3, RecordAssumption
  <2>2. up[f + 1] = LoadDoc(up[f], f + 1, docs[f + 1])
    BY <1>1, <2>0
  <2>3. RootsOf(up[f].tree, f + 1) = {}
    BY <2>1 DEF RootsOf
  <2>4. docs[f + 1] \in Contents
    BY <2>0
  <2> DEFINE old == up[f]  new == up[f + 1]  g == f + 1  c == docs[f + 1]
  <2>5. Good(old) /\ g \in Files /\ c \in Contents /\ RootsOf(old.tree, g) = {} /\ new = LoadDoc(old, g, c)
    BY <2>0, <2>1, <2>2, <2>3, <2>4
  <2> HIDE DEF old, new, g, c
  <2>6. /\ Good(new) /\ Keeps(old, new)
        /\ \A i \in DOMAIN new.tree : new.tree[i].file \in {old.tree[j].file : j \in DOMAIN old.tree} \cup {g}
    BY <2>5, LoadDocIsGood
  <2>7. {old.tree[j].file : j \in DOMAIN old.tree} \cup {g} \subseteq 1 .. f + 1
    BY <2>1 DEF old, g
  <2> QED BY <2>1, <2>6, <2>7 DEF Keeps, old, new
<1> HIDE DEF D
<1>4. MaxFile \in D /\ MaxFile \in Nat
  BY <1>2, <1>3, Induction, RecordAssumption
<1>5. Well(MaxFile)
  BY <1>4 DEF D
<1> DEFINE mid == DropSplitDuplicates(up[MaxFile])
<1>6. Good(mid) /\ mid.up
  BY <1>5, DropIsGood DEF Keeps
<1> HIDE DEF mid
<1>7. Remade(mid, RepairRootIDs(mid))
  BY <1>6, RepairIs DEF Good
<1> QED BY <1>1, <1>6, <1>7, RemadeIsGood DEF Keeps, mid

LEMMA StartFreshIs ==
    ASSUME NEW st \in Stores, NEW active
    PROVE  Remade(st, StartFresh(st, active))
<1> DEFINE is == {p \in Places(st.tree) : IdAt(st.tree, p) = active /\ At(st.tree, p).st = "doing"}
           tree == SetMark(st.tree, CHOOSE p \in is : TRUE, "todo")
<1>1. StartFresh(st, active) = MarkDirty(IF is = {} THEN st ELSE [st EXCEPT !.tree = tree])
  BY DEF StartFresh
<1>2. Alike(st.tree, tree)
  BY SetMarkIs DEF Stores, Statuses
<1> HIDE DEF tree, is
<1>3. CASE is = {}
  <2>1. Alike(st.tree, st.tree) /\ [st EXCEPT !.tree = st.tree] = st
    BY DEF Stores, Alike
  <2>2. StartFresh(st, active) = MarkDirty([st EXCEPT !.tree = st.tree])
    BY <1>1, <1>3, <2>1
  <2> QED BY <2>1, <2>2 DEF Remade
<1>4. CASE is # {}
  BY <1>1, <1>2, <1>4 DEF Remade
<1> QED BY <1>3, <1>4

\* What a flush has named and is about to write is the tree's: until the
\* session works on, all of it.
Writes == [file : Files, task : Tasks]
Writing == {"look", "put", "save"}
Phases == {"idle", "reload", "merge", "render"} \cup Writing
IsFlush(fl) ==
    fl \in [pc : Phases, got : [Files -> Contents], writes : Seq(Writes), cur : Contents,
            written : SUBSET Writes, names : Seq(Files), active : {fl.active}]
Held(st, i, kids) ==
    /\ EvOf(kids) \subseteq EvOf(st.tree[i].kids)
    /\ ~st.moved => EvOf(st.tree[i].kids) \subseteq EvOf(kids)
Ours(fl) == fl.written \cup ToSet(fl.writes)
NamesOf(st, fl) ==
    /\ Len(fl.names) <= Len(st.tree) /\ (~st.moved => Len(fl.names) = Len(st.tree))
    /\ \A i, j \in 1 .. Len(fl.names) : fl.names[i] = fl.names[j] => i = j
    /\ \A i \in Len(fl.names) + 1 .. Len(st.tree) : st.tree[i].file = NoFile
    /\ \A i \in 1 .. Len(fl.names) : fl.names[i] \notin st.reserved
    /\ \A f \in Files : \A i \in 1 .. Len(fl.names) :
          IsFirst(st.tree, f, i) /\ f \notin st.reserved => fl.names[i] = f
WritesOf(st, fl) ==
    /\ \A w \in Ours(fl) : \E i \in 1 .. Len(fl.names) : fl.names[i] = w.file
    /\ \A i \in 1 .. Len(fl.names) :
          /\ \A w \in Ours(fl) : w.file = fl.names[i] => Held(st, i, w.task.kids)
          /\ (\A w \in Ours(fl) : w.file # fl.names[i]) => Held(st, i, st.seen[fl.names[i]].doc.roots[1].kids)
Flushes(st, fl) ==
    /\ fl.pc \notin {"idle", "reload"} => st.dirty
    /\ fl.pc \in Writing => NamesOf(st, fl) /\ WritesOf(st, fl)
    /\ fl.pc = "save" => fl.writes = <<>>
    /\ fl.pc \in {"look", "put"} => fl.writes # <<>>
    /\ ~st.up => fl.pc = "idle"
Inv ==
    /\ disk \in [Files -> Contents] /\ ink \in Nat
    /\ store \in [Sessions -> Stores] /\ flush = [s \in Sessions |-> flush[s]]
    /\ \A s \in Sessions : Good(store[s]) /\ IsFlush(flush[s]) /\ Flushes(store[s], flush[s])

-----------------------------------------------------------------------------
(* The session's own work *)

\* Roots keep their files and their lines, and what is new has no file.
Grown(a, b) ==
    /\ b \in Seq(Roots) /\ Len(a) <= Len(b)
    /\ \A i \in 1 .. Len(a) : b[i].file = a[i].file /\ EvOf(a[i].kids) \subseteq EvOf(b[i].kids)
    /\ \A i \in Len(a) + 1 .. Len(b) : b[i].file = NoFile

LEMMA AlikeGrown ==
    ASSUME NEW a \in Seq(Roots), NEW b, Alike(a, b)
    PROVE  Grown(a, b)
BY DEF Alike, Grown

LEMMA WorkIs ==
    ASSUME NEW st, Good(st), NEW fl, IsFlush(fl), Flushes(st, fl), NEW tree, Grown(st.tree, tree)
    PROVE  LET new == MarkDirty([st EXCEPT !.tree = tree]) IN Good(new) /\ Flushes(new, fl)
<1> DEFINE new == MarkDirty([st EXCEPT !.tree = tree])
<1>0. st \in Stores /\ st.tree \in Seq(Roots) /\ tree \in Seq(Roots) /\ Len(st.tree) \in Nat /\ Len(tree) \in Nat
  BY DEF Good, Stores, Grown
<1>1. new = [[st EXCEPT !.tree = tree] EXCEPT !.dirty = TRUE, !.moved = TRUE]
  BY DEF MarkDirty
<1> HIDE DEF new
<1>2. /\ new \in Stores /\ new.tree = tree /\ new.seen = st.seen /\ new.reserved = st.reserved
      /\ new.up = st.up /\ new.dirty /\ new.moved
  BY <1>0, <1>1 DEF Stores
<1>3. ASSUME NEW f \in Files, NEW i \in 1 .. Len(tree), IsFirst(tree, f, i)
      PROVE  i \in 1 .. Len(st.tree) /\ IsFirst(st.tree, f, i) /\ EvOf(st.tree[i].kids) \subseteq EvOf(tree[i].kids)
  <2>1. i \in 1 .. Len(st.tree)
    <3>1. tree[i].file # NoFile
      BY <1>3 DEF IsFirst, Files, NoFile
    <3>2. i \in 1 .. Len(st.tree) \/ i \in Len(st.tree) + 1 .. Len(tree)
      BY <1>0
    <3> QED BY <3>1, <3>2 DEF Grown
  <2>2. \A j \in 1 .. i : j \in 1 .. Len(st.tree)
    BY <1>0, <2>1
  <2>3. \A j \in 1 .. i : tree[j].file = st.tree[j].file
    BY <2>2 DEF Grown
  <2>4. i \in 1 .. i /\ \A j \in 1 .. i - 1 : j \in 1 .. i
    BY <2>1
  <2>5. IsFirst(st.tree, f, i)
    BY <1>3, <2>3, <2>4 DEF IsFirst
  <2> QED BY <2>1, <2>5 DEF Grown
<1>4. Good(new)
  BY <1>2, <1>3 DEF Good, HasSeen
<1>5. ASSUME fl.pc \in Writing PROVE NamesOf(new, fl) /\ WritesOf(new, fl)
  <2>1. NamesOf(st, fl) /\ WritesOf(st, fl) /\ Len(fl.names) \in Nat
    BY <1>5 DEF Flushes, IsFlush
  <2>2. \A i \in Len(fl.names) + 1 .. Len(tree) : tree[i].file = NoFile
    <3> SUFFICES ASSUME NEW i \in Len(fl.names) + 1 .. Len(tree) PROVE tree[i].file = NoFile
      OBVIOUS
    <3>1. i \in Len(fl.names) + 1 .. Len(st.tree) \/ i \in Len(st.tree) + 1 .. Len(tree)
      BY <1>0, <2>1
    <3>2. CASE i \in Len(fl.names) + 1 .. Len(st.tree)
      <4>1. i \in 1 .. Len(st.tree)
        BY <3>2, <2>1
      <4> QED BY <3>2, <4>1, <2>1 DEF NamesOf, Grown
    <3>3. CASE i \in Len(st.tree) + 1 .. Len(tree)
      BY <3>3 DEF Grown
    <3> QED BY <3>1, <3>2, <3>3
  <2>3. Len(fl.names) <= Len(st.tree) /\ Len(fl.names) <= Len(tree) /\ \A i \in 1 .. Len(fl.names) : i \in 1 .. Len(st.tree) /\ i \in 1 .. Len(tree)
    BY <1>0, <2>1 DEF NamesOf, Grown
  <2>4. NamesOf(new, fl)
    BY <1>2, <1>3, <2>1, <2>2, <2>3 DEF NamesOf
  <2>5. ASSUME NEW i \in 1 .. Len(fl.names), NEW kids, Held(st, i, kids) PROVE Held(new, i, kids)
    <3>1. EvOf(st.tree[i].kids) \subseteq EvOf(tree[i].kids)
      BY <2>3 DEF Grown
    <3> QED BY <1>2, <2>5, <3>1 DEF Held
  <2>6. WritesOf(new, fl)
    BY <1>2, <2>1, <2>5 DEF WritesOf
  <2> QED BY <2>4, <2>6
<1>6. Flushes(new, fl)
  BY <1>2, <1>5 DEF Flushes
<1> QED BY <1>4, <1>6 DEF new

LEMMA NoteGrows ==
    ASSUME NEW st \in Stores, NEW p \in Places(st.tree), NEW l \in Nat
    PROVE  /\ [st EXCEPT !.tree[p[1]].kids[p[2]].ev = @ \cup {l}] =
                  [st EXCEPT !.tree = [st.tree EXCEPT ![p[1]].kids[p[2]].ev = @ \cup {l}]]
           /\ Grown(st.tree, [st.tree EXCEPT ![p[1]].kids[p[2]].ev = @ \cup {l}])
<1> DEFINE i == p[1]  k == p[2]  r == st.tree[i]  n == r.kids[k]
           kids == [r.kids EXCEPT ![k] = [n EXCEPT !.ev = n.ev \cup {l}]]
           tree == [st.tree EXCEPT ![i] = [r EXCEPT !.kids = kids]]
<1>0. st.tree \in Seq(Roots) /\ i \in 1 .. Len(st.tree) /\ k \in DOMAIN r.kids
  BY DEF Stores, Places
<1>1. tree = [st.tree EXCEPT ![p[1]].kids[p[2]].ev = @ \cup {l}]
  OBVIOUS
<1>2. [st EXCEPT !.tree[p[1]].kids[p[2]].ev = @ \cup {l}] = [st EXCEPT !.tree = tree]
  OBVIOUS
<1>3. r \in Roots
  BY <1>0
<1> HIDE DEF r
<1>4. r.kids \in Seq(Nodes)
  BY <1>3 DEF Roots
<1>5. n \in Nodes
  BY <1>0, <1>4
<1> HIDE DEF n
<1>6. [n EXCEPT !.ev = n.ev \cup {l}] \in Nodes /\ [n EXCEPT !.ev = n.ev \cup {l}].ev = n.ev \cup {l}
  BY <1>5 DEF Nodes
<1>7. kids \in Seq(Nodes) /\ DOMAIN kids = DOMAIN r.kids
  BY <1>0, <1>4, <1>6
<1>8. \A j \in DOMAIN r.kids : r.kids[j].ev \subseteq kids[j].ev
  BY <1>0, <1>4, <1>6 DEF n
<1> HIDE DEF kids
<1>9. EvOf(r.kids) \subseteq EvOf(kids)
  BY <1>7, <1>8, EvOfIn
<1>10. [r EXCEPT !.kids = kids] \in Roots /\ [r EXCEPT !.kids = kids].file = r.file /\ [r EXCEPT !.kids = kids].kids = kids
  BY <1>3, <1>7 DEF Roots
<1>11. /\ tree \in Seq(Roots) /\ Len(tree) = Len(st.tree) /\ tree[i] = [r EXCEPT !.kids = kids]
       /\ \A j \in 1 .. Len(st.tree) : j # i => tree[j] = st.tree[j]
  BY <1>0, <1>10
<1> HIDE DEF tree
<1>12. ASSUME NEW j \in 1 .. Len(st.tree) PROVE tree[j].file = st.tree[j].file /\ EvOf(st.tree[j].kids) \subseteq EvOf(tree[j].kids)
  <2>1. CASE j = i
    BY <2>1, <1>9, <1>10, <1>11 DEF r
  <2>2. CASE j # i
    BY <2>2, <1>11
  <2> QED BY <2>1, <2>2
<1>13. Grown(st.tree, tree)
  <2>1. Len(st.tree) \in Nat /\ Len(st.tree) <= Len(tree) /\ Len(st.tree) + 1 .. Len(tree) = {}
    BY <1>0, <1>11
  <2> HIDE DEF i, k, r
  <2> QED BY <1>11, <1>12, <2>1 DEF Grown
<1> QED BY <1>1, <1>2, <1>13

LEMMA AddGrows ==
    ASSUME NEW st \in Stores, NEW i \in DOMAIN st.tree, NEW text \in Texts
    PROVE  LET tree == [st.tree EXCEPT ![i].kids = Append(@, [id |-> NextIndex(@), text |-> text, st |-> "todo", ev |-> {}])] IN
           /\ [st EXCEPT !.tree[i].kids = Append(@, [id |-> NextIndex(@), text |-> text, st |-> "todo", ev |-> {}])] =
                  [st EXCEPT !.tree = tree]
           /\ Grown(st.tree, tree)
<1> DEFINE r == st.tree[i]
           n == [id |-> NextIndex(r.kids), text |-> text, st |-> "todo", ev |-> {}]
           kids == Append(r.kids, n)
           tree == [st.tree EXCEPT ![i] = [r EXCEPT !.kids = kids]]
<1>0. st.tree \in Seq(Roots) /\ i \in 1 .. Len(st.tree)
  BY DEF Stores
<1>1. tree = [st.tree EXCEPT ![i].kids = Append(@, [id |-> NextIndex(@), text |-> text, st |-> "todo", ev |-> {}])]
  OBVIOUS
<1>2. [st EXCEPT !.tree[i].kids = Append(@, [id |-> NextIndex(@), text |-> text, st |-> "todo", ev |-> {}])] = [st EXCEPT !.tree = tree]
  OBVIOUS
<1>3. r \in Roots
  BY <1>0
<1> HIDE DEF r
<1>4. r.kids \in Seq(Nodes)
  BY <1>3 DEF Roots
<1>5. NextIndex(r.kids) \in Nat
  <2>1. DOMAIN r.kids \subseteq 1 .. Len(r.kids) /\ Len(r.kids) \in Nat
    BY <1>4
  <2>2. ASSUME NEW k \in DOMAIN r.kids PROVE r.kids[k].id \in Nat
    <3>1. r.kids[k] \in Nodes
      BY <1>4
    <3> QED BY <3>1 DEF Nodes
  <2> QED BY <2>1, <2>2, NextIndexIs
<1>6. n \in Nodes
  BY <1>5 DEF Nodes, Statuses
<1> HIDE DEF n
<1>7. kids \in Seq(Nodes) /\ Len(kids) = Len(r.kids) + 1 /\ \A k \in 1 .. Len(r.kids) : kids[k] = r.kids[k]
  BY <1>4, <1>6, AppendProperties
<1> HIDE DEF kids
<1>8. \A k \in DOMAIN r.kids : k \in DOMAIN kids /\ r.kids[k].ev \subseteq kids[k].ev
  BY <1>4, <1>7
<1>9. EvOf(r.kids) \subseteq EvOf(kids)
  BY <1>8, EvOfIn
<1>10. [r EXCEPT !.kids = kids] \in Roots /\ [r EXCEPT !.kids = kids].file = r.file /\ [r EXCEPT !.kids = kids].kids = kids
  BY <1>3, <1>7 DEF Roots
<1>11. /\ tree \in Seq(Roots) /\ Len(tree) = Len(st.tree) /\ tree[i] = [r EXCEPT !.kids = kids]
       /\ \A j \in 1 .. Len(st.tree) : j # i => tree[j] = st.tree[j]
  BY <1>0, <1>10
<1> HIDE DEF tree
<1>12. ASSUME NEW j \in 1 .. Len(st.tree) PROVE tree[j].file = st.tree[j].file /\ EvOf(st.tree[j].kids) \subseteq EvOf(tree[j].kids)
  <2>1. CASE j = i
    BY <2>1, <1>9, <1>10, <1>11 DEF r
  <2>2. CASE j # i
    BY <2>2, <1>11
  <2> QED BY <2>1, <2>2
<1>13. Grown(st.tree, tree)
  <2>1. Len(st.tree) \in Nat /\ Len(st.tree) <= Len(tree) /\ Len(st.tree) + 1 .. Len(tree) = {}
    BY <1>0, <1>11
  <2> HIDE DEF r
  <2> QED BY <1>11, <1>12, <2>1 DEF Grown
<1> QED BY <1>1, <1>2, <1>13

LEMMA PlanGrows ==
    ASSUME NEW tree \in Seq(Roots), NEW r \in Roots, r.file = NoFile
    PROVE  Grown(tree, Append(TakeBack(tree), r))
<1> DEFINE back == TakeBack(tree)
<1>1. back \in Seq(Roots) /\ Len(back) = Len(tree) /\ Alike(tree, back) /\ Len(tree) \in Nat
  BY TakeBackIs DEF Alike
<1> HIDE DEF back
<1>2. /\ Append(back, r) \in Seq(Roots) /\ Len(Append(back, r)) = Len(tree) + 1
      /\ \A i \in 1 .. Len(tree) : Append(back, r)[i] = back[i]
      /\ Append(back, r)[Len(tree) + 1] = r
  BY <1>1, AppendProperties
<1>3. \A i \in Len(tree) + 1 .. Len(Append(back, r)) : i = Len(tree) + 1
  BY <1>1, <1>2
<1> QED BY <1>1, <1>2, <1>3 DEF Grown, Alike, back

-----------------------------------------------------------------------------
(* Flush: the snapshot, and what is remembered of it *)
LEMMA TaskIs ==
    ASSUME NEW r \in Roots
    PROVE  Task(r) \in Tasks /\ Task(r).kids = r.kids
BY DEF Task, Tasks, Roots

\* A flush just begun, with the fields a step gives it.
Fresh(pc, got, names, writes, active) ==
    [pc : {pc}, got : {got}, writes : {writes}, cur : {NoDoc}, written : {{}}, names : {names}, active : {active}]
LEMMA NoFlushIs == NoFlush \in Fresh("idle", [f \in Files |-> NoDoc], <<>>, <<>>, None)
BY DEF NoFlush, Fresh
LEMMA SnapshotIs ==
    ASSUME NEW pc, NEW names, NEW writes, NEW active
    PROVE  [NoFlush EXCEPT !.pc = pc, !.names = names, !.writes = writes, !.active = active] \in
               Fresh(pc, [f \in Files |-> NoDoc], names, writes, active)
<1> DEFINE n == NoFlush
<1>1. n \in Fresh("idle", [f \in Files |-> NoDoc], <<>>, <<>>, None)
  BY NoFlushIs
<1> HIDE DEF n
<1>2. [n EXCEPT !.pc = pc, !.names = names, !.writes = writes, !.active = active] \in
          Fresh(pc, [f \in Files |-> NoDoc], names, writes, active)
  BY <1>1 DEF Fresh
<1> QED BY <1>2 DEF n

\* The numbers of A in their order and then those of B.
Ordered(n, A, B) == InOrder(A, n) \o InOrder(B, n)
LeadsWith(order, A) ==
    \E m \in 0 .. Len(order) : /\ \A k \in 1 .. m : order[k] \in A
                               /\ \A x \in A : \E k \in 1 .. m : order[k] = x
LEMMA OrderIs ==
    ASSUME NEW n \in Nat, NEW A, NEW B, A \cup B \subseteq 1 .. n
    PROVE  /\ Ordered(n, A, B) \in Seq(A \cup B) /\ ToSet(Ordered(n, A, B)) = A \cup B
           /\ LeadsWith(Ordered(n, A, B), A)
<1> DEFINE one == InOrder(A, n)  two == InOrder(B, n)  order == one \o two
<1>1. one \in Seq(A) /\ ToSet(one) = A
  <2>1. one \in Seq(A \cap (1 .. n)) /\ ToSet(one) = A \cap (1 .. n) /\ A \cap (1 .. n) = A
    BY InOrderIs
  <2> HIDE DEF one
  <2> QED BY <2>1
<1>2. two \in Seq(B) /\ ToSet(two) = B
  <2>1. two \in Seq(B \cap (1 .. n)) /\ ToSet(two) = B \cap (1 .. n) /\ B \cap (1 .. n) = B
    BY InOrderIs
  <2> HIDE DEF two
  <2> QED BY <2>1
<1> HIDE DEF one, two
<1>3. one \in Seq(A \cup B) /\ two \in Seq(A \cup B)
  BY <1>1, <1>2
<1>4. /\ order \in Seq(A \cup B) /\ Len(order) = Len(one) + Len(two)
      /\ Len(one) \in Nat /\ Len(two) \in Nat /\ DOMAIN order = 1 .. Len(order)
      /\ \A i \in 1 .. Len(one) + Len(two) : order[i] = IF i <= Len(one) THEN one[i] ELSE two[i - Len(one)]
  BY <1>3, ConcatProperties
<1> HIDE DEF order
<1>5. ASSUME NEW x \in A PROVE \E k \in 1 .. Len(one) : order[k] = x
  <2>1. PICK i \in 1 .. Len(one) : one[i] = x
    BY <1>1, <1>5 DEF ToSet
  <2> QED BY <1>4, <2>1
<1>6. ASSUME NEW x \in B PROVE \E k \in 1 .. Len(order) : order[k] = x
  <2>1. PICK i \in 1 .. Len(two) : two[i] = x
    BY <1>2, <1>6 DEF ToSet
  <2>2. Len(one) + i \in 1 .. Len(order) /\ order[Len(one) + i] = x
    BY <1>4, <2>1
  <2> QED BY <2>2
<1>7. \A k \in 1 .. Len(one) : order[k] \in A
  BY <1>1, <1>4
<1>8. ToSet(order) = A \cup B
  <2>1. \A k \in 1 .. Len(order) : order[k] \in A \cup B
    BY <1>4
  <2>2. \A x \in A : \E k \in 1 .. Len(order) : order[k] = x
    BY <1>4, <1>5
  <2>3. ToSet(order) \subseteq A \cup B
    BY <1>4, <2>1 DEF ToSet
  <2>4. ASSUME NEW x \in A \cup B PROVE x \in ToSet(order)
    <3>1. PICK k \in 1 .. Len(order) : order[k] = x
      BY <1>6, <2>2
    <3> QED BY <1>4, <3>1 DEF ToSet
  <2> QED BY <2>3, <2>4
<1>9. Len(one) \in 0 .. Len(order)
  BY <1>4
<1>10. order = Ordered(n, A, B)
  BY DEF Ordered, order, one, two
<1> QED BY <1>4, <1>5, <1>7, <1>8, <1>9, <1>10 DEF LeadsWith

\* FlushRender: each root has a name of its own, and is written or is what the
\* store last saw there.
LEMMA RenderIs ==
    ASSUME NEW st, Good(st), st.dirty, ToSet(DocNames(st)) \subseteq Files
    PROVE  LET names == DocNames(st)
               differs == {i \in DOMAIN names : st.seen[names[i]].doc # Render(st.tree[i])}
               split == {i \in DOMAIN names : st.tree[i].file \notin {NoFile, names[i]}}
               order == InOrder(differs \cap split, Len(names)) \o InOrder(differs \ split, Len(names))
               writes == [k \in DOMAIN order |-> [file |-> names[order[k]], task |-> Task(st.tree[order[k]])]]
               pc == IF writes = <<>> THEN "save" ELSE "look"
               new == [st EXCEPT !.moved = FALSE]
           IN  \A active :
                   LET fl == [NoFlush EXCEPT !.pc = pc, !.names = names, !.writes = writes, !.active = active] IN
                   st.up => Good(new) /\ IsFlush(fl) /\ Flushes(new, fl)
<1> DEFINE names == DocNames(st)
           differs == {i \in DOMAIN names : st.seen[names[i]].doc # Render(st.tree[i])}
           split == {i \in DOMAIN names : st.tree[i].file \notin {NoFile, names[i]}}
           one == InOrder(differs \cap split, Len(names))
           two == InOrder(differs \ split, Len(names))
           order == one \o two
           writes == [k \in DOMAIN order |-> [file |-> names[order[k]], task |-> Task(st.tree[order[k]])]]
           pc == IF writes = <<>> THEN "save" ELSE "look"
           new == [st EXCEPT !.moved = FALSE]
<1> SUFFICES ASSUME st.up, NEW active
             PROVE  LET fl == [NoFlush EXCEPT !.pc = pc, !.names = names, !.writes = writes, !.active = active] IN
                    Good(new) /\ IsFlush(fl) /\ Flushes(new, fl)
  OBVIOUS
<1> DEFINE fl == [NoFlush EXCEPT !.pc = pc, !.names = names, !.writes = writes, !.active = active]
<1>0. st \in Stores /\ st.tree \in Seq(Roots) /\ Len(st.tree) \in Nat
  BY DEF Good, Stores
<1>1. /\ names \in Seq(Nat) /\ Len(names) = Len(st.tree)
      /\ \A i, j \in 1 .. Len(names) : names[i] = names[j] => i = j
      /\ \A i \in 1 .. Len(names) : names[i] \notin st.reserved
      /\ \A f \in Files : \A i \in 1 .. Len(names) :
            IsFirst(st.tree, f, i) /\ f \notin st.reserved => names[i] = f
  BY <1>0, DocNamesIs
<1>2. names \in Seq(Files) /\ \A i \in 1 .. Len(names) : names[i] \in Files
  <2> HIDE DEF names
  <2>1. \A i \in 1 .. Len(names) : names[i] \in ToSet(names)
    BY <1>1 DEF ToSet
  <2>2. \A i \in 1 .. Len(names) : names[i] \in Files
    BY <2>1 DEF names
  <2> QED BY <1>1, <2>2
<1> HIDE DEF names
<1>3. differs \subseteq 1 .. Len(names) /\ DOMAIN names = 1 .. Len(names) /\ Len(names) \in Nat
  BY <1>1
<1>4. order \in Seq(differs) /\ ToSet(order) = differs
  <2> DEFINE A == differs \cap split  B == differs \ split
  <2>1. A \cup B = differs
    OBVIOUS
  <2> DEFINE n == Len(names)
  <2>2. A \cup B \subseteq 1 .. n /\ n \in Nat
    BY <1>3, <2>1
  <2>3. order = Ordered(n, A, B)
    BY DEF Ordered
  <2> HIDE DEF differs, split, A, B, n, order
  <2>4. Ordered(n, A, B) \in Seq(A \cup B) /\ ToSet(Ordered(n, A, B)) = A \cup B
    BY <2>2, OrderIs
  <2> QED BY <2>1, <2>3, <2>4
<1> HIDE DEF order
<1>5. \A i \in differs : [file |-> names[i], task |-> Task(st.tree[i])] \in Writes
  <2> SUFFICES ASSUME NEW i \in differs PROVE [file |-> names[i], task |-> Task(st.tree[i])] \in Writes
    OBVIOUS
  <2>1. i \in 1 .. Len(names) /\ names[i] \in Files /\ st.tree[i] \in Roots
    BY <1>0, <1>1, <1>2, <1>3
  <2> QED BY <2>1, TaskIs DEF Writes
<1> HIDE DEF differs
<1>6. writes \in Seq(Writes) /\ DOMAIN writes = DOMAIN order
  <2>1. \A k \in DOMAIN order : order[k] \in differs /\ writes[k] \in Writes
    BY <1>4, <1>5
  <2>2. DOMAIN writes = DOMAIN order /\ DOMAIN order = 1 .. Len(order) /\ Len(order) \in Nat
    BY <1>4
  <2>3. writes = [k \in 1 .. Len(order) |-> writes[k]]
    BY <2>2
  <2> HIDE DEF writes
  <2> QED BY <2>1, <2>2, <2>3, IsSequence
<1>7. \A k \in DOMAIN order : writes[k] = [file |-> names[order[k]], task |-> Task(st.tree[order[k]])]
  OBVIOUS
<1> HIDE DEF writes
<1>8. ASSUME NEW w \in ToSet(writes)
      PROVE  \E i \in differs : w.file = names[i] /\ w.task = Task(st.tree[i])
  <2>1. PICK k \in DOMAIN order : w = writes[k]
    BY <1>6, <1>8 DEF ToSet
  <2>2. order[k] \in differs
    BY <1>4
  <2>3. w = [file |-> names[order[k]], task |-> Task(st.tree[order[k]])]
    BY <2>1, <1>7
  <2>4. w.file = names[order[k]] /\ w.task = Task(st.tree[order[k]])
    BY <2>3
  <2> QED BY <2>2, <2>4
<1>9. ASSUME NEW i \in differs PROVE \E w \in ToSet(writes) : w.file = names[i]
  <2>1. PICK k \in DOMAIN order : order[k] = i
    BY <1>4, <1>9 DEF ToSet
  <2>2. writes[k] \in ToSet(writes)
    BY <1>6 DEF ToSet
  <2>3. writes[k] = [file |-> names[i], task |-> Task(st.tree[i])]
    BY <2>1, <1>7
  <2>4. writes[k].file = names[i]
    BY <2>3
  <2> QED BY <2>2, <2>4
<1>10. /\ new \in Stores /\ new.tree = st.tree /\ new.seen = st.seen /\ new.reserved = st.reserved
       /\ new.up = st.up /\ new.dirty = st.dirty /\ ~new.moved
  BY <1>0 DEF Stores
<1> HIDE DEF new
<1>11. Good(new)
  BY <1>10 DEF Good, HasSeen, NoneElse
<1>12. fl \in Fresh(pc, [f \in Files |-> NoDoc], names, writes, active)
  <2> HIDE DEF pc
  <2> QED BY SnapshotIs
<1>13. pc \in {"look", "save"} /\ (pc = "save" <=> writes = <<>>)
  OBVIOUS
<1> HIDE DEF fl, pc
<1>14. fl.pc = pc /\ fl.names = names /\ fl.writes = writes /\ fl.written = {} /\ fl.active = active
  BY <1>12 DEF Fresh
<1>15. IsFlush(fl)
  BY <1>2, <1>6, <1>12, <1>13 DEF IsFlush, Phases, Writing, Contents, Fresh
<1>16. Ours(fl) = ToSet(writes)
  BY <1>14 DEF Ours
<1>17. NamesOf(new, fl)
  <2>1. Len(fl.names) = Len(st.tree) /\ Len(st.tree) + 1 .. Len(st.tree) = {}
    BY <1>0, <1>1, <1>14
  <2>2. Len(fl.names) <= Len(new.tree) /\ Len(fl.names) = Len(new.tree) /\ Len(fl.names) + 1 .. Len(new.tree) = {}
    BY <1>0, <1>10, <2>1
  <2>3. \A i, j \in 1 .. Len(fl.names) : fl.names[i] = fl.names[j] => i = j
    BY <1>1, <1>14
  <2>4. \A i \in 1 .. Len(fl.names) : fl.names[i] \notin new.reserved
    BY <1>1, <1>10, <1>14
  <2>5. \A f \in Files : \A i \in 1 .. Len(fl.names) :
           IsFirst(new.tree, f, i) /\ f \notin new.reserved => fl.names[i] = f
    BY <1>1, <1>10, <1>14
  <2> QED BY <2>2, <2>3, <2>4, <2>5 DEF NamesOf
<1>18. ASSUME NEW i \in 1 .. Len(names), NEW kids, EvOf(kids) = EvOf(st.tree[i].kids) PROVE Held(new, i, kids)
  BY <1>10, <1>18 DEF Held
<1>19. ASSUME NEW i \in 1 .. Len(names), NEW w \in ToSet(writes), w.file = names[i] PROVE Held(new, i, w.task.kids)
  <2>1. PICK j \in differs : w.file = names[j] /\ w.task = Task(st.tree[j])
    BY <1>8
  <2>2. j = i
    BY <2>1, <1>1, <1>3, <1>19
  <2>3. st.tree[i] \in Roots
    BY <1>0, <1>1
  <2>4. w.task.kids = st.tree[i].kids
    BY <2>1, <2>2, <2>3, TaskIs
  <2> QED BY <2>4, <1>18
<1>20. ASSUME NEW i \in 1 .. Len(names), \A w \in ToSet(writes) : w.file # names[i]
       PROVE  Held(new, i, st.seen[names[i]].doc.roots[1].kids)
  <2>1. i \notin differs
    BY <1>9, <1>20
  <2>2. st.seen[names[i]].doc = Render(st.tree[i])
    BY <2>1, <1>3 DEF differs
  <2>3. st.tree[i] \in Roots
    BY <1>0, <1>1
  <2>4. st.seen[names[i]].doc.roots[1].kids = st.tree[i].kids
    BY <2>2, <2>3, TaskIs DEF Render, Doc
  <2> QED BY <2>4, <1>18
<1>21. WritesOf(new, fl)
  <2>1. \A w \in ToSet(writes) : \E i \in 1 .. Len(names) : names[i] = w.file
    BY <1>3, <1>8
  <2> QED BY <2>1, <1>10, <1>14, <1>16, <1>19, <1>20 DEF WritesOf
<1>22. Flushes(new, fl)
  BY <1>10, <1>14, <1>13, <1>17, <1>21 DEF Flushes, Writing
<1> QED BY <1>11, <1>15, <1>22 DEF fl, new, pc

\* What was written is what is seen.
LEMMA RememberIs ==
    ASSUME NEW st \in Stores, NEW written \in SUBSET Writes
    PROVE  LET new == Remember(st, written) IN
           /\ new \in Stores /\ new.tree = st.tree /\ new.up = st.up /\ new.dirty = st.dirty
           /\ new.moved = st.moved /\ new.reserved = st.reserved
           /\ \A f \in Files :
                 \/ \E w \in written : w.file = f /\ new.seen[f].doc = Doc(<<w.task>>) /\ new.seen[f].base = w.task
                 \/ (\A w \in written : w.file # f) /\ new.seen[f] = st.seen[f]
<1> DEFINE W(f) == CHOOSE w \in written : w.file = f
           seen == [f \in Files |-> IF \E w \in written : w.file = f
                        THEN [doc |-> Doc(<<W(f).task>>), base |-> W(f).task] ELSE st.seen[f]]
           new == Remember(st, written)
<1>1. new = [st EXCEPT !.seen = seen]
  BY DEF Remember
<1>2. ASSUME NEW f \in Files
      PROVE  /\ seen[f] \in Seens
             /\ \/ \E w \in written : w.file = f /\ seen[f].doc = Doc(<<w.task>>) /\ seen[f].base = w.task
                \/ (\A w \in written : w.file # f) /\ seen[f] = st.seen[f]
  <2>1. CASE \E w \in written : w.file = f
    <3>1. W(f) \in written /\ W(f).file = f
      BY <2>1
    <3>2. seen[f] = [doc |-> Doc(<<W(f).task>>), base |-> W(f).task]
      BY <2>1
    <3> HIDE DEF W, seen
    <3>3. W(f).task \in Tasks
      BY <3>1 DEF Writes
    <3>4. Doc(<<W(f).task>>) \in Contents
      BY <3>3 DEF Doc, Contents
    <3> QED BY <3>1, <3>2, <3>3, <3>4 DEF Seens
  <2>2. CASE ~\E w \in written : w.file = f
    BY <2>2 DEF Stores
  <2> QED BY <2>1, <2>2
<1>3. seen \in [Files -> Seens]
  <2>1. seen = [f \in Files |-> seen[f]]
    OBVIOUS
  <2> HIDE DEF seen
  <2> QED BY <1>2, <2>1
<1> HIDE DEF new, seen
<1>4. /\ new \in Stores /\ new.tree = st.tree /\ new.up = st.up /\ new.dirty = st.dirty
      /\ new.moved = st.moved /\ new.reserved = st.reserved /\ new.seen = seen
  BY <1>1, <1>3 DEF Stores
<1> QED BY <1>2, <1>4 DEF new

LEMMA DocRoot ==
    ASSUME NEW t
    PROVE  Doc(<<t>>).roots[1] = t /\ Shown(Doc(<<t>>))
BY DEF Doc, Shown, Bare

\* A write failed: what was written is seen, and the store stays dirty.
LEMMA FailsIsGood ==
    ASSUME NEW st, Good(st), st.dirty, NEW fl, IsFlush(fl), NamesOf(st, fl), WritesOf(st, fl)
    PROVE  Good(Remember(st, fl.written)) /\ Remember(st, fl.written).up = st.up
<1> DEFINE new == Remember(st, fl.written)
<1>0. st \in Stores /\ fl.written \in SUBSET Writes /\ fl.names \in Seq(Files) /\ Len(fl.names) \in Nat /\ Len(st.tree) \in Nat
  BY DEF Good, IsFlush, Stores
<1>1. /\ new \in Stores /\ new.tree = st.tree /\ new.up = st.up /\ new.dirty = st.dirty
      /\ \A f \in Files :
            \/ \E w \in fl.written : w.file = f /\ new.seen[f].doc = Doc(<<w.task>>) /\ new.seen[f].base = w.task
            \/ (\A w \in fl.written : w.file # f) /\ new.seen[f] = st.seen[f]
  BY <1>0, RememberIs
<1> HIDE DEF new
<1>2. HasSeen(new)
  <2> SUFFICES ASSUME NEW f \in Files, NEW i \in 1 .. Len(st.tree), IsFirst(st.tree, f, i), Shown(new.seen[f].doc)
               PROVE  EvOf(new.seen[f].doc.roots[1].kids) \subseteq EvOf(st.tree[i].kids)
    BY <1>1 DEF HasSeen
  <2>1. CASE new.seen[f] = st.seen[f]
    BY <2>1 DEF Good, HasSeen
  <2>2. ASSUME NEW w \in fl.written, w.file = f, new.seen[f].doc = Doc(<<w.task>>)
        PROVE  EvOf(new.seen[f].doc.roots[1].kids) \subseteq EvOf(st.tree[i].kids)
    <3>1. PICK j \in 1 .. Len(fl.names) : fl.names[j] = f
      BY <2>2 DEF WritesOf, Ours
    <3>2. f \notin st.reserved
      BY <3>1 DEF NamesOf
    <3>3. st.tree[i].file # NoFile
      BY DEF IsFirst, Files, NoFile
    <3>4. i \in 1 .. Len(fl.names)
      <4>1. i \in 1 .. Len(fl.names) \/ i \in Len(fl.names) + 1 .. Len(st.tree)
        BY <1>0
      <4> QED BY <3>3, <4>1 DEF NamesOf
    <3>5. fl.names[i] = f
      BY <3>2, <3>4 DEF NamesOf
    <3>6. Held(st, i, w.task.kids)
      BY <2>2, <3>4, <3>5 DEF WritesOf, Ours
    <3>7. new.seen[f].doc.roots[1].kids = w.task.kids
      BY <2>2, DocRoot
    <3> QED BY <3>6, <3>7 DEF Held
  <2> QED BY <1>1, <2>1, <2>2
<1> QED BY <1>1, <1>2 DEF Good, new

\* The flush ends: every root it named has its document, and dirty stays for
\* what the session did meanwhile.
Titled(st, names) == [i \in DOMAIN st.tree |-> IF i \in DOMAIN names THEN [st.tree[i] EXCEPT !.file = names[i]]
                                               ELSE st.tree[i]]
LEMMA EndIsGood ==
    ASSUME NEW st, Good(st), NEW fl, IsFlush(fl), NamesOf(st, fl), WritesOf(st, fl), fl.writes = <<>>
    PROVE  LET new == Clean([Remember(st, fl.written) EXCEPT !.tree = Titled(st, fl.names)]) IN
           Good(new) /\ new.up = st.up
<1> DEFINE mid == Remember(st, fl.written)
           names == fl.names
           One(i) == IF i \in DOMAIN names THEN [st.tree[i] EXCEPT !.file = names[i]] ELSE st.tree[i]
           tree == [i \in DOMAIN st.tree |-> One(i)]
           new == Clean([mid EXCEPT !.tree = tree])
<1>0. /\ st \in Stores /\ fl.written \in SUBSET Writes /\ names \in Seq(Files)
      /\ Len(names) \in Nat /\ Len(st.tree) \in Nat /\ st.tree \in Seq(Roots) /\ Len(names) <= Len(st.tree)
  BY DEF Good, IsFlush, Stores, NamesOf
<1>1. /\ mid \in Stores /\ mid.tree = st.tree /\ mid.up = st.up /\ mid.moved = st.moved
      /\ \A f \in Files :
            \/ \E w \in fl.written : w.file = f /\ mid.seen[f].doc = Doc(<<w.task>>) /\ mid.seen[f].base = w.task
            \/ (\A w \in fl.written : w.file # f) /\ mid.seen[f] = st.seen[f]
  BY <1>0, RememberIs
<1> HIDE DEF mid
<1>2. ASSUME NEW i \in 1 .. Len(st.tree)
      PROVE  /\ One(i) \in Roots /\ One(i).kids = st.tree[i].kids
             /\ i \in 1 .. Len(names) => One(i).file = names[i]
             /\ i \notin 1 .. Len(names) => One(i).file = NoFile
  <2> DEFINE r == st.tree[i]
  <2>1. r \in Roots
    BY <1>0
  <2>2. CASE i \in 1 .. Len(names)
    <3>1. One(i) = [r EXCEPT !.file = names[i]] /\ names[i] \in Files
      BY <1>0, <2>2
    <3> HIDE DEF One, r
    <3>2. One(i) \in Roots /\ One(i).kids = r.kids /\ One(i).file = names[i]
      BY <2>1, <3>1 DEF Roots
    <3> QED BY <2>2, <3>2 DEF r
  <2>3. CASE i \notin 1 .. Len(names)
    <3>1. One(i) = r
      BY <1>0, <2>3
    <3>2. i \in Len(names) + 1 .. Len(st.tree)
      BY <1>0, <2>3
    <3>3. r.file = NoFile
      BY <3>2 DEF NamesOf
    <3> QED BY <2>1, <2>3, <3>1, <3>3
  <2> QED BY <2>2, <2>3
<1> HIDE DEF One
<1>3. tree \in Seq(Roots) /\ Len(tree) = Len(st.tree) /\ \A i \in 1 .. Len(st.tree) : tree[i] = One(i)
  BY <1>0, <1>2
<1>4. new = [[mid EXCEPT !.tree = tree] EXCEPT !.dirty = st.moved]
  BY <1>1 DEF Clean, Stores
<1> HIDE DEF new, tree
<1>5. /\ new \in Stores /\ new.tree = tree /\ new.seen = mid.seen /\ new.up = st.up /\ new.dirty = st.moved
  BY <1>0, <1>1, <1>3, <1>4 DEF Stores
<1>6. ASSUME NEW f \in Files, NEW i \in 1 .. Len(tree), IsFirst(tree, f, i)
      PROVE  /\ EvOf(new.seen[f].doc.roots[1].kids) \subseteq EvOf(tree[i].kids)
             /\ ~st.moved => EvOf(tree[i].kids) \subseteq EvOf(new.seen[f].doc.roots[1].kids)
  <2>1. tree[i].file = f /\ f # NoFile
    BY <1>6 DEF IsFirst, Files, NoFile
  <2>2. i \in 1 .. Len(names) /\ names[i] = f
    BY <1>2, <1>3, <2>1
  <2>3. tree[i].kids = st.tree[i].kids
    BY <1>2, <1>3
  <2>4. Ours(fl) = fl.written
    BY DEF Ours, ToSet
  <2>5. Held(st, i, new.seen[f].doc.roots[1].kids)
    <3>1. ASSUME NEW w \in fl.written, w.file = f, mid.seen[f].doc = Doc(<<w.task>>)
          PROVE  Held(st, i, new.seen[f].doc.roots[1].kids)
      <4>1. Held(st, i, w.task.kids)
        BY <2>2, <2>4, <3>1 DEF WritesOf
      <4>2. new.seen[f].doc.roots[1].kids = w.task.kids
        BY <1>5, <3>1, DocRoot
      <4> QED BY <4>1, <4>2
    <3>2. CASE (\A w \in fl.written : w.file # f) /\ mid.seen[f] = st.seen[f]
      <4>1. Held(st, i, st.seen[names[i]].doc.roots[1].kids)
        BY <2>2, <2>4, <3>2 DEF WritesOf
      <4> QED BY <1>5, <2>2, <3>2, <4>1
    <3> QED BY <1>1, <3>1, <3>2
  <2> QED BY <2>3, <2>5 DEF Held
<1>7. HasSeen(new)
  BY <1>5, <1>6 DEF HasSeen
<1>8. ASSUME ~new.dirty PROVE NoneElse(new)
  <2>1. ~st.moved /\ Len(names) = Len(st.tree)
    BY <1>5, <1>8 DEF NamesOf
  <2>2. \A i \in 1 .. Len(tree) : tree[i].file # NoFile
    <3> SUFFICES ASSUME NEW i \in 1 .. Len(tree) PROVE tree[i].file # NoFile
      OBVIOUS
    <3>1. tree[i].file = names[i] /\ names[i] \in Files
      BY <1>0, <1>2, <1>3, <2>1
    <3> QED BY <3>1 DEF Files, NoFile
  <2> QED BY <1>5, <1>6, <2>1, <2>2 DEF NoneElse
<1>9. Titled(st, fl.names) = tree
  BY DEF Titled, tree, One
<1> QED BY <1>5, <1>7, <1>8, <1>9 DEF Good, new, mid

-----------------------------------------------------------------------------
(* Each step keeps the invariant *)

LEMMA ContentIs ==
    ASSUME NEW roots \in Seq(Tasks)
    PROVE  Doc(roots) \in Contents
BY DEF Doc, Contents

LEMMA HasTasks ==
    ASSUME NEW c \in Contents, c.is = "tasks"
    PROVE  c \in [is : {"tasks"}, roots : Seq(Tasks)]
BY DEF Contents, Bad, NoDoc

\* A step of one session: it is enough to say what becomes of its store and
\* its flush.
LEMMA OneSession ==
    ASSUME Inv, NEW s \in Sessions, NEW st, NEW fl,
           store' = [store EXCEPT ![s] = st], flush' = [flush EXCEPT ![s] = fl],
           Good(st), IsFlush(fl), Flushes(st, fl),
           disk' \in [Files -> Contents], ink' \in Nat
    PROVE  Inv'
<1>1. st \in Stores
  BY DEF Good
<1>2. store' \in [Sessions -> Stores] /\ flush' = [r \in Sessions |-> flush'[r]]
  BY <1>1 DEF Inv
<1>3. ASSUME NEW r \in Sessions PROVE Good(store'[r]) /\ IsFlush(flush'[r]) /\ Flushes(store'[r], flush'[r])
  <2>1. CASE r = s
    <3>1. store'[r] = st /\ flush'[r] = fl
      BY <2>1 DEF Inv
    <3> QED BY <3>1
  <2>2. CASE r # s
    <3>1. store'[r] = store[r] /\ flush'[r] = flush[r]
      BY <2>2 DEF Inv
    <3> QED BY <3>1 DEF Inv
  <2> QED BY <2>1, <2>2
<1> QED BY <1>2, <1>3 DEF Inv

LEMMA Same ==
    ASSUME Inv, NEW s \in Sessions
    PROVE  /\ store = [store EXCEPT ![s] = store[s]] /\ flush = [flush EXCEPT ![s] = flush[s]]
           /\ Good(store[s]) /\ store[s] \in Stores /\ IsFlush(flush[s]) /\ Flushes(store[s], flush[s])
           /\ disk \in [Files -> Contents] /\ ink \in Nat
BY DEF Inv, Good

\* Between two flushes, and in the phases before the snapshot.
LEMMA BeforeIs ==
    ASSUME NEW st, NEW pc \in Phases \ Writing, NEW got \in [Files -> Contents],
           NEW fl \in Fresh(pc, got, <<>>, <<>>, None),
           pc \in {"idle", "reload"} \/ st.dirty, pc = "idle" \/ st.up
    PROVE  IsFlush(fl) /\ Flushes(st, fl)
<1>1. fl.pc = pc /\ fl.active = None
  BY DEF Fresh
<1>2. IsFlush(fl)
  <2>1. NoDoc \in Contents /\ pc \in Phases /\ <<>> \in Seq(Writes) /\ <<>> \in Seq(Files) /\ {} \in SUBSET Writes
    BY DEF Contents
  <2> QED BY <1>1, <2>1 DEF IsFlush, Fresh
<1>3. pc \notin Writing /\ pc \notin {"look", "put", "save"}
  BY DEF Writing
<1> QED BY <1>1, <1>2, <1>3 DEF Flushes

LEMMA IdleIs ==
    ASSUME NEW st
    PROVE  IsFlush(NoFlush) /\ Flushes(st, NoFlush)
<1>1. [f \in Files |-> NoDoc] \in [Files -> Contents]
  BY DEF Contents
<1>2. "idle" \in Phases \ Writing
  BY DEF Phases, Writing
<1> DEFINE got == [f \in Files |-> NoDoc]
<1>3. NoFlush \in Fresh("idle", got, <<>>, <<>>, None)
  BY NoFlushIs
<1> HIDE DEF got
<1>4. got \in [Files -> Contents]
  BY <1>1 DEF got
<1> QED BY <1>2, <1>3, <1>4, BeforeIs

LEMMA PcIs ==
    ASSUME NEW st, NEW pc \in Phases \ Writing, pc \in {"idle", "reload"} \/ st.dirty, pc = "idle" \/ st.up
    PROVE  IsFlush([NoFlush EXCEPT !.pc = pc]) /\ Flushes(st, [NoFlush EXCEPT !.pc = pc])
<1> DEFINE n == NoFlush  fl == [n EXCEPT !.pc = pc]
<1>1. [f \in Files |-> NoDoc] \in [Files -> Contents]
  BY DEF Contents
<1>2. n \in Fresh("idle", [f \in Files |-> NoDoc], <<>>, <<>>, None)
  BY NoFlushIs
<1> HIDE DEF n
<1>3. fl \in Fresh(pc, [f \in Files |-> NoDoc], <<>>, <<>>, None)
  BY <1>2 DEF Fresh
<1> HIDE DEF fl
<1> DEFINE got == [f \in Files |-> NoDoc]
<1>4. got \in [Files -> Contents] /\ fl \in Fresh(pc, got, <<>>, <<>>, None)
  BY <1>1, <1>3
<1> HIDE DEF got
<1>5. IsFlush(fl) /\ Flushes(st, fl)
  BY <1>4, BeforeIs
<1> QED BY <1>5 DEF fl, n

LEMMA ReadIs ==
    ASSUME NEW st, NEW pc \in Phases \ Writing, NEW got \in [Files -> Contents],
           pc \in {"idle", "reload"} \/ st.dirty, st.up
    PROVE  IsFlush([NoFlush EXCEPT !.pc = pc, !.got = got]) /\ Flushes(st, [NoFlush EXCEPT !.pc = pc, !.got = got])
<1> DEFINE n == NoFlush  fl == [n EXCEPT !.pc = pc, !.got = got]
<1>1. n \in Fresh("idle", [f \in Files |-> NoDoc], <<>>, <<>>, None)
  BY NoFlushIs
<1> HIDE DEF n
<1>2. fl \in Fresh(pc, got, <<>>, <<>>, None)
  BY <1>1 DEF Fresh
<1> HIDE DEF fl
<1>3. IsFlush(fl) /\ Flushes(st, fl)
  BY <1>2, BeforeIs
<1> QED BY <1>3 DEF fl, n

LEMMA OpenAtKeeps ==
    ASSUME Inv, NEW s \in Sessions, NEW resumed, OpenAt(s, resumed)
    PROVE  Inv'
<1> DEFINE st == LoadDocs(disk)
           new == IF resumed \/ saved.session = s THEN st ELSE StartFresh(st, saved.active)
<1>1. Good(new)
  <2>1. Good(st)
    BY LoadIsGood, Same
  <2> HIDE DEF st
  <2>2. Remade(st, StartFresh(st, saved.active))
    BY <2>1, StartFreshIs DEF Good
  <2> QED BY <2>1, <2>2, RemadeIsGood
<1>2. Good(store[s]) /\ IsFlush(flush[s]) /\ Flushes(store[s], flush[s]) /\ flush[s].pc = "idle"
  BY Same DEF OpenAt, Flushes
<1> HIDE DEF new
<1>3. store' = [store EXCEPT ![s] = new] /\ flush' = [flush EXCEPT ![s] = flush[s]]
  BY Same DEF OpenAt, new
<1>4. Flushes(new, flush[s])
  BY <1>2 DEF Flushes, Writing
<1>5. disk' \in [Files -> Contents]
  <2>1. \A f \in Files : (IF disk[f] = Bad THEN NoDoc ELSE disk[f]) \in Contents
    BY Same DEF Contents
  <2> QED BY <2>1 DEF OpenAt
<1> QED BY <1>1, <1>2, <1>3, <1>4, <1>5, OneSession, Same DEF OpenAt, tally

LEMMA CrashKeeps ==
    ASSUME Inv, NEW s \in Sessions, Crash(s)
    PROVE  Inv'
BY OneSession, NoStoreIs, IdleIs, Same DEF Crash, tally

LEMMA WorkKeeps ==
    ASSUME Inv, NEW s \in Sessions, NEW kind, NEW tree, Grown(store[s].tree, tree),
           Work(s, kind, [store[s] EXCEPT !.tree = tree]), ink' \in Nat
    PROVE  Inv'
<1> DEFINE new == MarkDirty([store[s] EXCEPT !.tree = tree])
<1>1. Good(new) /\ Flushes(new, flush[s])
  BY WorkIs, Same
<1>2. store' = [store EXCEPT ![s] = new] /\ disk' = disk /\ flush' = flush
  BY DEF Work
<1> HIDE DEF new
<1> QED BY <1>1, <1>2, OneSession, Same

LEMMA NoteKeeps ==
    ASSUME Inv, NEW s \in Sessions, NEW p \in Places(store[s].tree), Note(s, p)
    PROVE  Inv'
<1> DEFINE tree == [store[s].tree EXCEPT ![p[1]].kids[p[2]].ev = @ \cup {ink + 1}]
<1>1. store[s] \in Stores /\ ink + 1 \in Nat /\ ink' = ink + 1
  <2>1. store[s] \in Stores /\ ink \in Nat
    BY Same
  <2>2. ink' = ink + 1
    BY DEF Note
  <2> QED BY <2>1, <2>2
<1>2. [store[s] EXCEPT !.tree[p[1]].kids[p[2]].ev = @ \cup {ink + 1}] = [store[s] EXCEPT !.tree = tree] /\ Grown(store[s].tree, tree)
  BY <1>1, NoteGrows
<1>3. Work(s, "note", [store[s] EXCEPT !.tree[p[1]].kids[p[2]].ev = @ \cup {ink + 1}])
  BY DEF Note
<1> HIDE DEF tree
<1>4. Work(s, "note", [store[s] EXCEPT !.tree = tree])
  BY <1>2, <1>3
<1> QED BY <1>1, <1>2, <1>4, WorkKeeps

LEMMA SetStatusKeeps ==
    ASSUME Inv, NEW s \in Sessions, NEW p \in Places(store[s].tree), NEW st \in Statuses, SetStatus(s, p, st)
    PROVE  Inv'
<1> DEFINE old == store[s].tree
           back == IF st = "doing" THEN TakeBack(old) ELSE old
           tree == SetMark(back, p, st)
<1>1. old \in Seq(Roots)
  BY Same DEF Stores
<1>2. Alike(old, back) /\ back \in Seq(Roots)
  <2>1. Alike(old, old)
    BY <1>1 DEF Alike
  <2> QED BY <1>1, <2>1, TakeBackIs DEF Alike
<1>3. Alike(back, tree)
  BY <1>2, SetMarkIs
<1>4. Work(s, "status", [store[s] EXCEPT !.tree = tree]) /\ ink' = ink
  BY DEF SetStatus
<1> HIDE DEF old, back, tree
<1>5. Grown(old, tree)
  BY <1>1, <1>2, <1>3, AlikeTwice, AlikeGrown
<1> QED BY <1>4, <1>5, WorkKeeps, Same DEF old

LEMMA AddKeeps ==
    ASSUME Inv, NEW s \in Sessions, NEW i \in DOMAIN store[s].tree, NEW text \in Texts, Add(s, i, text)
    PROVE  Inv'
<1> DEFINE step(l) == Append(l, [id |-> NextIndex(l), text |-> text, st |-> "todo", ev |-> {}])
           tree == [store[s].tree EXCEPT ![i].kids = Append(@, [id |-> NextIndex(@), text |-> text, st |-> "todo", ev |-> {}])]
           new == [store[s] EXCEPT !.tree[i].kids = Append(@, [id |-> NextIndex(@), text |-> text, st |-> "todo", ev |-> {}])]
<1>1. store[s] \in Stores /\ ink' \in Nat
  BY Same DEF Add
<1>2. new = [store[s] EXCEPT !.tree = tree] /\ Grown(store[s].tree, tree)
  BY <1>1, AddGrows
<1>3. Work(s, "add", new)
  BY DEF Add
<1> HIDE DEF new, tree
<1>4. Work(s, "add", [store[s] EXCEPT !.tree = tree])
  BY <1>2, <1>3
<1> QED BY <1>1, <1>2, <1>4, WorkKeeps

LEMMA PlannedIs ==
    ASSUME NEW old \in Seq(Roots), NEW text \in Texts, NEW step \in Texts
    PROVE  LET r == [file |-> NoFile, id |-> NextIndex(old), text |-> text,
                     kids |-> <<[id |-> 1, text |-> step, st |-> "todo", ev |-> {}]>>] IN
           r \in Roots /\ r.file = NoFile
<1>1. NextIndex(old) \in Nat
  <2>1. DOMAIN old \subseteq 1 .. Len(old) /\ Len(old) \in Nat
    OBVIOUS
  <2>2. ASSUME NEW k \in DOMAIN old PROVE old[k].id \in Nat
    <3>1. old[k] \in Roots
      OBVIOUS
    <3> QED BY <3>1 DEF Roots
  <2> QED BY <2>1, <2>2, NextIndexIs
<1>2. <<[id |-> 1, text |-> step, st |-> "todo", ev |-> {}]>> \in Seq(Nodes)
  BY DEF Nodes, Statuses
<1> QED BY <1>1, <1>2 DEF Roots

LEMMA PlanKeeps ==
    ASSUME Inv, NEW s \in Sessions, NEW text \in Texts, NEW step \in Texts, Plan(s, text, step)
    PROVE  Inv'
<1> DEFINE old == store[s].tree
           r == [file |-> NoFile, id |-> NextIndex(old), text |-> text,
                 kids |-> <<[id |-> 1, text |-> step, st |-> "todo", ev |-> {}]>>]
           tree == Append(TakeBack(old), r)
<1>1. old \in Seq(Roots) /\ ink' \in Nat
  BY Same DEF Stores, Plan
<1>2. r \in Roots /\ r.file = NoFile
  BY <1>1, PlannedIs
<1>3. Work(s, "plan", [store[s] EXCEPT !.tree = tree])
  BY DEF Plan
<1> HIDE DEF r, old
<1>4. Grown(old, tree)
  BY <1>1, <1>2, PlanGrows
<1> QED BY <1>1, <1>3, <1>4, WorkKeeps DEF old

LEMMA ReadingKeeps ==
    ASSUME Inv, NEW s \in Sessions, NEW pc \in Phases \ Writing,
           pc \in {"idle", "reload"} \/ store[s].dirty, store[s].up, Reading(s, pc)
    PROVE  Inv'
<1>1. disk \in [Files -> Contents]
  BY Same
<1>2. IsFlush([NoFlush EXCEPT !.pc = pc, !.got = disk]) /\ Flushes(store[s], [NoFlush EXCEPT !.pc = pc, !.got = disk])
  BY <1>1, ReadIs
<1>3. flush' = [flush EXCEPT ![s] = [NoFlush EXCEPT !.pc = pc, !.got = disk]] /\ store' = store /\ disk' = disk /\ ink' = ink
  BY DEF Reading, tally
<1> DEFINE fl == [NoFlush EXCEPT !.pc = pc, !.got = disk]
<1> HIDE DEF fl
<1>4. IsFlush(fl) /\ Flushes(store[s], fl) /\ flush' = [flush EXCEPT ![s] = fl]
  BY <1>2, <1>3 DEF fl
<1> QED BY <1>3, <1>4, OneSession, Same

LEMMA MergingKeeps ==
    ASSUME Inv, NEW s \in Sessions, NEW pc \in Phases \ Writing,
           pc \in {"idle", "reload"} \/ store[s].dirty, store[s].up, Merging(s, pc)
    PROVE  Inv'
<1> DEFINE st == Reconcile(store[s], flush[s].got)
           fl == [NoFlush EXCEPT !.pc = pc]
<1>1. flush[s].got \in [Files -> Contents]
  BY Same DEF IsFlush
<1>2. Good(st) /\ Keeps(store[s], st)
  BY <1>1, ReconcileIsGood, Same
<1>3. /\ store' = [store EXCEPT ![s] = st] /\ flush' = [flush EXCEPT ![s] = fl] /\ disk' = disk /\ ink' = ink
  BY DEF Merging, tally
<1> HIDE DEF st
<1>4. st.up /\ (pc \in {"idle", "reload"} \/ st.dirty)
  BY <1>2 DEF Keeps
<1>5. IsFlush(fl) /\ Flushes(st, fl)
  BY <1>4, PcIs
<1> HIDE DEF fl
<1> QED BY <1>2, <1>3, <1>5, OneSession, Same

LEMMA FlushRenderKeeps ==
    ASSUME Inv, NEW s \in Sessions, FlushRender(s)
    PROVE  Inv'
<1> DEFINE st == store[s]
           names == DocNames(st)
           differs == {i \in DOMAIN names : st.seen[names[i]].doc # Render(st.tree[i])}
           split == {i \in DOMAIN names : st.tree[i].file \notin {NoFile, names[i]}}
           order == InOrder(differs \cap split, Len(names)) \o InOrder(differs \ split, Len(names))
           writes == [k \in DOMAIN order |-> [file |-> names[order[k]], task |-> Task(st.tree[order[k]])]]
           pc == IF writes = <<>> THEN "save" ELSE "look"
           active == IF Doing(st.tree) = <<>> THEN None ELSE IdAt(st.tree, Doing(st.tree))
           new == [st EXCEPT !.moved = FALSE]
           fl == [NoFlush EXCEPT !.pc = pc, !.names = names, !.writes = writes, !.active = active]
<1>1. /\ ToSet(names) \subseteq Files
      /\ store' = [store EXCEPT ![s].moved = FALSE]
      /\ flush' = [flush EXCEPT ![s] = fl]
  BY DEF FlushRender
<1>2. st.up /\ flush[s].pc = "render" /\ disk' = disk /\ ink' = ink
  BY DEF FlushRender, Holds, tally
<1>3. Good(st) /\ st.dirty
  BY <1>2, Same DEF Flushes
<1>4. Good(new) /\ IsFlush(fl) /\ Flushes(new, fl)
  BY <1>1, <1>2, <1>3, RenderIs
<1>5. store' = [store EXCEPT ![s] = new]
  BY <1>1
<1>6. flush' = [flush EXCEPT ![s] = fl]
  BY <1>1
<1> HIDE DEF fl, new
<1> QED BY <1>2, <1>4, <1>5, <1>6, OneSession, Same

\* What has been shared out and what is to be written say the same of a
\* store wherever the save is with them.
LEMMA SameNames ==
    ASSUME NEW st, NEW fl, NEW new, new.names = fl.names, Ours(new) = Ours(fl)
    PROVE  /\ NamesOf(st, fl) => NamesOf(st, new)
           /\ WritesOf(st, fl) => WritesOf(st, new)
<1>1. NamesOf(st, fl) => NamesOf(st, new)
  BY DEF NamesOf
<1>2. WritesOf(st, fl) => WritesOf(st, new)
  BY DEF WritesOf
<1> QED BY <1>1, <1>2

LEMMA LookKeeps ==
    ASSUME Inv, NEW s \in Sessions, Look(s)
    PROVE  Inv'
<1> DEFINE fl == flush[s]
           cur == disk[Head(fl.writes).file]
           new == [fl EXCEPT !.pc = "put", !.cur = cur]
<1>1. fl.pc = "look" /\ store[s].up /\ flush' = [flush EXCEPT ![s] = new] /\ store' = store /\ disk' = disk /\ ink' = ink
  BY DEF Look, Holds, tally
<1>2. IsFlush(fl) /\ Flushes(store[s], fl) /\ disk \in [Files -> Contents]
  BY Same
<1> HIDE DEF fl
<1>3. NamesOf(store[s], fl) /\ WritesOf(store[s], fl) /\ fl.writes # <<>> /\ store[s].dirty
  BY <1>1, <1>2 DEF Flushes, Writing
<1>4. cur \in Contents
  <2>1. fl.writes \in Seq(Writes)
    BY <1>2 DEF IsFlush
  <2>2. Head(fl.writes) \in Writes
    BY <1>3, <2>1
  <2> QED BY <1>2, <2>2 DEF Writes
<1> HIDE DEF cur
<1>5. /\ IsFlush(new) /\ new.pc = "put" /\ new.names = fl.names /\ new.writes = fl.writes /\ new.written = fl.written
  BY <1>2, <1>4 DEF IsFlush, Phases, Writing
<1> HIDE DEF new
<1>6. Ours(new) = Ours(fl)
  BY <1>5 DEF Ours
<1>7. NamesOf(store[s], new) /\ WritesOf(store[s], new)
  BY <1>3, <1>5, <1>6, SameNames
<1>8. Flushes(store[s], new)
  BY <1>1, <1>3, <1>5, <1>7 DEF Flushes
<1> QED BY <1>1, <1>2, <1>5, <1>8, OneSession, Same

LEMMA PutKeeps ==
    ASSUME Inv, NEW s \in Sessions, Put(s)
    PROVE  Inv'
<1> DEFINE fl == flush[s]
           w == Head(fl.writes)
           rest == Tail(fl.writes)
           pc == IF rest = <<>> THEN "save" ELSE "look"
           new == [fl EXCEPT !.writes = rest, !.cur = NoDoc, !.written = @ \cup {w}, !.pc = pc]
<1>1. fl.pc = "put" /\ store[s].up /\ store' = store /\ ink' = ink
  BY DEF Put, Holds, tally
<1>2. disk' = [disk EXCEPT ![w.file] = Doc(<<w.task>>)] /\ flush' = [flush EXCEPT ![s] = new]
  BY DEF Put
<1>3. IsFlush(fl) /\ Flushes(store[s], fl) /\ disk \in [Files -> Contents]
  BY Same
<1> HIDE DEF fl
<1>4. NamesOf(store[s], fl) /\ WritesOf(store[s], fl) /\ fl.writes # <<>> /\ store[s].dirty
  BY <1>1, <1>3 DEF Flushes, Writing
<1>5. fl.writes \in Seq(Writes) /\ fl.written \in SUBSET Writes
  BY <1>3 DEF IsFlush
<1>6. w \in Writes /\ rest \in Seq(Writes) /\ ToSet(fl.writes) = {w} \cup ToSet(rest)
  <2>1. w \in Writes /\ rest \in Seq(Writes) /\ Len(rest) = Len(fl.writes) - 1 /\ w = fl.writes[1]
        /\ \A k \in 1 .. Len(rest) : rest[k] = fl.writes[k + 1]
    BY <1>4, <1>5, HeadTailProperties
  <2> HIDE DEF w, rest
  <2>2. ASSUME NEW k \in DOMAIN fl.writes PROVE fl.writes[k] \in {w} \cup ToSet(rest)
    <3>1. CASE k = 1
      BY <2>1, <3>1
    <3>2. CASE k # 1
      <4>1. k - 1 \in 1 .. Len(rest) /\ k - 1 + 1 = k
        BY <1>5, <2>1, <3>2
      <4>2. rest[k - 1] = fl.writes[k] /\ k - 1 \in DOMAIN rest
        BY <2>1, <4>1
      <4> QED BY <4>2 DEF ToSet
    <3> QED BY <3>1, <3>2
  <2>3. ASSUME NEW k \in DOMAIN rest PROVE rest[k] \in ToSet(fl.writes)
    <3>1. k + 1 \in DOMAIN fl.writes /\ rest[k] = fl.writes[k + 1]
      BY <1>5, <2>1
    <3> QED BY <3>1 DEF ToSet
  <2>4. w \in ToSet(fl.writes)
    <3>1. 1 \in DOMAIN fl.writes
      BY <1>4, <1>5
    <3> QED BY <2>1, <3>1 DEF ToSet
  <2> QED BY <2>1, <2>2, <2>3, <2>4 DEF ToSet
<1> HIDE DEF w, rest
<1>7. disk' \in [Files -> Contents]
  <2>1. w.file \in Files /\ <<w.task>> \in Seq(Tasks)
    BY <1>6 DEF Writes
  <2> QED BY <1>2, <1>3, <2>1, ContentIs
<1>8. pc \in {"look", "save"} /\ (pc = "save" <=> rest = <<>>)
  OBVIOUS
<1> HIDE DEF pc
<1>9. NoDoc \in Contents /\ pc \in Phases /\ pc \in Writing
  BY <1>8 DEF Contents, Phases, Writing
<1>10. /\ IsFlush(new) /\ new.pc = pc /\ new.names = fl.names /\ new.writes = rest /\ new.written = fl.written \cup {w}
  BY <1>3, <1>5, <1>6, <1>9 DEF IsFlush
<1> HIDE DEF new
<1>11. Ours(new) = Ours(fl)
  BY <1>6, <1>10 DEF Ours
<1>12. NamesOf(store[s], new) /\ WritesOf(store[s], new)
  BY <1>4, <1>10, <1>11, SameNames
<1>13. Flushes(store[s], new)
  BY <1>1, <1>4, <1>8, <1>9, <1>10, <1>12 DEF Flushes
<1> QED BY <1>1, <1>2, <1>7, <1>10, <1>13, OneSession, Same

LEMMA FlushFailsKeeps ==
    ASSUME Inv, NEW s \in Sessions, FlushFails(s)
    PROVE  Inv'
<1> DEFINE st == store[s]  fl == flush[s]  new == Remember(st, fl.written)
<1>1. /\ store' = [store EXCEPT ![s] = new] /\ flush' = [flush EXCEPT ![s] = NoFlush] /\ disk' = disk /\ ink' = ink
      /\ fl.pc \in {"put", "save"}
  BY DEF FlushFails, tally
<1>2. Good(st) /\ st.dirty /\ IsFlush(fl) /\ NamesOf(st, fl) /\ WritesOf(st, fl)
  BY <1>1, Same DEF Flushes, Writing
<1> HIDE DEF st, fl
<1>3. Good(new)
  BY <1>2, FailsIsGood
<1> HIDE DEF new
<1> QED BY <1>1, <1>3, OneSession, IdleIs, Same

LEMMA FlushEndKeeps ==
    ASSUME Inv, NEW s \in Sessions, FlushEnd(s)
    PROVE  Inv'
<1> DEFINE st == store[s]  fl == flush[s]  mid == Remember(st, fl.written)
           new == Clean([mid EXCEPT !.tree = Titled(st, fl.names)])
           code == Clean([mid EXCEPT !.tree = [i \in DOMAIN @ |->
                       IF i \in DOMAIN fl.names THEN [@[i] EXCEPT !.file = fl.names[i]] ELSE @[i]]])
<1>1. /\ store' = [store EXCEPT ![s] = code]
      /\ flush' = [flush EXCEPT ![s] = NoFlush] /\ disk' = disk /\ ink' = ink
      /\ fl.pc = "save"
  BY DEF FlushEnd, Holds, tally
<1>2. Good(st) /\ st.dirty /\ IsFlush(fl) /\ NamesOf(st, fl) /\ WritesOf(st, fl) /\ fl.writes = <<>>
  BY <1>1, Same DEF Flushes, Writing
<1>3. mid.tree = st.tree
  BY <1>2, RememberIs DEF Good, IsFlush
<1> HIDE DEF st, fl, mid
<1>4. code = new
  BY <1>3 DEF Titled
<1>5. Good(new)
  BY <1>2, EndIsGood DEF mid
<1> HIDE DEF new, code
<1> QED BY <1>1, <1>4, <1>5, OneSession, IdleIs, Same

LEMMA EditKeeps ==
    ASSUME Inv, NEW kind, NEW f \in Files, NEW c \in Contents, Save(kind, f, c), ink' \in Nat
    PROVE  Inv'
<1>1. disk' \in [Files -> Contents] /\ store' = store /\ flush' = flush
  BY DEF Save, Inv
<1> QED BY <1>1 DEF Inv

LEMMA WithKidsIs ==
    ASSUME Inv, NEW f \in Files, disk[f].is = "tasks", NEW i \in DOMAIN disk[f].roots
    PROVE  /\ Kids(f, i) \in Seq(Nodes)
           /\ \A kids \in Seq(Nodes) : WithKids(f, i, kids) \in Contents
<1> DEFINE c == disk[f]  t == c.roots[i]
<1>1. c \in [is : {"tasks"}, roots : Seq(Tasks)]
  BY HasTasks DEF Inv
<1> HIDE DEF c
<1>2. t \in Tasks /\ c.roots \in Seq(Tasks)
  BY <1>1 DEF c
<1>3. ASSUME NEW kids \in Seq(Nodes) PROVE [c EXCEPT !.roots[i].kids = kids] \in Contents
  <2>1. [t EXCEPT !.kids = kids] \in Tasks
    BY <1>2 DEF Tasks
  <2>2. [c.roots EXCEPT ![i] = [t EXCEPT !.kids = kids]] \in Seq(Tasks)
    BY <1>2, <2>1 DEF c
  <2>3. [c EXCEPT !.roots = [c.roots EXCEPT ![i] = [t EXCEPT !.kids = kids]]] \in [is : {"tasks"}, roots : Seq(Tasks)]
    BY <1>1, <2>2
  <2> QED BY <2>3 DEF Contents
<1>4. t.kids \in Seq(Nodes)
  BY <1>2 DEF Tasks
<1> QED BY <1>3, <1>4 DEF Kids, WithKids, c

\* An edit of a step leaves a list of steps.
LEMMA StepEdits ==
    ASSUME NEW kids \in Seq(Nodes)
    PROVE  /\ \A k \in DOMAIN kids : \A st \in Statuses : [kids EXCEPT ![k].st = st] \in Seq(Nodes)
           /\ \A k \in DOMAIN kids : \A l \in Nat : [kids EXCEPT ![k].ev = @ \cup {l}] \in Seq(Nodes)
           /\ \A k \in DOMAIN kids : \A l : [kids EXCEPT ![k].ev = @ \ {l}] \in Seq(Nodes)
           /\ \A text \in Texts : Append(kids, [id |-> 0, text |-> text, st |-> "todo", ev |-> {}]) \in Seq(Nodes)
           /\ \A k \in DOMAIN kids : RemoveAt(kids, k) \in Seq(Nodes)
<1>1. ASSUME NEW k \in DOMAIN kids, NEW n \in Nodes PROVE [kids EXCEPT ![k] = n] \in Seq(Nodes)
  OBVIOUS
<1>2. ASSUME NEW k \in DOMAIN kids, NEW st \in Statuses PROVE [kids EXCEPT ![k].st = st] \in Seq(Nodes)
  <2>1. kids[k] \in Nodes
    OBVIOUS
  <2>2. [kids[k] EXCEPT !.st = st] \in Nodes
    BY <2>1 DEF Nodes
  <2> QED BY <1>1, <2>2
<1>3. ASSUME NEW k \in DOMAIN kids, NEW l \in Nat PROVE [kids EXCEPT ![k].ev = @ \cup {l}] \in Seq(Nodes)
  <2>1. kids[k] \in Nodes
    OBVIOUS
  <2>2. [kids[k] EXCEPT !.ev = @ \cup {l}] \in Nodes
    BY <2>1 DEF Nodes
  <2> QED BY <1>1, <2>2
<1>4. ASSUME NEW k \in DOMAIN kids, NEW l PROVE [kids EXCEPT ![k].ev = @ \ {l}] \in Seq(Nodes)
  <2>1. kids[k] \in Nodes
    OBVIOUS
  <2>2. [kids[k] EXCEPT !.ev = @ \ {l}] \in Nodes
    BY <2>1 DEF Nodes
  <2> QED BY <1>1, <2>2
<1>5. ASSUME NEW text \in Texts PROVE Append(kids, [id |-> 0, text |-> text, st |-> "todo", ev |-> {}]) \in Seq(Nodes)
  BY DEF Nodes, Statuses
<1>6. ASSUME NEW k \in DOMAIN kids PROVE RemoveAt(kids, k) \in Seq(Nodes)
  BY RemoveAtIs
<1> QED BY <1>2, <1>3, <1>4, <1>5, <1>6

LEMMA InkIs ==
    ASSUME Inv
    PROVE  ink \in Nat /\ ink + 1 \in Nat
BY DEF Inv

LEMMA ByHandKeeps ==
    ASSUME Inv, ByHand
    PROVE  Inv'
<1>1. PICK f \in Files :
        \/ \E i \in DOMAIN disk[f].roots :
              \/ \E k \in DOMAIN Kids(f, i) :
                    \/ \E st \in Statuses : MarkByHand(f, i, k, st)
                    \/ LineByHand(f, i, k)
                    \/ \E l \in Kids(f, i)[k].ev : CutLine(f, i, k, l)
                    \/ DropStep(f, i, k)
              \/ \E text \in Texts : StepByHand(f, i, text)
        \/ \E text \in Texts : TaskByHand(f, text)
        \/ Spoil(f)
  BY DEF ByHand
<1>2. ASSUME NEW i \in DOMAIN disk[f].roots, NEW k \in DOMAIN Kids(f, i), NEW st \in Statuses, MarkByHand(f, i, k, st)
      PROVE  Inv'
  <2>1. Save("mark", f, WithKids(f, i, [Kids(f, i) EXCEPT ![k].st = st])) /\ ink' = ink
    BY <1>2 DEF MarkByHand
  <2>2. disk[f].is = "tasks"
    BY <2>1 DEF Save
  <2>3. WithKids(f, i, [Kids(f, i) EXCEPT ![k].st = st]) \in Contents
    BY <2>2, WithKidsIs, StepEdits
  <2> QED BY <2>1, <2>3, EditKeeps, InkIs
<1>3. ASSUME NEW i \in DOMAIN disk[f].roots, NEW k \in DOMAIN Kids(f, i), LineByHand(f, i, k)
      PROVE  Inv'
  <2>1. Save("line", f, WithKids(f, i, [Kids(f, i) EXCEPT ![k].ev = @ \cup {ink + 1}])) /\ ink' = ink + 1
    BY <1>3 DEF LineByHand
  <2>2. disk[f].is = "tasks"
    BY <2>1 DEF Save
  <2>3. WithKids(f, i, [Kids(f, i) EXCEPT ![k].ev = @ \cup {ink + 1}]) \in Contents
    BY <2>2, WithKidsIs, StepEdits, InkIs
  <2> QED BY <2>1, <2>3, EditKeeps, InkIs
<1>4. ASSUME NEW i \in DOMAIN disk[f].roots, NEW k \in DOMAIN Kids(f, i), NEW l, CutLine(f, i, k, l)
      PROVE  Inv'
  <2>1. Save("cut", f, WithKids(f, i, [Kids(f, i) EXCEPT ![k].ev = @ \ {l}])) /\ ink' = ink
    BY <1>4 DEF CutLine
  <2>2. disk[f].is = "tasks"
    BY <2>1 DEF Save
  <2>3. WithKids(f, i, [Kids(f, i) EXCEPT ![k].ev = @ \ {l}]) \in Contents
    BY <2>2, WithKidsIs, StepEdits
  <2> QED BY <2>1, <2>3, EditKeeps, InkIs
<1>5. ASSUME NEW i \in DOMAIN disk[f].roots, NEW k \in DOMAIN Kids(f, i), DropStep(f, i, k)
      PROVE  Inv'
  <2>1. Save("drop", f, WithKids(f, i, RemoveAt(Kids(f, i), k))) /\ ink' = ink
    BY <1>5 DEF DropStep
  <2>2. disk[f].is = "tasks"
    BY <2>1 DEF Save
  <2>3. WithKids(f, i, RemoveAt(Kids(f, i), k)) \in Contents
    BY <2>2, WithKidsIs, StepEdits
  <2> QED BY <2>1, <2>3, EditKeeps, InkIs
<1>6. ASSUME NEW i \in DOMAIN disk[f].roots, NEW text \in Texts, StepByHand(f, i, text)
      PROVE  Inv'
  <2>1. Save("step", f, WithKids(f, i, Append(Kids(f, i), [id |-> 0, text |-> text, st |-> "todo", ev |-> {}]))) /\ ink' = ink
    BY <1>6 DEF StepByHand
  <2>2. disk[f].is = "tasks"
    BY <2>1 DEF Save
  <2>3. WithKids(f, i, Append(Kids(f, i), [id |-> 0, text |-> text, st |-> "todo", ev |-> {}])) \in Contents
    BY <2>2, WithKidsIs, StepEdits
  <2> QED BY <2>1, <2>3, EditKeeps, InkIs
<1>7. ASSUME NEW text \in Texts, TaskByHand(f, text)
      PROVE  Inv'
  <2> DEFINE roots == disk[f].roots
             t == [id |-> NextIndex(roots), text |-> text, kids |-> <<>>]
  <2>1. Save("task", f, Doc(Append(roots, t))) /\ ink' = ink
    BY <1>7 DEF TaskByHand
  <2>2. roots \in Seq(Tasks)
    <3>1. disk[f].is = "tasks" /\ disk[f] \in Contents
      BY <2>1 DEF Save, Inv
    <3> QED BY <3>1, HasTasks
  <2>3. NextIndex(roots) \in Nat
    <3> HIDE DEF roots
    <3>1. DOMAIN roots \subseteq 1 .. Len(roots) /\ Len(roots) \in Nat
      BY <2>2
    <3>2. ASSUME NEW k \in DOMAIN roots PROVE roots[k].id \in Nat
      <4>1. roots[k] \in Tasks
        BY <2>2
      <4> QED BY <4>1 DEF Tasks
    <3> QED BY <3>1, <3>2, NextIndexIs
  <2> HIDE DEF roots
  <2>4. t \in Tasks
    BY <2>3 DEF Tasks
  <2> HIDE DEF t
  <2>5. Append(roots, t) \in Seq(Tasks)
    BY <2>2, <2>4
  <2>6. Doc(Append(roots, t)) \in Contents
    BY <2>5, ContentIs
  <2> QED BY <2>1, <2>6, EditKeeps, InkIs DEF t, roots
<1>8. ASSUME Spoil(f) PROVE Inv'
  <2>1. \E kind, c : c \in {Bare, Bad, NoDoc} /\ Save(kind, f, c)
    BY <1>8 DEF Spoil
  <2>2. {Bare, Bad, NoDoc} \subseteq Contents
    <3>1. <<>> \in Seq(Tasks)
      OBVIOUS
    <3>2. Bare \in Contents
      BY <3>1, ContentIs DEF Bare
    <3> QED BY <3>2 DEF Contents
  <2>3. ink' = ink
    BY <1>8 DEF Spoil
  <2> QED BY <2>1, <2>2, <2>3, EditKeeps, InkIs
<1> QED BY <1>1, <1>2, <1>3, <1>4, <1>5, <1>6, <1>7, <1>8

\* One case for each action.
LEMMA NextKeeps ==
    ASSUME Inv, Next
    PROVE  Inv'
<1>1. ASSUME NEW s \in Sessions, NEW resumed, OpenAt(s, resumed) PROVE Inv'
  BY <1>1, OpenAtKeeps
<1>2. ASSUME NEW s \in Sessions, Crash(s) PROVE Inv'
  BY <1>2, CrashKeeps
<1>3. ASSUME NEW s \in Sessions, Working(s) PROVE Inv'
  <2>1. {"doing", "done"} \subseteq Statuses
    BY DEF Statuses
  <2> QED BY <1>3, <2>1, NoteKeeps, SetStatusKeeps, AddKeeps, PlanKeeps DEF Working
<1>4. ASSUME NEW s \in Sessions, Saving(s) PROVE Inv'
  <2>1. {"idle", "reload", "merge", "render"} \subseteq Phases \ Writing
    BY DEF Phases, Writing
  <2>2. CASE Reload(s)
    BY <2>1, <2>2, ReadingKeeps DEF Reload, Holds
  <2>3. CASE ReloadMerge(s)
    BY <2>1, <2>3, MergingKeeps DEF ReloadMerge, Holds
  <2>4. CASE Flush(s)
    BY <2>1, <2>4, ReadingKeeps DEF Flush, Holds
  <2>5. CASE FlushMerge(s)
    <3>1. flush[s].pc = "merge" /\ store[s].up /\ Merging(s, "render")
      BY <2>5 DEF FlushMerge, Holds
    <3>2. store[s].dirty
      BY <3>1, Same DEF Flushes
    <3> QED BY <2>1, <3>1, <3>2, MergingKeeps
  <2> QED BY <1>4, <2>2, <2>3, <2>4, <2>5, FlushRenderKeeps, LookKeeps, PutKeeps, FlushFailsKeeps, FlushEndKeeps DEF Saving
<1> QED BY <1>1, <1>2, <1>3, <1>4, ByHandKeeps DEF Next, Session

LEMMA StutterKeeps ==
    ASSUME Inv, UNCHANGED vars
    PROVE  Inv'
BY DEF Inv, vars, tally

\* A start: whatever the person left in the documents, and whichever sessions
\* have just loaded it.
LEMMA BeginIs ==
    ASSUME NEW docs \in [Files -> Contents], NEW running, NEW texts, NEW lines \in Nat, Begin(docs, running, texts, lines)
    PROVE  Inv
<1>1. Good(LoadDocs(docs)) /\ Good(NoStore)
  BY LoadIsGood, NoStoreIs
<1>2. /\ disk = docs /\ ink = lines
      /\ store = [s \in Sessions |-> IF s \in running \cap bound.who THEN LoadDocs(docs) ELSE NoStore]
      /\ flush = [s \in Sessions |-> NoFlush]
  BY DEF Begin
<1>3. \A s \in Sessions : Good(store[s]) /\ store[s] \in Stores /\ flush[s] = NoFlush
  BY <1>1, <1>2 DEF Good
<1>4. \A s \in Sessions : IsFlush(flush[s]) /\ Flushes(store[s], flush[s])
  BY <1>3, IdleIs
<1>5. store \in [Sessions -> Stores] /\ flush = [s \in Sessions |-> flush[s]]
  BY <1>2, <1>3
<1> QED BY <1>2, <1>3, <1>4, <1>5 DEF Inv

\* The variables have their types; a tree has every line of the first task of
\* each document its store has seen, and no other while it is not dirty; and a
\* flush holds what its phase needs (names for every root, and writes that are
\* the roots' lines until the session works on).
THEOREM RecordTypes == Spec => []Inv
<1>1. Init => Inv
  <2>1. [f \in Files |-> NoDoc] \in [Files -> Contents] /\ 0 \in Nat
    BY DEF Contents
  <2> QED BY <2>1, BeginIs DEF Init
<1>2. Inv /\ [Next]_vars => Inv'
  BY NextKeeps, StutterKeeps
<1> QED BY <1>1, <1>2, PTL DEF Spec

LEMMA InvSaves ==
    ASSUME Inv
    PROVE  SavedOrDirty
<1>1. ASSUME NEW s \in Sessions, NEW i \in Firsts(s), Shown(store[s].seen[store[s].tree[i].file].doc)
      PROVE  /\ EvOf(store[s].seen[store[s].tree[i].file].doc.roots[1].kids) \subseteq EvOf(store[s].tree[i].kids)
             /\ ~store[s].dirty => EvOf(store[s].tree[i].kids) \subseteq EvOf(store[s].seen[store[s].tree[i].file].doc.roots[1].kids)
  <2>1. Good(store[s]) /\ store[s].tree \in Seq(Roots)
    BY Same DEF Stores
  <2>2. i \in 1 .. Len(store[s].tree) /\ IsFirst(store[s].tree, store[s].tree[i].file, i) /\ store[s].tree[i].file # NoFile
    BY <2>1, <1>1 DEF Firsts, FirstOf
  <2>3. store[s].tree[i].file \in Files
    <3>1. store[s].tree[i] \in Roots
      BY <2>1, <2>2
    <3> QED BY <2>2, <3>1 DEF Roots
  <2> QED BY <1>1, <2>1, <2>2, <2>3 DEF Good, HasSeen, NoneElse
<1>2. ASSUME NEW s \in Sessions, ~store[s].dirty, NEW i \in DOMAIN store[s].tree PROVE store[s].tree[i].file # NoFile
  <2>1. Good(store[s]) /\ store[s].tree \in Seq(Roots)
    BY Same DEF Stores
  <2> QED BY <1>2, <2>1 DEF Good, NoneElse
<1> QED BY <1>1, <1>2 DEF SavedOrDirty, Shown

\* What a session knows and no document it has seen has is marked dirty: the
\* next flush writes it, also after a flush that failed or that a change of the
\* session came in between.
THEOREM NothingUnsaved == Spec => []SavedOrDirty
BY InvSaves, RecordTypes, PTL

-----------------------------------------------------------------------------
(* Nothing is lost: the lines that stay, and those on their way *)

\* The lines of a document's first task, and of those after it.
Lead(c) == IF Shown(c) THEN EvOf(c.roots[1].kids) ELSE {}
More(c) == UNION {EvOf(c.roots[k].kids) : k \in 2 .. Len(c.roots)}

\* The lines of the roots that have to get a document of their own.
IsSpare(tree, i) == tree[i].file # NoFile /\ \E j \in 1 .. i - 1 : tree[j].file = tree[i].file
Spare(tree) == UNION {EvOf(tree[i].kids) : i \in {j \in 1 .. Len(tree) : IsSpare(tree, j)}}

\* Every line a store has seen is in F, or is in a root that is still to be
\* split off; and what it has seen a root of its own keeps.
Kept(F, st) ==
    \A f \in Files :
        /\ Lead(st.seen[f].doc) \subseteq F /\ EvOf(st.seen[f].base.kids) \subseteq F
        /\ Shown(st.seen[f].doc) => RootsOf(st.tree, f) # {} \/ f \in st.reserved
        /\ More(st.seen[f].doc) \subseteq F \cup Spare(st.tree)

\* The tasks of the first n writes.
Written(writes, n) == UNION {EvOf(writes[j].task.kids) : j \in {k \in 1 .. Len(writes) : k <= n}}
\* What a flush has written is in F, and it writes the roots a document is
\* split into before the document.
Pending(F, st, fl) ==
    /\ \A w \in fl.written : EvOf(w.task.kids) \subseteq F
    /\ \A f \in Files : More(st.seen[f].doc) \subseteq F \cup Written(fl.writes, Len(fl.writes))
    /\ \A k \in 1 .. Len(fl.writes) :
          /\ Lead(st.seen[fl.writes[k].file].doc) \subseteq EvOf(fl.writes[k].task.kids)
          /\ More(st.seen[fl.writes[k].file].doc) \subseteq F \cup Written(fl.writes, k - 1)

LEMMA NotShown ==
    ASSUME NEW c \in Contents, ~Shown(c)
    PROVE  Lead(c) = {} /\ More(c) = {} /\ Lines(c) = {}
<1>1. c.roots = <<>>
  BY DEF Contents, Shown, Bad, NoDoc, Bare, Doc
<1> QED BY <1>1 DEF Lead, More, Lines

LEMMA UnseenIs == Lead(Unseen.doc) = {} /\ EvOf(Unseen.base.kids) = {} /\ ~Shown(Unseen.doc) /\ More(Unseen.doc) = {}
<1>1. NoDoc \in Contents /\ ~Shown(NoDoc)
  BY DEF Contents, Shown, NoDoc
<1> QED BY <1>1, NotShown DEF Unseen, NoTask, EvOf

LEMMA LeadAndMore ==
    ASSUME NEW c \in Contents
    PROVE  Lines(c) = Lead(c) \cup More(c)
<1>1. CASE ~Shown(c)
  BY <1>1, NotShown
<1>2. CASE Shown(c)
  <2>1. c.roots \in Seq(Tasks) /\ c.roots # <<>>
    BY <1>2, ShownIs
  <2>2. DOMAIN c.roots = 1 .. Len(c.roots) /\ Len(c.roots) \in Nat /\ Len(c.roots) >= 1
    BY <2>1
  <2>3. DOMAIN c.roots = {1} \cup 2 .. Len(c.roots)
    BY <2>2
  <2> QED BY <1>2, <2>3 DEF Lead, More, Lines
<1> QED BY <1>1, <1>2

LEMMA OneTask ==
    ASSUME NEW t \in Tasks
    PROVE  Lead(Doc(<<t>>)) = EvOf(t.kids) /\ More(Doc(<<t>>)) = {} /\ Lines(Doc(<<t>>)) = EvOf(t.kids)
<1>1. Shown(Doc(<<t>>)) /\ Doc(<<t>>).roots = <<t>>
  BY DocRoot DEF Doc
<1>2. <<t>>[1] = t /\ 2 .. Len(<<t>>) = {} /\ DOMAIN <<t>> = {1}
  OBVIOUS
<1> QED BY <1>1, <1>2 DEF Lead, More, Lines

\* Roots that keep their files: what was to be split off still is, and what
\* they had they have, but for F.
LEMMA SpareIn ==
    ASSUME NEW F, NEW a, NEW b, Len(a) \in Nat, Len(b) \in Nat, Len(a) <= Len(b),
           \A i \in 1 .. Len(a) : /\ b[i].file = a[i].file
                                  /\ IsSpare(a, i) => EvOf(a[i].kids) \subseteq F \cup EvOf(b[i].kids)
    PROVE  Spare(a) \subseteq F \cup Spare(b)
<1> SUFFICES ASSUME NEW l \in Spare(a) PROVE l \in F \cup Spare(b)
  OBVIOUS
<1>1. PICK i \in 1 .. Len(a) : IsSpare(a, i) /\ l \in EvOf(a[i].kids)
  BY DEF Spare
<1>2. i \in 1 .. Len(b) /\ \A j \in 1 .. i - 1 : j \in 1 .. Len(a)
  OBVIOUS
<1>3. IsSpare(b, i)
  BY <1>1, <1>2 DEF IsSpare
<1> QED BY <1>1, <1>2, <1>3 DEF Spare

LEMMA TreeIn ==
    ASSUME NEW F, NEW a \in Seq(Roots), NEW b \in Seq(Roots), Len(a) <= Len(b),
           \A i \in 1 .. Len(a) : EvOf(a[i].kids) \subseteq F \cup EvOf(b[i].kids)
    PROVE  TreeLines(a) \subseteq F \cup TreeLines(b)
<1> SUFFICES ASSUME NEW l \in TreeLines(a) PROVE l \in F \cup TreeLines(b)
  OBVIOUS
<1>1. PICK i \in DOMAIN a : l \in EvOf(a[i].kids)
  BY DEF TreeLines
<1>2. i \in 1 .. Len(a) /\ i \in DOMAIN b
  OBVIOUS
<1> QED BY <1>1, <1>2 DEF TreeLines

LEMMA KeptGrows ==
    ASSUME NEW F, NEW G, F \subseteq G, NEW st
    PROVE  Kept(F, st) => Kept(G, st)
BY DEF Kept

LEMMA PendingGrows ==
    ASSUME NEW F, NEW G, F \subseteq G, NEW st, NEW fl
    PROVE  Pending(F, st, fl) => Pending(G, st, fl)
BY DEF Pending

\* A tree grown, or with its marks changed.
LEMMA GrownKept ==
    ASSUME NEW F, NEW st \in Stores, Kept(F, st), NEW new, Grown(st.tree, new.tree),
           new.seen = st.seen, new.reserved = st.reserved
    PROVE  Kept(F, new) /\ TreeLines(st.tree) \subseteq TreeLines(new.tree)
<1> DEFINE a == st.tree  b == new.tree
<1>0. a \in Seq(Roots) /\ Grown(a, b)
  BY DEF Stores
<1> HIDE DEF a, b
<1>1. /\ a \in Seq(Roots) /\ b \in Seq(Roots) /\ Len(a) \in Nat /\ Len(b) \in Nat /\ Len(a) <= Len(b)
      /\ \A i \in 1 .. Len(a) : b[i].file = a[i].file /\ EvOf(a[i].kids) \subseteq EvOf(b[i].kids)
  <2>1. b \in Seq(Roots) /\ Len(a) <= Len(b)
    BY <1>0 DEF Grown
  <2>2. \A i \in 1 .. Len(a) : b[i].file = a[i].file /\ EvOf(a[i].kids) \subseteq EvOf(b[i].kids)
    BY <1>0 DEF Grown
  <2>3. Len(a) \in Nat /\ Len(b) \in Nat
    BY <1>0, <2>1
  <2> QED BY <1>0, <2>1, <2>2, <2>3
<1>2. Spare(a) \subseteq {} \cup Spare(b)
  BY <1>1, SpareIn
<1>3. TreeLines(a) \subseteq {} \cup TreeLines(b)
  BY <1>1, TreeIn
<1>4. \A f \in Files : RootsOf(a, f) # {} => RootsOf(b, f) # {}
  BY <1>1 DEF RootsOf
<1> QED BY <1>2, <1>3, <1>4 DEF Kept, a, b

-----------------------------------------------------------------------------
(* Merging keeps what was seen *)
LEMMA TakesKept ==
    ASSUME NEW F, NEW st \in Stores, Kept(F, st), NEW f \in Files, NEW c \in Contents, Shown(c), Lead(c) \subseteq F,
           NEW tree, NEW m, Takes(st, f, c, tree, m),
           NEW new, new.tree = tree, new.reserved = st.reserved, new.seen[f].doc = c,
           EvOf(new.seen[f].base.kids) = EvOf(c.roots[1].kids), \A g \in Files \ {f} : new.seen[g] = st.seen[g]
    PROVE  Kept(F, new) /\ TreeLines(st.tree) \subseteq F \cup TreeLines(tree)
<1> DEFINE base == st.seen[f].base.kids
<1>1. /\ st.tree \in Seq(Roots) /\ tree \in Seq(Roots) /\ Len(st.tree) \in Nat /\ Len(tree) \in Nat
      /\ Len(st.tree) <= Len(tree) /\ m \in 1 .. Len(tree) /\ tree[m].file = f
      /\ \A i \in 1 .. m - 1 : tree[i].file # f
      /\ \A i \in 1 .. Len(st.tree) : tree[i].file = st.tree[i].file
  BY DEF Stores, Takes, Merged, Within, IsFirst
<1>2. /\ \A i \in 1 .. Len(st.tree) :
            EvOf(st.tree[i].kids) \subseteq EvOf(tree[i].kids) \cup (IF i = m THEN EvOf(base) ELSE {})
      /\ \A k \in 2 .. Len(c.roots) : \E i \in 1 .. Len(tree) :
            i # m /\ tree[i].file = f /\ EvOf(c.roots[k].kids) \subseteq EvOf(tree[i].kids)
  BY DEF Takes, Gains
<1>3. EvOf(base) \subseteq F
  BY DEF Kept
<1> HIDE DEF base
<1>4. \A i \in 1 .. Len(st.tree) : EvOf(st.tree[i].kids) \subseteq F \cup EvOf(tree[i].kids)
  BY <1>2, <1>3
<1>5. TreeLines(st.tree) \subseteq F \cup TreeLines(tree)
  BY <1>1, <1>4, TreeIn
<1>6. Spare(st.tree) \subseteq F \cup Spare(tree)
  BY <1>1, <1>4, SpareIn
<1>7. \A g \in Files : RootsOf(st.tree, g) # {} => RootsOf(tree, g) # {}
  BY <1>1 DEF RootsOf
<1>8. RootsOf(tree, f) # {}
  BY <1>1 DEF RootsOf
<1>9. ASSUME NEW l \in More(c) PROVE l \in Spare(tree)
  <2>1. PICK k \in 2 .. Len(c.roots) : l \in EvOf(c.roots[k].kids)
    BY <1>9 DEF More
  <2>2. PICK i \in 1 .. Len(tree) : i # m /\ tree[i].file = f /\ l \in EvOf(tree[i].kids)
    BY <1>2, <2>1
  <2>3. m \in 1 .. i - 1
    <3>1. i \notin 1 .. m - 1
      BY <1>1, <2>2
    <3> QED BY <1>1, <2>2, <3>1
  <2>4. IsSpare(tree, i)
    BY <1>1, <2>2, <2>3 DEF IsSpare, Files, NoFile
  <2> QED BY <2>2, <2>4 DEF Spare
<1>10. ASSUME NEW g \in Files
       PROVE  /\ Lead(new.seen[g].doc) \subseteq F /\ EvOf(new.seen[g].base.kids) \subseteq F
              /\ Shown(new.seen[g].doc) => RootsOf(new.tree, g) # {} \/ g \in new.reserved
              /\ More(new.seen[g].doc) \subseteq F \cup Spare(new.tree)
  <2>1. CASE g = f
    <3>1. EvOf(new.seen[f].base.kids) \subseteq F
      BY DEF Lead
    <3> QED BY <2>1, <3>1, <1>8, <1>9
  <2>2. CASE g # f
    BY <2>2, <1>6, <1>7 DEF Kept
  <2> QED BY <2>1, <2>2
<1> QED BY <1>5, <1>10 DEF Kept

LEMMA DirtyKept ==
    ASSUME NEW F, NEW st \in Stores, Kept(F, st)
    PROVE  Kept(F, MarkDirty(st)) /\ MarkDirty(st).tree = st.tree
<1>1. MarkDirty(st).tree = st.tree /\ MarkDirty(st).seen = st.seen /\ MarkDirty(st).reserved = st.reserved
  BY DEF MarkDirty, Stores
<1> QED BY <1>1 DEF Kept

LEMMA ReservedKept ==
    ASSUME NEW F, NEW st, Good(st), Kept(F, st), NEW f \in Files
    PROVE  LET new == [st EXCEPT !.reserved = @ \cup {f}] IN Kept(F, new) /\ new.tree = st.tree
<1> DEFINE new == [st EXCEPT !.reserved = @ \cup {f}]
<1>1. new.tree = st.tree /\ new.seen = st.seen /\ new.reserved = st.reserved \cup {f}
  BY ReservedIsGood
<1> HIDE DEF new
<1>2. Kept(F, new)
  BY <1>1 DEF Kept
<1> QED BY <1>1, <1>2 DEF new

LEMMA MergeDocKept ==
    ASSUME NEW F, NEW st, Good(st), Kept(F, st), NEW f \in Files, NEW c \in Contents, c # NoDoc, Lead(c) \subseteq F
    PROVE  LET new == MergeDoc(st, f, c) IN
           Kept(F, new) /\ TreeLines(st.tree) \subseteq F \cup TreeLines(new.tree)
<1> DEFINE new == MergeDoc(st, f, c)
<1>1. st \in Stores
  BY DEF Good
<1>2. CASE new = st
  BY <1>2
<1>3. CASE new = MarkDirty(st)
  BY <1>1, <1>3, DirtyKept
<1>4. CASE new = [st EXCEPT !.reserved = @ \cup {f}]
  BY <1>4, ReservedKept
<1>5. ASSUME Shown(c), NEW tree, NEW m, Takes(st, f, c, tree, m),
             new = DirtyIfDiffers(See([st EXCEPT !.tree = tree], f, c), c, m)
      PROVE  Kept(F, new) /\ TreeLines(st.tree) \subseteq F \cup TreeLines(new.tree)
  <2>1. tree \in Seq(Roots)
    BY <1>5 DEF Takes, Merged, Within
  <2>2. /\ new.tree = tree /\ new.reserved = st.reserved
        /\ new.seen[f].doc = c /\ EvOf(new.seen[f].base.kids) = EvOf(c.roots[1].kids)
        /\ \A g \in Files \ {f} : new.seen[g] = st.seen[g]
    BY <1>1, <1>5, <2>1, SeenAs
  <2> HIDE DEF new
  <2> QED BY <1>1, <1>5, <2>2, TakesKept
<1>6. \/ new \in {st, MarkDirty(st), [st EXCEPT !.reserved = @ \cup {f}]}
      \/ Shown(c) /\ \E tree, m :
            /\ Takes(st, f, c, tree, m)
            /\ new = DirtyIfDiffers(See([st EXCEPT !.tree = tree], f, c), c, m)
  BY <1>1, MergeDocIs
<1> QED BY <1>2, <1>3, <1>4, <1>5, <1>6

LEMMA ReconcileKept ==
    ASSUME NEW F, NEW st, Good(st), Kept(F, st), NEW got \in [Files -> Contents], \A f \in Files : Lead(got[f]) \subseteq F
    PROVE  LET new == Reconcile(st, got) IN
           Kept(F, new) /\ TreeLines(st.tree) \subseteq F \cup TreeLines(new.tree)
<1>1. PICK up : /\ Reconcile(st, got) = up[MaxFile] /\ up[0] = Forget(st, got)
                /\ \A f \in 1 .. MaxFile : up[f] = IF IsChanged(st, got, f) THEN MergeDoc(up[f - 1], f, got[f])
                                                   ELSE up[f - 1]
  BY ReconcileUp
<1> DEFINE Well(f) == Good(up[f]) /\ Kept(F, up[f]) /\ TreeLines(st.tree) \subseteq F \cup TreeLines(up[f].tree)
           D == {f \in Nat : f <= MaxFile => Well(f)}
<1>2. 0 \in D
  <2> DEFINE new == Forget(st, got)
  <2>1. Good(new) /\ new.tree = st.tree /\ new.reserved = st.reserved
        /\ \A f \in Files : new.seen[f] = Unseen \/ new.seen[f] = st.seen[f]
    BY ForgetIsGood
  <2> HIDE DEF new
  <2>2. Kept(F, new)
    BY <2>1, UnseenIs DEF Kept
  <2> QED BY <1>1, <2>1, <2>2 DEF new
<1>3. ASSUME NEW f \in Nat, f \in D PROVE f + 1 \in D
  <2> SUFFICES ASSUME f + 1 <= MaxFile PROVE Well(f + 1)
    OBVIOUS
  <2>0. f + 1 \in 1 .. MaxFile /\ f + 1 \in Files /\ (f + 1) - 1 = f
    BY RecordAssumption DEF Files
  <2>1. Well(f)
    BY <1>3, RecordAssumption
  <2>2. up[f + 1] = IF IsChanged(st, got, f + 1) THEN MergeDoc(up[f], f + 1, got[f + 1]) ELSE up[f]
    BY <1>1, <2>0
  <2>3. CASE IsChanged(st, got, f + 1)
    <3> DEFINE old == up[f]  g == f + 1  c == got[g]
    <3>1. g \in Files /\ c \in Contents /\ c # NoDoc /\ Lead(c) \subseteq F /\ Good(old) /\ Kept(F, old)
      BY <2>0, <2>1, <2>3 DEF IsChanged
    <3>2. up[f + 1] = MergeDoc(old, g, c)
      BY <2>2, <2>3
    <3> HIDE DEF old, g, c
    <3>3. /\ Good(up[f + 1]) /\ Kept(F, up[f + 1]) /\ TreeLines(old.tree) \subseteq F \cup TreeLines(up[f + 1].tree)
      BY <3>1, <3>2, MergeDocIsGood, MergeDocKept
    <3> QED BY <2>1, <3>3 DEF old
  <2>4. CASE ~IsChanged(st, got, f + 1)
    BY <2>1, <2>2, <2>4
  <2> QED BY <2>3, <2>4
<1> HIDE DEF D
<1>4. MaxFile \in D /\ MaxFile \in Nat
  BY <1>2, <1>3, Induction, RecordAssumption
<1> QED BY <1>1, <1>4 DEF D

-----------------------------------------------------------------------------
(* A store that has just loaded the documents has seen nothing else *)

\* Every root has a document, and the lines of the first of a document are in F.
FirstsFirm(F, tree) ==
    \A i \in 1 .. Len(tree) : tree[i].file # NoFile /\ (IsSpare(tree, i) \/ EvOf(tree[i].kids) \subseteq F)

LEMMA SpareLines ==
    ASSUME NEW tree \in Seq(Roots)
    PROVE  Spare(tree) \subseteq TreeLines(tree)
BY DEF Spare, TreeLines

LEMMA FirmLines ==
    ASSUME NEW F, NEW tree \in Seq(Roots), FirstsFirm(F, tree)
    PROVE  TreeLines(tree) \subseteq F \cup Spare(tree)
<1> SUFFICES ASSUME NEW l \in TreeLines(tree) PROVE l \in F \cup Spare(tree)
  OBVIOUS
<1>1. PICK i \in 1 .. Len(tree) : l \in EvOf(tree[i].kids)
  BY DEF TreeLines
<1> QED BY <1>1 DEF FirstsFirm, Spare

LEMMA LoadDocKept ==
    ASSUME NEW F, NEW st, Good(st), Kept(F, st), FirstsFirm(F, st.tree),
           NEW f \in Files, NEW c \in Contents, Lead(c) \subseteq F, RootsOf(st.tree, f) = {}
    PROVE  LET new == LoadDoc(st, f, c) IN Kept(F, new) /\ FirstsFirm(F, new.tree)
<1> DEFINE new == LoadDoc(st, f, c)
<1>1. st \in Stores
  BY DEF Good
<1>2. CASE new = st
  BY <1>2
<1>3. CASE new = MarkDirty(st)
  BY <1>1, <1>3, DirtyKept
<1>4. CASE new = [st EXCEPT !.reserved = @ \cup {f}]
  BY <1>4, ReservedKept
<1>5. ASSUME Shown(c), NEW tree, Takes(st, f, c, tree, Len(st.tree) + 1),
             EvOf(tree[Len(st.tree) + 1].kids) = EvOf(c.roots[1].kids),
             new = See([st EXCEPT !.tree = tree], f, c)
      PROVE  Kept(F, new) /\ FirstsFirm(F, new.tree)
  <2> DEFINE m == Len(st.tree) + 1
  <2>1. /\ st.tree \in Seq(Roots) /\ Len(st.tree) \in Nat /\ tree \in Seq(Roots) /\ Len(tree) \in Nat /\ tree[m].file = f
        /\ \A i \in 1 .. Len(st.tree) : tree[i].file = st.tree[i].file
                                        /\ (st.tree[i].file # f => EvOf(tree[i].kids) = EvOf(st.tree[i].kids))
        /\ \A i \in m .. Len(tree) : tree[i].file = f
    BY <1>1, <1>5 DEF Stores, Takes, Merged, Within, IsFirst
  <2>2. /\ new.tree = tree /\ new.reserved = st.reserved
        /\ new.seen[f].doc = c /\ EvOf(new.seen[f].base.kids) = EvOf(c.roots[1].kids)
        /\ \A g \in Files \ {f} : new.seen[g] = st.seen[g]
    BY <1>1, <1>5, <2>1, SeeIs
  <2> HIDE DEF new
  <2>3. Kept(F, new)
    BY <1>1, <1>5, <2>2, TakesKept
  <2>4. ASSUME NEW i \in 1 .. Len(tree)
        PROVE  tree[i].file # NoFile /\ (IsSpare(tree, i) \/ EvOf(tree[i].kids) \subseteq F)
    <3>1. CASE i \in 1 .. Len(st.tree)
      <4>1. st.tree[i].file # f /\ EvOf(tree[i].kids) = EvOf(st.tree[i].kids) /\ tree[i].file = st.tree[i].file
        BY <2>1, <3>1 DEF RootsOf
      <4>2. IsSpare(st.tree, i) => IsSpare(tree, i)
        <5>1. \A j \in 1 .. i - 1 : j \in 1 .. Len(st.tree)
          BY <2>1, <3>1
        <5> QED BY <2>1, <4>1, <5>1 DEF IsSpare
      <4> QED BY <3>1, <4>1, <4>2 DEF FirstsFirm
    <3>2. CASE i = m
      BY <2>1, <3>2, <1>5 DEF Lead, Files, NoFile
    <3>3. CASE i > m
      <4>1. m \in 1 .. i - 1 /\ i \in m .. Len(tree)
        BY <2>1, <3>3
      <4>2. tree[i].file = f /\ f # NoFile
        BY <2>1, <4>1 DEF Files, NoFile
      <4> QED BY <2>1, <4>1, <4>2 DEF IsSpare
    <3> QED BY <2>1, <3>1, <3>2, <3>3
  <2> QED BY <2>2, <2>3, <2>4 DEF FirstsFirm
<1>6. \/ new \in {st, MarkDirty(st), [st EXCEPT !.reserved = @ \cup {f}]}
      \/ Shown(c) /\ \E tree :
            /\ Takes(st, f, c, tree, Len(st.tree) + 1)
            /\ EvOf(tree[Len(st.tree) + 1].kids) = EvOf(c.roots[1].kids)
            /\ new = See([st EXCEPT !.tree = tree], f, c)
  BY <1>1, LoadDocIs
<1> QED BY <1>2, <1>3, <1>4, <1>5, <1>6

\* A copy goes where another root has its lines: what is left of a document is
\* firm, or is still to be split off.
LEMMA DropKept ==
    ASSUME NEW F, NEW st \in Stores, Kept(F, st), FirstsFirm(F, st.tree)
    PROVE  Kept(F, DropSplitDuplicates(st))
<1> DEFINE was == st.tree  new == DropSplitDuplicates(st)
<1>1. PICK tree : /\ Rest(was, tree, 0) /\ Left(was, tree)
                  /\ new = IF tree = was THEN st ELSE MarkDirty([st EXCEPT !.tree = tree])
  BY DropIs
<1>2. was \in Seq(Roots) /\ tree \in Seq(Roots) /\ Len(tree) \in Nat /\ Len(was) \in Nat
  BY <1>1 DEF Stores, Rest
<1>3. new.tree = tree /\ new.seen = st.seen /\ new.reserved = st.reserved
  <2>1. CASE tree = was
    BY <1>1, <2>1
  <2>2. CASE tree # was
    <3>1. new = [[st EXCEPT !.tree = tree] EXCEPT !.dirty = TRUE, !.moved = TRUE]
      BY <1>1, <2>2 DEF MarkDirty
    <3> HIDE DEF new
    <3> QED BY <3>1, <1>2 DEF Stores
  <2> QED BY <2>1, <2>2
<1> HIDE DEF new
<1>4. ASSUME NEW j \in 1 .. Len(tree)
      PROVE  tree[j].file # NoFile /\ (IsSpare(tree, j) \/ EvOf(tree[j].kids) \subseteq F)
  <2>1. PICK i \in 1 .. Len(was) : was[i] = tree[j]
    BY <1>1 DEF Left
  <2>2. tree[j].file # NoFile /\ tree[j].file \in Files
    <3>1. was[i] \in Roots
      BY <1>2
    <3> QED BY <2>1, <3>1 DEF FirstsFirm, Roots
  <2>3. CASE ~IsSpare(tree, j)
    <3> DEFINE f == tree[j].file
    <3>1. IsFirst(tree, f, j)
      BY <2>2, <2>3 DEF IsSpare, IsFirst
    <3>2. PICK k \in 1 .. Len(was) : IsFirst(was, f, k) /\ was[k] = tree[j]
      BY <1>1, <2>2, <3>1 DEF Rest
    <3>3. ~IsSpare(was, k)
      BY <3>2 DEF IsSpare, IsFirst
    <3> QED BY <2>2, <3>2, <3>3 DEF FirstsFirm
  <2> QED BY <2>2, <2>3
<1>5. TreeLines(tree) \subseteq F \cup Spare(tree)
  BY <1>2, <1>4, FirmLines DEF FirstsFirm
<1>6. Spare(was) \subseteq F \cup Spare(tree)
  <2>1. ASSUME NEW l \in TreeLines(was) PROVE l \in TreeLines(tree)
    <3>1. PICK i \in 1 .. Len(was) : l \in EvOf(was[i].kids)
      BY <1>2, <2>1 DEF TreeLines
    <3>2. PICK j \in 1 .. Len(tree) : EvOf(tree[j].kids) = EvOf(was[i].kids)
      BY <1>1 DEF Left
    <3> QED BY <1>2, <3>1, <3>2 DEF TreeLines
  <2> QED BY <1>2, <1>5, <2>1, SpareLines
<1>7. \A f \in Files : RootsOf(was, f) # {} => RootsOf(tree, f) # {}
  <2> HIDE DEF was
  <2> SUFFICES ASSUME NEW f \in Files, RootsOf(was, f) # {} PROVE RootsOf(tree, f) # {}
    OBVIOUS
  <2>1. PICK i \in 1 .. Len(was) : was[i].file = f
    BY <1>2 DEF RootsOf
  <2>2. PICK j \in 1 .. Len(tree) : tree[j].file = was[i].file
    BY <1>1 DEF Left
  <2>3. j \in DOMAIN tree
    BY <1>2
  <2> QED BY <2>1, <2>2, <2>3 DEF RootsOf
<1> QED BY <1>3, <1>6, <1>7 DEF Kept, new

LEMMA RemadeKept ==
    ASSUME NEW F, NEW st \in Stores, Kept(F, st), NEW new, Remade(st, new)
    PROVE  Kept(F, new) /\ TreeLines(st.tree) \subseteq TreeLines(new.tree)
<1>1. PICK tree : Alike(st.tree, tree) /\ new \in {st, MarkDirty([st EXCEPT !.tree = tree])}
  BY DEF Remade
<1>2. CASE new = st
  BY <1>2
<1>3. CASE new = MarkDirty([st EXCEPT !.tree = tree])
  <2>1. new = [[st EXCEPT !.tree = tree] EXCEPT !.dirty = TRUE, !.moved = TRUE] /\ tree \in Seq(Roots)
    BY <1>1, <1>3 DEF MarkDirty, Alike
  <2>2. new.tree = tree /\ new.seen = st.seen /\ new.reserved = st.reserved
    BY <2>1 DEF Stores
  <2>3. Grown(st.tree, new.tree)
    BY <1>1, <2>2, AlikeGrown DEF Stores
  <2> QED BY <2>2, <2>3, GrownKept
<1> QED BY <1>1, <1>2, <1>3

LEMMA LoadKept ==
    ASSUME NEW docs \in [Files -> Contents], NEW F, \A f \in Files : Lead(docs[f]) \subseteq F
    PROVE  Kept(F, LoadDocs(docs))
<1>1. PICK up : /\ LoadDocs(docs) = RepairRootIDs(DropSplitDuplicates(up[MaxFile]))
                /\ up[0] = [NoStore EXCEPT !.up = TRUE]
                /\ \A f \in 1 .. MaxFile : up[f] = LoadDoc(up[f - 1], f, docs[f])
  BY LoadUp
<1> DEFINE Well(f) == /\ Good(up[f]) /\ Kept(F, up[f]) /\ FirstsFirm(F, up[f].tree)
                      /\ \A i \in DOMAIN up[f].tree : up[f].tree[i].file \in 1 .. f
           D == {f \in Nat : f <= MaxFile => Well(f)}
<1>2. 0 \in D
  <2> DEFINE none == [NoStore EXCEPT !.up = TRUE]
  <2>1. none \in Stores /\ none.tree = <<>> /\ none.seen = [f \in Files |-> Unseen]
    BY NoStoreIs DEF Good, Stores, NoStore
  <2> HIDE DEF none
  <2>2. Good(none)
    BY <2>1, UnseenIs DEF Good, HasSeen, NoneElse, Unseen, Shown, NoDoc
  <2>3. Kept(F, none)
    BY <2>1, UnseenIs DEF Kept
  <2>4. up[0] = none
    BY <1>1 DEF none
  <2>5. DOMAIN up[0].tree = {} /\ FirstsFirm(F, up[0].tree)
    BY <2>1, <2>4 DEF FirstsFirm
  <2> QED BY <2>2, <2>3, <2>4, <2>5
<1>3. ASSUME NEW f \in Nat, f \in D PROVE f + 1 \in D
  <2> SUFFICES ASSUME f + 1 <= MaxFile PROVE Well(f + 1)
    OBVIOUS
  <2>0. f + 1 \in 1 .. MaxFile /\ f + 1 \in Files /\ (f + 1) - 1 = f
    BY RecordAssumption DEF Files
  <2>1. Well(f)
    BY <1>3, RecordAssumption
  <2>2. up[f + 1] = LoadDoc(up[f], f + 1, docs[f + 1])
    BY <1>1, <2>0
  <2>3. RootsOf(up[f].tree, f + 1) = {}
    BY <2>1 DEF RootsOf
  <2> DEFINE old == up[f]  new == up[f + 1]  g == f + 1  c == docs[f + 1]
  <2>4. /\ Good(old) /\ Kept(F, old) /\ FirstsFirm(F, old.tree)
        /\ g \in Files /\ c \in Contents /\ Lead(c) \subseteq F /\ RootsOf(old.tree, g) = {} /\ new = LoadDoc(old, g, c)
    BY <2>0, <2>1, <2>2, <2>3
  <2> HIDE DEF old, new, g, c
  <2>5. /\ Good(new) /\ Kept(F, new) /\ FirstsFirm(F, new.tree)
        /\ \A i \in DOMAIN new.tree : new.tree[i].file \in {old.tree[j].file : j \in DOMAIN old.tree} \cup {g}
    BY <2>4, LoadDocIsGood, LoadDocKept
  <2>6. {old.tree[j].file : j \in DOMAIN old.tree} \cup {g} \subseteq 1 .. f + 1
    BY <2>1 DEF old, g
  <2> QED BY <2>5, <2>6 DEF new
<1> HIDE DEF D
<1>4. MaxFile \in D /\ MaxFile \in Nat
  BY <1>2, <1>3, Induction, RecordAssumption
<1>5. Well(MaxFile)
  BY <1>4 DEF D
<1> DEFINE mid == DropSplitDuplicates(up[MaxFile])
<1>6. Good(mid) /\ Kept(F, mid)
  BY <1>5, DropIsGood, DropKept DEF Good
<1> HIDE DEF mid
<1>7. mid \in Stores /\ Remade(mid, RepairRootIDs(mid))
  BY <1>6, RepairIs DEF Good
<1> QED BY <1>1, <1>6, <1>7, RemadeKept DEF mid

-----------------------------------------------------------------------------
(* A flush: what it is going to write, what it has written, and its end *)

LEMMA HasFirst ==
    ASSUME NEW tree \in Seq(Roots), NEW f, RootsOf(tree, f) # {}
    PROVE  \E i \in 1 .. Len(tree) : IsFirst(tree, f, i)
<1> DEFINE S == RootsOf(tree, f)  i == Least(S)
<1>1. S \subseteq 1 .. Len(tree) /\ Len(tree) \in Nat /\ S \in SUBSET Nat
  BY DEF RootsOf
<1> HIDE DEF S
<1>2. i \in S /\ \A j \in S : i <= j
  BY <1>1, LeastOf DEF S
<1> HIDE DEF i
<1>3. ASSUME NEW j \in 1 .. i - 1 PROVE tree[j].file # f
  <2>1. j \notin S /\ j \in DOMAIN tree
    BY <1>1, <1>2
  <2> QED BY <2>1 DEF S, RootsOf
<1> QED BY <1>1, <1>2, <1>3 DEF IsFirst, RootsOf, S

LEMMA WrittenIs ==
    ASSUME NEW writes \in Seq(Writes), NEW n \in Nat, NEW k \in 1 .. Len(writes), k <= n
    PROVE  EvOf(writes[k].task.kids) \subseteq Written(writes, n)
BY DEF Written

LEMMA WrittenGrows ==
    ASSUME NEW writes, NEW m \in Nat, NEW n \in Nat, m <= n, Len(writes) \in Nat
    PROVE  Written(writes, m) \subseteq Written(writes, n)
BY DEF Written

\* The roots that leave their document are written first, and a root that
\* stays takes on what its document had.
LEMMA RenderPending ==
    ASSUME NEW F, NEW st, Good(st), Kept(F, st), ToSet(DocNames(st)) \subseteq Files
    PROVE  LET names == DocNames(st)
               differs == {i \in DOMAIN names : st.seen[names[i]].doc # Render(st.tree[i])}
               split == {i \in DOMAIN names : st.tree[i].file \notin {NoFile, names[i]}}
               order == InOrder(differs \cap split, Len(names)) \o InOrder(differs \ split, Len(names))
               writes == [k \in DOMAIN order |-> [file |-> names[order[k]], task |-> Task(st.tree[order[k]])]]
           IN  \A fl : fl.writes = writes /\ fl.written = {} => Pending(F, st, fl)
<1> DEFINE names == DocNames(st)
           n == Len(names)
           differs == {i \in DOMAIN names : st.seen[names[i]].doc # Render(st.tree[i])}
           split == {i \in DOMAIN names : st.tree[i].file \notin {NoFile, names[i]}}
           order == Ordered(n, differs \cap split, differs \ split)
           writes == [k \in DOMAIN order |-> [file |-> names[order[k]], task |-> Task(st.tree[order[k]])]]
<1> SUFFICES ASSUME NEW fl, fl.writes = writes, fl.written = {} PROVE Pending(F, st, fl)
  BY DEF Ordered
<1> HIDE DEF names, n, differs, split, order, writes
<1>0. st \in Stores /\ st.tree \in Seq(Roots) /\ Len(st.tree) \in Nat
  BY DEF Good, Stores
<1>1. /\ names \in Seq(Nat) /\ n = Len(st.tree) /\ n \in Nat
      /\ \A i, j \in 1 .. n : names[i] = names[j] => i = j
      /\ \A i \in 1 .. n : names[i] \notin st.reserved
      /\ \A f \in Files : \A i \in 1 .. n :
            IsFirst(st.tree, f, i) /\ f \notin st.reserved => names[i] = f
  BY <1>0, DocNamesIs DEF names, n
<1>2. /\ DOMAIN names = 1 .. n /\ \A i \in 1 .. n : i \in DOMAIN st.tree /\ names[i] \in Files /\ st.tree[i] \in Roots
  <2>1. DOMAIN names = 1 .. n
    BY <1>1 DEF n
  <2>2. \A i \in DOMAIN names : names[i] \in Files
    BY DEF ToSet, names
  <2> QED BY <1>0, <1>1, <2>1, <2>2
<1>3. differs \subseteq 1 .. n /\ split \subseteq 1 .. n
  BY <1>2 DEF differs, split
<1>4. \A i \in 1 .. n : /\ i \notin differs => st.seen[names[i]].doc = Render(st.tree[i])
                        /\ i \in split <=> st.tree[i].file \notin {NoFile, names[i]}
  BY <1>2 DEF differs, split
<1>5. order \in Seq(differs) /\ LeadsWith(order, differs \cap split)
  <2> DEFINE A == differs \cap split  B == differs \ split
  <2>1. A \cup B \subseteq 1 .. n /\ A \cup B = differs
    BY <1>3
  <2> HIDE DEF A, B
  <2>2. Ordered(n, A, B) \in Seq(A \cup B) /\ LeadsWith(Ordered(n, A, B), A)
    BY <1>1, <2>1, OrderIs
  <2> QED BY <2>1, <2>2 DEF A, B, order
<1>6. PICK m \in 0 .. Len(order) : /\ \A k \in 1 .. m : order[k] \in differs \cap split
                                   /\ \A x \in differs \cap split : \E k \in 1 .. m : order[k] = x
  BY <1>5 DEF LeadsWith
<1>7. DOMAIN order = 1 .. Len(order) /\ Len(order) \in Nat /\ m \in Nat /\ \A k \in 1 .. Len(order) : order[k] \in differs
  BY <1>5, <1>6
<1>8. /\ DOMAIN writes = 1 .. Len(order)
      /\ \A k \in 1 .. Len(order) : writes[k] = [file |-> names[order[k]], task |-> Task(st.tree[order[k]])]
  BY <1>7 DEF writes
<1>9. ASSUME NEW k \in 1 .. Len(order)
      PROVE  /\ order[k] \in 1 .. n /\ writes[k].file = names[order[k]]
             /\ writes[k].task.kids = st.tree[order[k]].kids /\ writes[k] \in Writes
  <2>1. order[k] \in 1 .. n
    BY <1>3, <1>7
  <2>2. Task(st.tree[order[k]]) \in Tasks /\ Task(st.tree[order[k]]).kids = st.tree[order[k]].kids
    BY <1>2, <2>1, TaskIs
  <2> QED BY <1>2, <1>8, <2>1, <2>2 DEF Writes
<1>10. writes \in Seq(Writes) /\ Len(writes) = Len(order)
  <2>1. writes = [k \in 1 .. Len(order) |-> writes[k]]
    BY <1>8 DEF writes
  <2> QED BY <1>7, <1>9, <2>1, IsSequence
<1>11. Spare(st.tree) \subseteq F \cup Written(writes, m)
  <2> SUFFICES ASSUME NEW l \in Spare(st.tree) PROVE l \in F \cup Written(writes, m)
    OBVIOUS
  <2>1. PICK i \in 1 .. n : IsSpare(st.tree, i) /\ l \in EvOf(st.tree[i].kids)
    BY <1>1 DEF Spare
  <2> DEFINE f == st.tree[i].file
  <2>2. f # NoFile /\ f \in Files
    BY <1>2, <2>1 DEF IsSpare, Roots
  <2>3. names[i] # f
    <3>1. RootsOf(st.tree, f) # {}
      BY <1>0, <1>1, <2>1 DEF RootsOf
    <3>2. PICK h \in 1 .. n : IsFirst(st.tree, f, h)
      BY <1>0, <1>1, <3>1, HasFirst
    <3>3. h # i
      BY <2>1, <3>2 DEF IsFirst, IsSpare
    <3> QED BY <1>1, <2>2, <3>2, <3>3
  <2>4. i \in split
    BY <1>4, <2>2, <2>3
  <2>5. CASE i \in differs
    <3>1. PICK k \in 1 .. m : order[k] = i
      BY <1>6, <2>4, <2>5
    <3>2. k \in 1 .. Len(order) /\ k <= m
      BY <1>6, <1>7
    <3>3. EvOf(writes[k].task.kids) \subseteq Written(writes, m)
      BY <1>7, <1>10, <3>2, WrittenIs
    <3> QED BY <1>9, <2>1, <3>1, <3>2, <3>3
  <2>6. CASE i \notin differs
    <3>1. st.seen[names[i]].doc = Render(st.tree[i]) /\ names[i] \in Files
      BY <1>2, <1>4, <2>6
    <3>2. Lead(st.seen[names[i]].doc) = EvOf(st.tree[i].kids)
      BY <1>2, <3>1, TaskIs, OneTask DEF Render
    <3> QED BY <2>1, <3>1, <3>2 DEF Kept
  <2> QED BY <2>5, <2>6
<1>12. ASSUME NEW f \in Files PROVE More(st.seen[f].doc) \subseteq F \cup Written(writes, Len(writes))
  <2>1. Written(writes, m) \subseteq Written(writes, Len(writes))
    BY <1>6, <1>7, <1>10, WrittenGrows
  <2> QED BY <1>11, <2>1 DEF Kept
<1>13. ASSUME NEW k \in 1 .. Len(writes)
       PROVE  /\ Lead(st.seen[writes[k].file].doc) \subseteq EvOf(writes[k].task.kids)
              /\ More(st.seen[writes[k].file].doc) \subseteq F \cup Written(writes, k - 1)
  <2> DEFINE i == order[k]  f == names[i]  doc == st.seen[f].doc
  <2>1. k \in 1 .. Len(order)
    BY <1>10
  <2>2. i \in 1 .. n /\ writes[k].file = f /\ writes[k].task.kids = st.tree[i].kids
    BY <1>9, <2>1
  <2>3. f \in Files /\ doc \in Contents
    BY <1>0, <1>2, <2>2 DEF Stores, Seens
  <2> HIDE DEF i, f
  <2>4. CASE ~Shown(doc)
    BY <2>2, <2>3, <2>4, NotShown
  <2>5. CASE Shown(doc)
    <3>1. f \notin st.reserved
      BY <1>1, <2>2 DEF f
    <3>2. RootsOf(st.tree, f) # {}
      BY <2>3, <2>5, <3>1 DEF Kept
    <3>3. PICK h \in 1 .. n : IsFirst(st.tree, f, h)
      BY <1>0, <1>1, <3>2, HasFirst
    <3>4. h = i
      <4>1. names[h] = f /\ names[i] = f
        BY <1>1, <2>3, <3>1, <3>3 DEF f
      <4> QED BY <1>1, <2>2, <4>1
    <3>5. Lead(doc) \subseteq EvOf(st.tree[i].kids)
      BY <1>1, <2>2, <2>3, <2>5, <3>3, <3>4 DEF Good, HasSeen, Lead
    <3>6. i \notin split
      BY <1>4, <2>2, <3>3, <3>4 DEF IsFirst, f
    <3>7. m <= k - 1 /\ k - 1 \in Nat
      BY <1>6, <1>7, <2>1, <3>6 DEF i
    <3>8. Written(writes, m) \subseteq Written(writes, k - 1)
      BY <1>7, <1>10, <3>7, WrittenGrows
    <3> QED BY <1>11, <2>2, <2>3, <3>5, <3>8 DEF Kept
  <2> QED BY <2>4, <2>5
<1> QED BY <1>12, <1>13 DEF Pending

\* The flush ends: what it has written is what the store has seen.
LEMMA EndKept ==
    ASSUME NEW F, NEW st, Good(st), Kept(F, st), NEW fl, IsFlush(fl), NamesOf(st, fl), WritesOf(st, fl),
           fl.writes = <<>>, Pending(F, st, fl)
    PROVE  LET new == Clean([Remember(st, fl.written) EXCEPT !.tree = Titled(st, fl.names)]) IN
           Kept(F, new) /\ TreeLines(new.tree) = TreeLines(st.tree) /\ new.up = st.up
<1> DEFINE mid == Remember(st, fl.written)
           names == fl.names
           tree == Titled(st, names)
           new == Clean([mid EXCEPT !.tree = tree])
<1>0. /\ st \in Stores /\ fl.written \in SUBSET Writes /\ names \in Seq(Files)
      /\ Len(names) \in Nat /\ Len(st.tree) \in Nat /\ st.tree \in Seq(Roots) /\ Len(names) <= Len(st.tree)
  BY DEF Good, IsFlush, Stores, NamesOf
<1>1. /\ mid \in Stores /\ mid.up = st.up /\ mid.reserved = st.reserved
      /\ \A f \in Files :
            \/ \E w \in fl.written : w.file = f /\ mid.seen[f].doc = Doc(<<w.task>>) /\ mid.seen[f].base = w.task
            \/ (\A w \in fl.written : w.file # f) /\ mid.seen[f] = st.seen[f]
  BY <1>0, RememberIs
<1> HIDE DEF mid
<1>2. /\ DOMAIN tree = 1 .. Len(st.tree)
      /\ \A i \in 1 .. Len(st.tree) : tree[i] = IF i \in 1 .. Len(names) THEN [st.tree[i] EXCEPT !.file = names[i]]
                                                ELSE st.tree[i]
  BY <1>0 DEF Titled
<1> HIDE DEF tree
<1>3. ASSUME NEW i \in 1 .. Len(st.tree)
      PROVE  tree[i].kids = st.tree[i].kids /\ (i \in 1 .. Len(names) => tree[i].file = names[i])
  <2> DEFINE r == st.tree[i]
  <2>1. r \in Roots /\ tree[i] = IF i \in 1 .. Len(names) THEN [r EXCEPT !.file = names[i]] ELSE r
    BY <1>0, <1>2
  <2> HIDE DEF r
  <2>2. tree[i].kids = r.kids /\ (i \in 1 .. Len(names) => tree[i].file = names[i])
    BY <2>1 DEF Roots
  <2> QED BY <2>2 DEF r
<1>4. new = [[mid EXCEPT !.tree = tree] EXCEPT !.dirty = mid.moved]
  BY <1>1 DEF Clean, Stores
<1> HIDE DEF new
<1>5. new.tree = tree /\ new.seen = mid.seen /\ new.up = st.up /\ new.reserved = st.reserved
  BY <1>1, <1>4 DEF Stores
<1>6. TreeLines(new.tree) = TreeLines(st.tree)
  <2>1. DOMAIN st.tree = 1 .. Len(st.tree)
    BY <1>0
  <2>2. {EvOf(tree[i].kids) : i \in DOMAIN tree} = {EvOf(st.tree[i].kids) : i \in DOMAIN st.tree}
    BY <1>2, <1>3, <2>1
  <2> QED BY <1>5, <2>2 DEF TreeLines
<1>7. \A i \in 1 .. Len(names) : RootsOf(tree, names[i]) # {}
  BY <1>0, <1>2, <1>3 DEF RootsOf
<1>8. ASSUME NEW f \in Files
      PROVE  /\ Lead(new.seen[f].doc) \subseteq F /\ EvOf(new.seen[f].base.kids) \subseteq F
             /\ Shown(new.seen[f].doc) => RootsOf(new.tree, f) # {} \/ f \in new.reserved
             /\ More(new.seen[f].doc) \subseteq F \cup Spare(new.tree)
  <2>1. ASSUME NEW w \in fl.written, w.file = f, mid.seen[f].doc = Doc(<<w.task>>), mid.seen[f].base = w.task
        PROVE  /\ Lead(mid.seen[f].doc) \subseteq F /\ EvOf(mid.seen[f].base.kids) \subseteq F
               /\ More(mid.seen[f].doc) = {} /\ RootsOf(tree, f) # {}
    <3>1. w.task \in Tasks /\ EvOf(w.task.kids) \subseteq F
      BY <1>0 DEF Writes, Pending
    <3>2. \E i \in 1 .. Len(names) : names[i] = f
      BY <2>1 DEF WritesOf, Ours
    <3> QED BY <2>1, <1>7, <3>1, <3>2, OneTask
  <2>2. CASE (\A w \in fl.written : w.file # f) /\ mid.seen[f] = st.seen[f]
    <3>1. More(st.seen[f].doc) \subseteq F
      <4>1. Written(fl.writes, Len(fl.writes)) = {}
        BY DEF Written
      <4> QED BY <4>1 DEF Pending
    <3>2. ASSUME Shown(st.seen[f].doc), f \notin st.reserved PROVE RootsOf(tree, f) # {}
      <4>1. PICK i \in 1 .. Len(st.tree) : IsFirst(st.tree, f, i)
        BY <1>0, <3>2, HasFirst DEF Kept
      <4>2. st.tree[i].file # NoFile
        BY <4>1 DEF IsFirst, Files, NoFile
      <4>3. i \in 1 .. Len(names) \/ i \in Len(names) + 1 .. Len(st.tree)
        BY <1>0
      <4>4. i \in 1 .. Len(names)
        BY <4>2, <4>3 DEF NamesOf
      <4>5. names[i] = f
        BY <3>2, <4>1, <4>4 DEF NamesOf
      <4> QED BY <1>7, <4>4, <4>5
    <3> QED BY <1>5, <2>2, <3>1, <3>2 DEF Kept
  <2> QED BY <1>1, <1>5, <2>1, <2>2
<1>9. Kept(F, new)
  BY <1>8 DEF Kept
<1> QED BY <1>5, <1>6, <1>9 DEF new, mid, tree

\* A document is written: its task is now in F, and the writes that are left
\* come after it.
LEMMA PutPending ==
    ASSUME NEW F, NEW st, NEW fl, IsFlush(fl), fl.writes # <<>>, Pending(F, st, fl),
           EvOf(Head(fl.writes).task.kids) \subseteq F,
           NEW new, new.writes = Tail(fl.writes), new.written = fl.written \cup {Head(fl.writes)}
    PROVE  Pending(F, st, new)
<1> DEFINE writes == fl.writes  w == Head(writes)  rest == Tail(writes)
<1>1. writes \in Seq(Writes)
  BY DEF IsFlush
<1>2. /\ rest \in Seq(Writes) /\ Len(rest) = Len(writes) - 1 /\ w = writes[1] /\ Len(writes) \in Nat /\ Len(rest) \in Nat
      /\ \A k \in 1 .. Len(rest) : rest[k] = writes[k + 1]
  BY <1>1, HeadTailProperties
<1> HIDE DEF w, rest, writes
<1>3. ASSUME NEW n \in Nat, n + 1 <= Len(writes) PROVE Written(writes, n + 1) \subseteq F \cup Written(rest, n)
  <2> SUFFICES ASSUME NEW k \in 1 .. Len(writes), k <= n + 1 PROVE EvOf(writes[k].task.kids) \subseteq F \cup Written(rest, n)
    BY DEF Written
  <2>1. CASE k = 1
    BY <1>2, <2>1 DEF w, writes
  <2>2. CASE k # 1
    <3>1. k - 1 \in 1 .. Len(rest) /\ k - 1 <= n /\ (k - 1) + 1 = k
      BY <1>2, <1>3, <2>2
    <3>2. rest[k - 1] = writes[k]
      BY <1>2, <3>1
    <3> QED BY <1>2, <1>3, <3>1, <3>2, WrittenIs
  <2> QED BY <2>1, <2>2
<1>4. ASSUME NEW f \in Files PROVE More(st.seen[f].doc) \subseteq F \cup Written(rest, Len(rest))
  <2>1. Len(rest) + 1 = Len(writes)
    BY <1>2
  <2>2. Written(writes, Len(writes)) \subseteq F \cup Written(rest, Len(rest))
    BY <1>2, <1>3, <2>1
  <2>3. More(st.seen[f].doc) \subseteq F \cup Written(writes, Len(writes))
    BY DEF Pending, writes
  <2> QED BY <2>2, <2>3
<1>5. ASSUME NEW k \in 1 .. Len(rest)
      PROVE  /\ Lead(st.seen[rest[k].file].doc) \subseteq EvOf(rest[k].task.kids)
             /\ More(st.seen[rest[k].file].doc) \subseteq F \cup Written(rest, k - 1)
  <2>1. /\ rest[k] = writes[k + 1] /\ k + 1 \in 1 .. Len(writes) /\ (k + 1) - 1 = k
        /\ k - 1 \in Nat /\ (k - 1) + 1 = k /\ k <= Len(writes)
    BY <1>2
  <2>2. /\ Lead(st.seen[writes[k + 1].file].doc) \subseteq EvOf(writes[k + 1].task.kids)
        /\ More(st.seen[writes[k + 1].file].doc) \subseteq F \cup Written(writes, (k + 1) - 1)
    BY <2>1 DEF Pending, writes
  <2>3. Written(writes, k) \subseteq F \cup Written(rest, k - 1)
    BY <1>3, <2>1
  <2> QED BY <2>1, <2>2, <2>3
<1>6. ASSUME NEW v \in new.written PROVE EvOf(v.task.kids) \subseteq F
  BY DEF Pending
<1>7. new.writes = rest
  BY DEF rest, writes
<1> QED BY <1>4, <1>5, <1>6, <1>7 DEF Pending

-----------------------------------------------------------------------------
(* The invariant *)

\* Where writes do not fail: what the first task of a document has had stays in
\* it, goes into a copy that was set aside, or was taken out by hand.
DocLines == UNION {Lines(disk[f]) : f \in Files}
Firm == gone \cup (UNION {Lines(c) : c \in asides}) \cup (UNION {Lead(disk[f]) : f \in Files})
\* One session: what it has seen is firm, and what it read to merge; what a
\* flush has on its way, it is going to write.
Calm(F, st, fl) ==
    /\ Kept(F, st) /\ (~st.up => st.tree = <<>>)
    /\ \A f \in Files : Lead(fl.got[f]) \subseteq F
    /\ fl.pc \in Writing => Pending(F, st, fl)
Covered == Ink \subseteq Firm \cup DocLines \cup (UNION {TreeLines(store[s].tree) : s \in Sessions})
LossInv ==
    /\ "fail" \notin bound.may /\ Covered
    /\ \A s \in Sessions : Calm(Firm, store[s], flush[s])

LEMMA CalmGrows ==
    ASSUME NEW F, NEW G, F \subseteq G, NEW st, NEW fl, Calm(F, st, fl)
    PROVE  Calm(G, st, fl)
<1>1. Kept(G, st)
  BY KeptGrows DEF Calm
<1>2. fl.pc \in Writing => Pending(G, st, fl)
  BY PendingGrows DEF Calm
<1> QED BY <1>1, <1>2 DEF Calm

\* A step of one session: nothing firm goes, what leaves a document or the
\* tree is firm, and what is new is in one of them.
LEMMA LossStep ==
    ASSUME Inv, LossInv, bound' = bound, Firm \subseteq Firm', DocLines \subseteq Firm' \cup DocLines',
           NEW s \in Sessions, NEW st, NEW fl, store' = [store EXCEPT ![s] = st], flush' = [flush EXCEPT ![s] = fl],
           TreeLines(store[s].tree) \subseteq Firm' \cup DocLines' \cup TreeLines(st.tree),
           Ink' \subseteq Ink \cup Firm' \cup DocLines' \cup TreeLines(st.tree),
           Calm(Firm', st, fl)
    PROVE  LossInv'
<1>1. store'[s] = st /\ flush'[s] = fl
  BY DEF Inv
<1>2. \A r \in Sessions \ {s} : store'[r] = store[r] /\ flush'[r] = flush[r]
  BY DEF Inv
<1> DEFINE F == Firm'  D == DocLines'
<1> HIDE DEF F, D
<1>3. Firm \subseteq F /\ DocLines \subseteq F \cup D /\ Ink' \subseteq Ink \cup F \cup D \cup TreeLines(st.tree)
      /\ TreeLines(store[s].tree) \subseteq F \cup D \cup TreeLines(st.tree) /\ Calm(F, st, fl)
  BY DEF F, D
<1>4. ASSUME NEW r \in Sessions PROVE Calm(F, store'[r], flush'[r])
  <2>1. CASE r = s
    BY <1>1, <1>3, <2>1
  <2>2. CASE r # s
    <3>1. Calm(Firm, store[r], flush[r])
      BY DEF LossInv
    <3>2. Calm(F, store[r], flush[r])
      BY <1>3, <3>1, CalmGrows
    <3> QED BY <1>2, <2>2, <3>2
  <2> QED BY <2>1, <2>2
<1>5. ASSUME NEW l \in Ink' PROVE l \in F \cup D \cup (UNION {TreeLines(store'[r].tree) : r \in Sessions})
  <2>1. TreeLines(st.tree) \subseteq UNION {TreeLines(store'[r].tree) : r \in Sessions}
    BY <1>1
  <2>2. ASSUME NEW r \in Sessions, l \in TreeLines(store[r].tree)
        PROVE  l \in F \cup D \cup (UNION {TreeLines(store'[q].tree) : q \in Sessions})
    <3>1. CASE r = s
      BY <1>3, <2>1, <2>2, <3>1
    <3>2. CASE r # s
      BY <1>2, <2>2, <3>2
    <3> QED BY <3>1, <3>2
  <2>3. CASE l \in Ink
    BY <1>3, <2>2, <2>3 DEF LossInv, Covered
  <2> QED BY <1>3, <1>5, <2>1, <2>3
<1> QED BY <1>4, <1>5 DEF LossInv, Covered, F, D

-----------------------------------------------------------------------------
(* No line is lost: the sessions' steps *)

LEMMA CalmIs ==
    ASSUME Inv, LossInv, NEW s \in Sessions
    PROVE  Calm(Firm, store[s], flush[s]) /\ Kept(Firm, store[s])
BY DEF LossInv, Calm

\* A step that leaves the documents and what is set aside alone.
LEMMA DiskStays ==
    ASSUME disk' = disk, asides' = asides, gone \subseteq gone'
    PROVE  Firm \subseteq Firm' /\ DocLines' = DocLines
<1>1. DocLines' = DocLines
  BY DEF DocLines
<1>2. Firm' = gone' \cup (UNION {Lines(c) : c \in asides}) \cup (UNION {Lead(disk[f]) : f \in Files})
  BY DEF Firm
<1> QED BY <1>1, <1>2 DEF Firm

LEMMA DiskFirm == \A f \in Files : Lead(disk[f]) \subseteq Firm
<1> SUFFICES ASSUME NEW f \in Files, NEW l \in Lead(disk[f]) PROVE l \in Firm
  OBVIOUS
<1> QED BY DEF Firm

\* A flush that has nothing under way.
LEMMA QuietCalm ==
    ASSUME NEW F, NEW st, Kept(F, st), ~st.up => st.tree = <<>>,
           NEW fl, fl.pc \notin Writing, \A f \in Files : Lead(fl.got[f]) \subseteq F
    PROVE  Calm(F, st, fl)
BY DEF Calm

LEMMA NoGot ==
    ASSUME NEW pc
    PROVE  LET fl == [NoFlush EXCEPT !.pc = pc] IN fl.pc = pc /\ \A f \in Files : Lead(fl.got[f]) = {}
<1>1. Lead(NoDoc) = {}
  BY UnseenIs DEF Unseen
<1>2. NoFlush.got = [f \in Files |-> NoDoc]
  BY NoFlushIs DEF Fresh
<1> DEFINE n == NoFlush  fl == [n EXCEPT !.pc = pc]
<1>3. n \in Fresh("idle", [f \in Files |-> NoDoc], <<>>, <<>>, None)
  BY NoFlushIs
<1> HIDE DEF n
<1>4. fl.pc = pc /\ fl.got = [f \in Files |-> NoDoc]
  BY <1>3 DEF Fresh
<1> QED BY <1>1, <1>4 DEF n

LEMMA OpenAtLoses ==
    ASSUME Inv, LossInv, NEW s \in Sessions, NEW resumed, OpenAt(s, resumed)
    PROVE  LossInv'
<1> DEFINE st == LoadDocs(disk)
           new == IF resumed \/ saved.session = s THEN st ELSE StartFresh(st, saved.active)
<1>1. disk \in [Files -> Contents]
  BY Same
<1>2. Firm \subseteq Firm' /\ DocLines \subseteq Firm' \cup DocLines'
  <2>1. ASSUME NEW f \in Files PROVE Lead(disk'[f]) = Lead(disk[f]) /\ Lines(disk'[f]) = Lines(disk[f])
    <3>1. Bad \in Contents /\ NoDoc \in Contents /\ ~Shown(Bad) /\ ~Shown(NoDoc)
      BY DEF Contents, Shown, Bad, NoDoc
    <3>2. disk'[f] = IF disk[f] = Bad THEN NoDoc ELSE disk[f]
      BY DEF OpenAt
    <3> QED BY <3>1, <3>2, NotShown
  <2>2. gone' = gone /\ asides \subseteq asides'
    BY DEF OpenAt, history
  <2> QED BY <2>1, <2>2 DEF Firm, DocLines
<1>3. store' = [store EXCEPT ![s] = new] /\ flush' = [flush EXCEPT ![s] = flush[s]] /\ bound' = bound /\ ink' = ink
  BY Same DEF OpenAt, tally
<1>4. Kept(Firm, new) /\ new.up
  <2>1. Good(st) /\ st \in Stores /\ st.up /\ Kept(Firm, st)
    <3> QED BY <1>1, DiskFirm, LoadIsGood, LoadKept DEF Good
  <2> HIDE DEF st
  <2>2. Remade(st, StartFresh(st, saved.active))
    BY <2>1, StartFreshIs
  <2>3. Kept(Firm, StartFresh(st, saved.active)) /\ StartFresh(st, saved.active).up
    BY <2>1, <2>2, RemadeIsGood, RemadeKept DEF Keeps
  <2> QED BY <2>1, <2>3
<1>5. ~store[s].up /\ store[s].tree = <<>>
  BY DEF OpenAt, LossInv, Calm
<1>6. TreeLines(store[s].tree) = {}
  BY <1>5 DEF TreeLines
<1> HIDE DEF new
<1>7. Calm(Firm, new, flush[s])
  BY <1>4, <1>5, CalmIs, Same, QuietCalm DEF Calm, Flushes, Writing
<1>8. Calm(Firm', new, flush[s])
  BY <1>2, <1>7, CalmGrows
<1>9. Ink' = Ink
  BY <1>3 DEF Ink
<1> QED BY <1>2, <1>3, <1>6, <1>8, <1>9, LossStep

LEMMA CrashLoses ==
    ASSUME Inv, LossInv, NEW s \in Sessions, Crash(s)
    PROVE  LossInv'
<1>1. /\ disk' = disk /\ asides' = asides /\ gone' = gone \cup (TreeLines(store[s].tree) \ DocLines)
      /\ store' = [store EXCEPT ![s] = NoStore] /\ flush' = [flush EXCEPT ![s] = NoFlush]
      /\ bound' = bound /\ ink' = ink
  BY DEF Crash, tally, DocLines
<1>2. Firm \subseteq Firm' /\ DocLines' = DocLines
  BY <1>1, DiskStays
<1>3. TreeLines(store[s].tree) \subseteq Firm' \cup DocLines'
  BY <1>1, <1>2 DEF Firm
<1>4. Calm(Firm', NoStore, NoFlush)
  <2>1. NoStore.tree = <<>> /\ NoStore.seen = [f \in Files |-> Unseen]
    BY DEF NoStore
  <2>2. Kept(Firm', NoStore)
    BY <2>1, UnseenIs DEF Kept
  <2>3. NoFlush.pc = "idle" /\ \A f \in Files : Lead(NoFlush.got[f]) = {}
    BY UnseenIs DEF NoFlush, Unseen
  <2> QED BY <2>1, <2>2, <2>3, QuietCalm DEF Writing
<1>5. Ink' = Ink
  BY <1>1 DEF Ink
<1> QED BY <1>1, <1>2, <1>3, <1>4, <1>5, LossStep

LEMMA WorkLoses ==
    ASSUME Inv, LossInv, NEW s \in Sessions, NEW kind, NEW tree, Grown(store[s].tree, tree), store[s].up,
           Work(s, kind, [store[s] EXCEPT !.tree = tree]), Ink' \subseteq Ink \cup TreeLines(tree)
    PROVE  LossInv'
<1> DEFINE st == store[s]
           mid == [st EXCEPT !.tree = tree]
           new == MarkDirty(mid)
<1>1. /\ store' = [store EXCEPT ![s] = new] /\ flush' = [flush EXCEPT ![s] = flush[s]]
      /\ disk' = disk /\ asides' = asides /\ gone' = gone /\ bound' = bound
  BY Same DEF Work, history
<1>2. st \in Stores /\ tree \in Seq(Roots)
  BY Same DEF Grown
<1>3. new = [mid EXCEPT !.dirty = TRUE, !.moved = TRUE]
  BY DEF MarkDirty
<1> HIDE DEF st, new
<1>4. new.tree = tree /\ new.seen = st.seen /\ new.reserved = st.reserved /\ new.up = st.up
  BY <1>2, <1>3 DEF Stores
<1>5. Firm \subseteq Firm' /\ DocLines' = DocLines
  BY <1>1, DiskStays
<1>6. Calm(Firm, st, flush[s]) /\ Kept(Firm, st)
  BY CalmIs DEF st
<1>7. Kept(Firm, new) /\ TreeLines(st.tree) \subseteq TreeLines(tree)
  BY <1>2, <1>4, <1>6, GrownKept DEF st
<1>8. Calm(Firm, new, flush[s])
  BY <1>4, <1>6, <1>7 DEF Calm, Pending, st
<1>9. Calm(Firm', new, flush[s])
  BY <1>5, <1>8, CalmGrows
<1> QED BY <1>1, <1>4, <1>5, <1>7, <1>9, LossStep DEF st

LEMMA NoteLoses ==
    ASSUME Inv, LossInv, NEW s \in Sessions, NEW p \in Places(store[s].tree), Note(s, p)
    PROVE  LossInv'
<1> DEFINE st == store[s]
           tree == [st.tree EXCEPT ![p[1]].kids[p[2]].ev = @ \cup {ink + 1}]
<1>1. st \in Stores /\ ink \in Nat /\ ink + 1 \in Nat /\ ink' = ink + 1
  <2>1. st \in Stores /\ ink \in Nat
    BY Same
  <2>2. ink' = ink + 1
    BY DEF Note
  <2> QED BY <2>1, <2>2
<1>2. [st EXCEPT !.tree[p[1]].kids[p[2]].ev = @ \cup {ink + 1}] = [st EXCEPT !.tree = tree] /\ Grown(st.tree, tree)
  BY <1>1, NoteGrows
<1>3. Work(s, "note", [st EXCEPT !.tree[p[1]].kids[p[2]].ev = @ \cup {ink + 1}])
  BY DEF Note
<1>4. p[1] \in DOMAIN st.tree /\ p[2] \in DOMAIN st.tree[p[1]].kids
  BY DEF Places
<1>5. st.up
  <2>1. st.tree # <<>>
    BY <1>4
  <2> QED BY <2>1 DEF LossInv, Calm
<1>6. ink + 1 \in TreeLines(tree)
  <2>1. /\ p[1] \in DOMAIN tree /\ p[2] \in DOMAIN tree[p[1]].kids
        /\ tree[p[1]].kids[p[2]].ev = st.tree[p[1]].kids[p[2]].ev \cup {ink + 1}
    <3> DEFINE r == st.tree[p[1]]  q == r.kids[p[2]]
    <3>1. st.tree \in Seq(Roots)
      BY <1>1 DEF Stores
    <3>2. r \in Roots
      BY <1>4, <3>1
    <3>3. q \in Nodes
      BY <1>4, <3>2 DEF Roots
    <3>4. tree = [st.tree EXCEPT ![p[1]] = [r EXCEPT !.kids = [r.kids EXCEPT ![p[2]] = [q EXCEPT !.ev = q.ev \cup {ink + 1}]]]]
      OBVIOUS
    <3>5. tree[p[1]] = [r EXCEPT !.kids = [r.kids EXCEPT ![p[2]] = [q EXCEPT !.ev = q.ev \cup {ink + 1}]]] /\ p[1] \in DOMAIN tree
      BY <1>4, <3>4
    <3> HIDE DEF r
    <3>6. tree[p[1]].kids = [r.kids EXCEPT ![p[2]] = [q EXCEPT !.ev = q.ev \cup {ink + 1}]]
      BY <3>2, <3>5 DEF Roots
    <3> HIDE DEF q
    <3>7. [q EXCEPT !.ev = q.ev \cup {ink + 1}].ev = q.ev \cup {ink + 1}
      BY <3>3 DEF Nodes
    <3> QED BY <1>4, <3>5, <3>6, <3>7 DEF q, r
  <2> HIDE DEF tree
  <2>2. ink + 1 \in EvOf(tree[p[1]].kids)
    BY <2>1 DEF EvOf
  <2> QED BY <2>1, <2>2 DEF TreeLines
<1>7. Ink' \subseteq Ink \cup {ink + 1}
  BY <1>1 DEF Ink
<1> HIDE DEF tree
<1>8. Work(s, "note", [st EXCEPT !.tree = tree])
  BY <1>2, <1>3
<1>9. Grown(store[s].tree, tree) /\ store[s].up /\ Work(s, "note", [store[s] EXCEPT !.tree = tree])
      /\ Ink' \subseteq Ink \cup TreeLines(tree)
  BY <1>2, <1>5, <1>6, <1>7, <1>8
<1> HIDE DEF st
<1> QED BY <1>9, WorkLoses

LEMMA WorkingLoses ==
    ASSUME Inv, LossInv, NEW s \in Sessions, Working(s)
    PROVE  LossInv'
<1>1. ASSUME NEW p \in Places(store[s].tree), NEW st \in {"doing", "done"}, SetStatus(s, p, st) PROVE LossInv'
  <2> DEFINE old == store[s].tree
             back == IF st = "doing" THEN TakeBack(old) ELSE old
             tree == SetMark(back, p, st)
  <2>1. old \in Seq(Roots) /\ st \in Statuses
    BY Same DEF Stores, Statuses
  <2>2. Alike(old, back) /\ back \in Seq(Roots)
    <3>1. Alike(old, old)
      BY <2>1 DEF Alike
    <3> QED BY <2>1, <3>1, TakeBackIs DEF Alike
  <2>3. Alike(back, tree)
    BY <2>1, <2>2, SetMarkIs
  <2>4. Work(s, "status", [store[s] EXCEPT !.tree = tree]) /\ ink' = ink
    BY <1>1 DEF SetStatus
  <2>5. store[s].up
    <3>1. store[s].tree # <<>>
      BY DEF Places
    <3> QED BY <3>1 DEF LossInv, Calm
  <2>6. Ink' = Ink
    BY <2>4 DEF Ink
  <2> HIDE DEF old, back, tree
  <2>7. Grown(old, tree)
    BY <2>1, <2>2, <2>3, AlikeTwice, AlikeGrown
  <2> QED BY <2>4, <2>5, <2>6, <2>7, WorkLoses DEF old
<1>2. ASSUME NEW i \in DOMAIN store[s].tree, NEW text \in Texts, Add(s, i, text) PROVE LossInv'
  <2> DEFINE tree == [store[s].tree EXCEPT ![i].kids = Append(@, [id |-> NextIndex(@), text |-> text, st |-> "todo", ev |-> {}])]
             new == [store[s] EXCEPT !.tree[i].kids = Append(@, [id |-> NextIndex(@), text |-> text, st |-> "todo", ev |-> {}])]
  <2>1. store[s] \in Stores /\ ink' = ink
    BY <1>2, Same DEF Add
  <2>2. new = [store[s] EXCEPT !.tree = tree] /\ Grown(store[s].tree, tree)
    BY <2>1, AddGrows
  <2>3. Work(s, "add", new)
    BY <1>2 DEF Add
  <2>4. store[s].up
    <3>1. store[s].tree # <<>>
      OBVIOUS
    <3> QED BY <3>1 DEF LossInv, Calm
  <2>5. Ink' = Ink
    BY <2>1 DEF Ink
  <2> HIDE DEF new, tree
  <2>6. Work(s, "add", [store[s] EXCEPT !.tree = tree])
    BY <2>2, <2>3
  <2> QED BY <2>2, <2>4, <2>5, <2>6, WorkLoses
<1>3. ASSUME NEW text \in Texts, NEW step \in Texts, Plan(s, text, step) PROVE LossInv'
  <2> DEFINE old == store[s].tree
             r == [file |-> NoFile, id |-> NextIndex(old), text |-> text,
                   kids |-> <<[id |-> 1, text |-> step, st |-> "todo", ev |-> {}]>>]
             tree == Append(TakeBack(old), r)
  <2>1. old \in Seq(Roots) /\ ink' = ink /\ store[s].up
    BY <1>3, Same DEF Stores, Plan
  <2>2. r \in Roots /\ r.file = NoFile
    BY <2>1, PlannedIs
  <2>3. Work(s, "plan", [store[s] EXCEPT !.tree = tree])
    BY <1>3 DEF Plan
  <2>4. Ink' = Ink
    BY <2>1 DEF Ink
  <2> HIDE DEF r, old
  <2>5. Grown(old, tree)
    BY <2>1, <2>2, PlanGrows
  <2> QED BY <2>1, <2>3, <2>4, <2>5, WorkLoses DEF old
<1> QED BY <1>1, <1>2, <1>3, NoteLoses DEF Working

LEMMA ReadingLoses ==
    ASSUME Inv, LossInv, NEW s \in Sessions, NEW pc \in Phases \ Writing, Reading(s, pc)
    PROVE  LossInv'
<1> DEFINE fl == [NoFlush EXCEPT !.pc = pc, !.got = disk]
<1>1. /\ flush' = [flush EXCEPT ![s] = fl] /\ store' = [store EXCEPT ![s] = store[s]]
      /\ disk' = disk /\ asides' = asides /\ gone' = gone /\ bound' = bound /\ ink' = ink
  BY Same DEF Reading, tally, history
<1>2. Firm \subseteq Firm' /\ DocLines' = DocLines
  BY <1>1, DiskStays
<1>3. fl.pc = pc /\ fl.got = disk
  <2> DEFINE n == NoFlush  new == [n EXCEPT !.pc = pc, !.got = disk]
  <2>1. n \in Fresh("idle", [f \in Files |-> NoDoc], <<>>, <<>>, None)
    BY NoFlushIs
  <2> HIDE DEF n
  <2>2. new.pc = pc /\ new.got = disk
    BY <2>1 DEF Fresh
  <2> QED BY <2>2 DEF n
<1> HIDE DEF fl
<1>4. Calm(Firm, store[s], fl)
  BY <1>3, CalmIs, DiskFirm, QuietCalm DEF Calm
<1>5. Calm(Firm', store[s], fl)
  BY <1>2, <1>4, CalmGrows
<1>6. Ink' = Ink
  BY <1>1 DEF Ink
<1> QED BY <1>1, <1>2, <1>5, <1>6, LossStep

LEMMA MergingLoses ==
    ASSUME Inv, LossInv, NEW s \in Sessions, NEW pc \in Phases \ Writing, store[s].up, Merging(s, pc)
    PROVE  LossInv'
<1> DEFINE st == Reconcile(store[s], flush[s].got)
           fl == [NoFlush EXCEPT !.pc = pc]
<1>1. /\ flush' = [flush EXCEPT ![s] = fl] /\ store' = [store EXCEPT ![s] = st]
      /\ disk' = disk /\ asides' = asides /\ gone' = gone /\ bound' = bound /\ ink' = ink
  BY DEF Merging, tally, history
<1>2. Firm \subseteq Firm' /\ DocLines' = DocLines
  BY <1>1, DiskStays
<1>3. flush[s].got \in [Files -> Contents] /\ Good(store[s]) /\ Kept(Firm, store[s])
      /\ \A f \in Files : Lead(flush[s].got[f]) \subseteq Firm
  BY Same, CalmIs DEF IsFlush, Calm
<1>4. st.up /\ Kept(Firm, st) /\ TreeLines(store[s].tree) \subseteq Firm \cup TreeLines(st.tree)
  <2>1. Kept(Firm, st) /\ TreeLines(store[s].tree) \subseteq Firm \cup TreeLines(st.tree)
    BY <1>3, ReconcileKept
  <2>2. Keeps(store[s], st)
    BY <1>3, ReconcileIsGood
  <2> HIDE DEF st
  <2> QED BY <2>1, <2>2 DEF Keeps
<1> HIDE DEF st
<1>5. fl.pc = pc /\ \A f \in Files : Lead(fl.got[f]) = {}
  BY NoGot
<1> HIDE DEF fl
<1>6. Calm(Firm, st, fl)
  BY <1>4, <1>5, QuietCalm
<1>7. Calm(Firm', st, fl)
  BY <1>2, <1>6, CalmGrows
<1>8. Ink' = Ink
  BY <1>1 DEF Ink
<1> QED BY <1>1, <1>2, <1>4, <1>7, <1>8, LossStep

LEMMA FlushRenderLoses ==
    ASSUME Inv, LossInv, NEW s \in Sessions, FlushRender(s)
    PROVE  LossInv'
<1> DEFINE st == store[s]
           names == DocNames(st)
           differs == {i \in DOMAIN names : st.seen[names[i]].doc # Render(st.tree[i])}
           split == {i \in DOMAIN names : st.tree[i].file \notin {NoFile, names[i]}}
           order == InOrder(differs \cap split, Len(names)) \o InOrder(differs \ split, Len(names))
           writes == [k \in DOMAIN order |-> [file |-> names[order[k]], task |-> Task(st.tree[order[k]])]]
           pc == IF writes = <<>> THEN "save" ELSE "look"
           active == IF Doing(st.tree) = <<>> THEN None ELSE IdAt(st.tree, Doing(st.tree))
           new == [st EXCEPT !.moved = FALSE]
           fl == [NoFlush EXCEPT !.pc = pc, !.names = names, !.writes = writes, !.active = active]
<1>1. /\ ToSet(names) \subseteq Files
      /\ store' = [store EXCEPT ![s].moved = FALSE]
      /\ flush' = [flush EXCEPT ![s] = fl]
  BY DEF FlushRender
<1>2. st.up /\ disk' = disk /\ asides' = asides /\ gone' = gone /\ bound' = bound /\ ink' = ink
  BY DEF FlushRender, Holds, tally, history
<1>3. Good(st) /\ Kept(Firm, st)
  BY Same, CalmIs
<1>4. \A any : any.writes = writes /\ any.written = {} => Pending(Firm, st, any)
  BY <1>1, <1>3, RenderPending
<1>5. store' = [store EXCEPT ![s] = new]
  BY <1>1
<1>6. fl.writes = writes /\ fl.written = {} /\ fl.got = [f \in Files |-> NoDoc]
  <2> HIDE DEF pc, names, writes, active
  <2>1. fl \in Fresh(pc, [f \in Files |-> NoDoc], names, writes, active)
    BY SnapshotIs
  <2> HIDE DEF fl
  <2> QED BY <2>1 DEF Fresh
<1> HIDE DEF fl, writes
<1>7. Pending(Firm, st, fl)
  BY <1>4, <1>6
<1>8. st \in Stores
  BY <1>3 DEF Good
<1> HIDE DEF st
<1>9. new.tree = st.tree /\ new.seen = st.seen /\ new.reserved = st.reserved /\ new.up = st.up
  BY <1>8 DEF Stores
<1> HIDE DEF new
<1>10. Kept(Firm, new) /\ Pending(Firm, new, fl)
  BY <1>3, <1>7, <1>9 DEF Kept, Pending
<1>11. Lead(NoDoc) = {}
  BY UnseenIs DEF Unseen
<1>12. \A f \in Files : Lead(fl.got[f]) = {}
  BY <1>6, <1>11
<1>13. Calm(Firm, new, fl)
  BY <1>2, <1>9, <1>10, <1>12 DEF Calm
<1>14. Firm \subseteq Firm' /\ DocLines' = DocLines
  BY <1>2, DiskStays
<1>15. Calm(Firm', new, fl)
  BY <1>13, <1>14, CalmGrows
<1>16. Ink' = Ink
  BY <1>2 DEF Ink
<1>17. flush' = [flush EXCEPT ![s] = fl]
  BY <1>1
<1>18. TreeLines(store[s].tree) = TreeLines(new.tree)
  BY <1>9 DEF st
<1> QED BY <1>2, <1>5, <1>14, <1>15, <1>16, <1>17, <1>18, LossStep

LEMMA LookLoses ==
    ASSUME Inv, LossInv, NEW s \in Sessions, Look(s)
    PROVE  LossInv'
<1> DEFINE fl == flush[s]
           new == [fl EXCEPT !.pc = "put", !.cur = disk[Head(fl.writes).file]]
<1>1. /\ fl.pc = "look" /\ flush' = [flush EXCEPT ![s] = new] /\ store' = [store EXCEPT ![s] = store[s]]
      /\ disk' = disk /\ asides' = asides /\ gone' = gone /\ bound' = bound /\ ink' = ink
  BY Same DEF Look, Holds, tally, history
<1>2. IsFlush(fl) /\ Calm(Firm, store[s], fl)
  BY Same, CalmIs
<1> HIDE DEF fl
<1>3. new.writes = fl.writes /\ new.written = fl.written /\ new.got = fl.got
  BY <1>2 DEF IsFlush
<1> HIDE DEF new
<1>4. Calm(Firm, store[s], new)
  BY <1>1, <1>2, <1>3 DEF Calm, Pending, Writing
<1>5. Firm \subseteq Firm' /\ DocLines' = DocLines
  BY <1>1, DiskStays
<1>6. Calm(Firm', store[s], new)
  BY <1>4, <1>5, CalmGrows
<1>7. Ink' = Ink
  BY <1>1 DEF Ink
<1> QED BY <1>1, <1>5, <1>6, <1>7, LossStep

\* What is replaced is firm: it is what the store has seen there, set aside, or
\* was saved after the look.
LEMMA PutLoses ==
    ASSUME Inv, LossInv, NEW s \in Sessions, Put(s)
    PROVE  LossInv'
<1> DEFINE fl == flush[s]
           w == Head(fl.writes)
           rest == Tail(fl.writes)
           old == disk[w.file]
           body == Doc(<<w.task>>)
           pc == IF rest = <<>> THEN "save" ELSE "look"
           new == [fl EXCEPT !.writes = rest, !.cur = NoDoc, !.written = @ \cup {w}, !.pc = pc]
<1>1. fl.pc = "put" /\ store' = [store EXCEPT ![s] = store[s]] /\ bound' = bound /\ ink' = ink
  BY Same DEF Put, Holds, tally
<1>2. disk' = [disk EXCEPT ![w.file] = body] /\ flush' = [flush EXCEPT ![s] = new]
  BY DEF Put
<1>3. /\ asides' = asides \cup (IF Unknown(s, w, fl.cur) THEN {fl.cur} ELSE {})
      /\ gone' = gone \cup (IF old = fl.cur THEN {} ELSE Lines(old) \ Lines(body))
  BY DEF Put, Aside
<1>4. IsFlush(fl) /\ fl.writes # <<>> /\ disk \in [Files -> Contents] /\ Calm(Firm, store[s], fl) /\ Pending(Firm, store[s], fl)
  <2>1. IsFlush(fl) /\ Flushes(store[s], fl) /\ disk \in [Files -> Contents] /\ Calm(Firm, store[s], fl)
    BY Same, CalmIs
  <2> HIDE DEF fl
  <2> QED BY <1>1, <2>1 DEF Flushes, Calm, Writing
<1>5. (old = fl.cur /\ ~Unknown(s, w, fl.cur)) => old \in {NoDoc, store[s].seen[w.file].doc, body}
  BY DEF Unknown
<1> HIDE DEF fl
<1>6. fl.writes \in Seq(Writes) /\ w \in Writes /\ w = fl.writes[1] /\ Len(fl.writes) \in Nat /\ 1 \in 1 .. Len(fl.writes)
  <2>1. fl.writes \in Seq(Writes)
    BY <1>4 DEF IsFlush
  <2> QED BY <1>4, <2>1
<1>7. w.file \in Files /\ w.task \in Tasks
  BY <1>6 DEF Writes
<1>8. /\ Lead(store[s].seen[w.file].doc) \subseteq EvOf(w.task.kids)
      /\ More(store[s].seen[w.file].doc) \subseteq Firm
  <2>1. Written(fl.writes, 1 - 1) = {}
    BY <1>6 DEF Written
  <2> QED BY <1>4, <1>6, <2>1 DEF Pending
<1> HIDE DEF w, rest, old
<1>9. Lead(body) = EvOf(w.task.kids) /\ Lines(body) = EvOf(w.task.kids)
  BY <1>7, OneTask
<1> HIDE DEF body
<1>10. disk'[w.file] = body /\ \A f \in Files \ {w.file} : disk'[f] = disk[f]
  BY <1>2, <1>4, <1>7
<1>11. EvOf(w.task.kids) \subseteq Firm'
  BY <1>7, <1>9, <1>10 DEF Firm
<1>12. Lead(old) \subseteq Firm' /\ Lines(old) \subseteq Firm \cup Firm' /\ Lead(old) \subseteq Lines(old)
  <2>1. Lead(old) \subseteq Lines(old) /\ Lines(old) = Lead(old) \cup More(old)
    BY <1>4, <1>7, LeadAndMore DEF old
  <2>2. CASE old # fl.cur
    <3>1. Lines(old) \ EvOf(w.task.kids) \subseteq Firm'
      BY <1>3, <1>9, <2>2 DEF Firm
    <3> QED BY <1>11, <2>1, <3>1
  <2>3. CASE old = fl.cur /\ Unknown(s, w, fl.cur)
    <3>1. old \in asides'
      BY <1>3, <2>3
    <3>2. Lines(old) \subseteq Firm'
      BY <3>1 DEF Firm
    <3> QED BY <2>1, <3>2
  <2>4. CASE old = NoDoc
    <3>1. NoDoc \in Contents /\ ~Shown(NoDoc)
      BY DEF Contents, Shown, NoDoc
    <3> QED BY <2>4, <3>1, NotShown
  <2>5. CASE old = body
    BY <1>9, <1>11, <2>1, <2>5
  <2>6. CASE old = store[s].seen[w.file].doc
    BY <1>8, <1>11, <2>1, <2>6
  <2> QED BY <1>5, <2>2, <2>3, <2>4, <2>5, <2>6
<1>13. Firm \subseteq Firm'
  <2> SUFFICES ASSUME NEW l \in Firm PROVE l \in Firm'
    OBVIOUS
  <2>1. CASE l \in gone
    BY <1>3, <2>1 DEF Firm
  <2>2. ASSUME NEW c \in asides, l \in Lines(c) PROVE l \in Firm'
    BY <1>3, <2>2 DEF Firm
  <2>3. ASSUME NEW f \in Files, l \in Lead(disk[f]) PROVE l \in Firm'
    <3>1. CASE f = w.file
      BY <1>12, <2>3, <3>1 DEF old
    <3>2. CASE f # w.file
      BY <1>10, <2>3, <3>2 DEF Firm
    <3> QED BY <3>1, <3>2
  <2> QED BY <2>1, <2>2, <2>3 DEF Firm
<1>14. DocLines \subseteq Firm' \cup DocLines'
  <2> SUFFICES ASSUME NEW f \in Files, NEW l \in Lines(disk[f]) PROVE l \in Firm' \cup DocLines'
    BY DEF DocLines
  <2>1. CASE f = w.file
    BY <1>12, <1>13, <2>1 DEF old
  <2>2. CASE f # w.file
    BY <1>10, <2>2 DEF DocLines
  <2> QED BY <2>1, <2>2
<1>15. new.writes = rest /\ new.written = fl.written \cup {w} /\ new.got = fl.got
  <2> HIDE DEF pc
  <2> QED BY <1>4 DEF IsFlush
<1> HIDE DEF new
<1>16. Calm(Firm', store[s], fl) /\ Pending(Firm', store[s], fl)
  BY <1>4, <1>13, CalmGrows, PendingGrows
<1>17. Pending(Firm', store[s], new)
  BY <1>4, <1>11, <1>15, <1>16, PutPending DEF w, rest
<1>18. Calm(Firm', store[s], new)
  BY <1>15, <1>16, <1>17 DEF Calm
<1>19. Ink' = Ink
  BY <1>1 DEF Ink
<1> QED BY <1>1, <1>2, <1>13, <1>14, <1>18, <1>19, LossStep

LEMMA FlushEndLoses ==
    ASSUME Inv, LossInv, NEW s \in Sessions, FlushEnd(s)
    PROVE  LossInv'
<1> DEFINE st == store[s]  fl == flush[s]  mid == Remember(st, fl.written)
           new == Clean([mid EXCEPT !.tree = Titled(st, fl.names)])
           code == Clean([mid EXCEPT !.tree = [i \in DOMAIN @ |->
                       IF i \in DOMAIN fl.names THEN [@[i] EXCEPT !.file = fl.names[i]] ELSE @[i]]])
<1>1. /\ store' = [store EXCEPT ![s] = code] /\ flush' = [flush EXCEPT ![s] = NoFlush]
      /\ disk' = disk /\ asides' = asides /\ gone' = gone /\ bound' = bound /\ ink' = ink
      /\ fl.pc = "save" /\ st.up
  BY DEF FlushEnd, Holds, tally, history
<1>2. Good(st) /\ IsFlush(fl) /\ NamesOf(st, fl) /\ WritesOf(st, fl) /\ fl.writes = <<>> /\ Calm(Firm, st, fl)
  BY <1>1, Same, CalmIs DEF Flushes, Writing
<1>3. mid.tree = st.tree
  BY <1>2, RememberIs DEF Good, IsFlush
<1> HIDE DEF st, fl, mid
<1>4. code = new
  BY <1>3 DEF Titled
<1>5. Kept(Firm, new) /\ TreeLines(new.tree) = TreeLines(st.tree) /\ new.up = st.up
  <2>1. Kept(Firm, st) /\ Pending(Firm, st, fl)
    BY <1>1, <1>2 DEF Calm, Writing
  <2> QED BY <1>2, <2>1, EndKept DEF mid
<1> HIDE DEF new, code
<1>6. Calm(Firm, new, NoFlush)
  <2>1. NoFlush.pc = "idle" /\ \A f \in Files : Lead(NoFlush.got[f]) = {}
    BY UnseenIs DEF NoFlush, Unseen
  <2> QED BY <1>1, <1>5, <2>1, QuietCalm DEF Writing
<1>7. Firm \subseteq Firm' /\ DocLines' = DocLines
  BY <1>1, DiskStays
<1>8. Calm(Firm', new, NoFlush)
  BY <1>6, <1>7, CalmGrows
<1>9. Ink' = Ink
  BY <1>1 DEF Ink
<1> QED BY <1>1, <1>4, <1>5, <1>7, <1>8, <1>9, LossStep DEF st

-----------------------------------------------------------------------------
(* No line is lost: the person's edits, and the theorem *)

\* An edit: what it takes from the document is gone, what it adds is in it.
LEMMA EditLoses ==
    ASSUME Inv, LossInv, NEW kind, NEW f \in Files, NEW c, Save(kind, f, c), gone \subseteq gone',
           Lead(disk[f]) \subseteq gone' \cup Lead(c), Lines(disk[f]) \subseteq gone' \cup Lines(c),
           Ink' \subseteq Ink \cup Lines(c)
    PROVE  LossInv'
<1>1. /\ store' = store /\ flush' = flush /\ asides' = asides /\ bound' = bound
      /\ disk' = [disk EXCEPT ![f] = c] /\ disk \in [Files -> Contents]
  BY DEF Save, Inv
<1>2. disk'[f] = c /\ \A g \in Files \ {f} : disk'[g] = disk[g]
  BY <1>1
<1>3. Firm \subseteq Firm'
  <2> SUFFICES ASSUME NEW l \in Firm PROVE l \in Firm'
    OBVIOUS
  <2>1. CASE l \in gone
    BY <2>1 DEF Firm
  <2>2. ASSUME NEW x \in asides, l \in Lines(x) PROVE l \in Firm'
    BY <1>1, <2>2 DEF Firm
  <2>3. ASSUME NEW g \in Files, l \in Lead(disk[g]) PROVE l \in Firm'
    <3>1. CASE g = f
      <4>1. l \in gone' \/ l \in Lead(disk'[f])
        BY <1>2, <2>3, <3>1
      <4> QED BY <4>1 DEF Firm
    <3>2. CASE g # f
      BY <1>2, <2>3, <3>2 DEF Firm
    <3> QED BY <3>1, <3>2
  <2> QED BY <2>1, <2>2, <2>3 DEF Firm
<1>4. DocLines \subseteq Firm' \cup DocLines'
  <2> SUFFICES ASSUME NEW g \in Files, NEW l \in Lines(disk[g]) PROVE l \in Firm' \cup DocLines'
    BY DEF DocLines
  <2>1. CASE g = f
    <3>1. l \in gone' \/ l \in Lines(disk'[f])
      BY <1>2, <2>1
    <3> QED BY <3>1 DEF Firm, DocLines
  <2>2. CASE g # f
    BY <1>2, <2>2 DEF DocLines
  <2> QED BY <2>1, <2>2
<1>5. Lines(c) \subseteq DocLines'
  BY <1>2 DEF DocLines
<1>6. ASSUME NEW s \in Sessions PROVE Calm(Firm', store'[s], flush'[s])
  BY <1>1, <1>3, CalmGrows DEF LossInv
<1>7. Ink' \subseteq Firm' \cup DocLines' \cup (UNION {TreeLines(store'[s].tree) : s \in Sessions})
  <2>1. Ink \subseteq Firm \cup DocLines \cup (UNION {TreeLines(store'[s].tree) : s \in Sessions})
    BY <1>1 DEF LossInv, Covered
  <2> QED BY <1>3, <1>4, <1>5, <2>1
<1> QED BY <1>1, <1>6, <1>7 DEF LossInv, Covered

LEMMA WithKidsLines ==
    ASSUME Inv, NEW f \in Files, disk[f].is = "tasks", NEW i \in DOMAIN disk[f].roots,
           NEW kids \in Seq(Nodes), NEW G, EvOf(Kids(f, i)) \subseteq G \cup EvOf(kids)
    PROVE  LET new == WithKids(f, i, kids) IN
           /\ Lead(disk[f]) \subseteq G \cup Lead(new) /\ Lines(disk[f]) \subseteq G \cup Lines(new)
           /\ EvOf(kids) \subseteq Lines(new)
<1> DEFINE c == disk[f]  t == c.roots[i]  roots == [c.roots EXCEPT ![i] = [t EXCEPT !.kids = kids]]
           new == WithKids(f, i, kids)
<1>1. c \in [is : {"tasks"}, roots : Seq(Tasks)]
  BY HasTasks DEF Inv
<1>2. new = [c EXCEPT !.roots = roots] /\ i \in DOMAIN c.roots /\ EvOf(t.kids) \subseteq G \cup EvOf(kids)
  BY DEF WithKids, Kids
<1> HIDE DEF c, new
<1>3. c.roots \in Seq(Tasks) /\ t \in Tasks /\ DOMAIN c.roots = 1 .. Len(c.roots) /\ Len(c.roots) \in Nat
  BY <1>1, <1>2
<1> HIDE DEF t
<1>4. [t EXCEPT !.kids = kids].kids = kids
  BY <1>3 DEF Tasks
<1>5. /\ DOMAIN roots = DOMAIN c.roots /\ roots[i].kids = kids
      /\ \A j \in DOMAIN c.roots : j # i => roots[j] = c.roots[j]
  BY <1>2, <1>3, <1>4
<1> HIDE DEF roots
<1>6. new = Doc(roots) /\ new.roots = roots
  BY <1>1, <1>2 DEF Doc
<1>7. ASSUME NEW j \in DOMAIN c.roots PROVE EvOf(c.roots[j].kids) \subseteq G \cup EvOf(roots[j].kids)
  <2>1. CASE j = i
    BY <1>2, <1>5, <2>1 DEF t
  <2>2. CASE j # i
    BY <1>5, <2>2
  <2> QED BY <2>1, <2>2
<1>8. Lines(c) \subseteq G \cup Lines(new)
  <2> SUFFICES ASSUME NEW j \in DOMAIN c.roots, NEW l \in EvOf(c.roots[j].kids) PROVE l \in G \cup Lines(new)
    BY DEF Lines
  <2> QED BY <1>5, <1>6, <1>7 DEF Lines
<1>9. Shown(new) /\ 1 \in DOMAIN c.roots
  <2>1. roots # <<>>
    BY <1>2, <1>5
  <2> QED BY <1>2, <1>3, <1>6, <2>1 DEF Shown, Doc, Bare
<1>10. Lead(c) \subseteq G \cup Lead(new)
  BY <1>6, <1>7, <1>9 DEF Lead
<1>11. EvOf(kids) \subseteq Lines(new)
  BY <1>2, <1>5, <1>6 DEF Lines
<1> QED BY <1>8, <1>10, <1>11 DEF c, new

\* What an edit of a step does to the lines of its task.
LEMMA StepLines ==
    ASSUME NEW kids \in Seq(Nodes)
    PROVE  /\ \A k \in DOMAIN kids : \A st \in Statuses : EvOf(kids) \subseteq EvOf([kids EXCEPT ![k].st = st])
           /\ \A k \in DOMAIN kids : \A l \in Nat : EvOf(kids) \cup {l} \subseteq EvOf([kids EXCEPT ![k].ev = @ \cup {l}])
           /\ \A k \in DOMAIN kids : \A l : EvOf(kids) \subseteq {l} \cup EvOf([kids EXCEPT ![k].ev = @ \ {l}])
           /\ \A n : EvOf(kids) \subseteq EvOf(Append(kids, n))
           /\ \A k \in DOMAIN kids : EvOf(kids) \subseteq kids[k].ev \cup EvOf(RemoveAt(kids, k))
<1>1. ASSUME NEW k \in DOMAIN kids, NEW n, NEW G, kids[k].ev \subseteq G \cup n.ev
      PROVE  EvOf(kids) \subseteq G \cup EvOf([kids EXCEPT ![k] = n]) /\ n.ev \subseteq EvOf([kids EXCEPT ![k] = n])
  <2> DEFINE new == [kids EXCEPT ![k] = n]
  <2>1. DOMAIN new = DOMAIN kids /\ new[k] = n /\ \A j \in DOMAIN kids : j # k => new[j] = kids[j]
    OBVIOUS
  <2> HIDE DEF new
  <2>2. n.ev \subseteq EvOf(new)
    BY <2>1 DEF EvOf
  <2>3. ASSUME NEW j \in DOMAIN kids, NEW l \in kids[j].ev PROVE l \in G \cup EvOf(new)
    <3>1. CASE j = k
      BY <1>1, <2>2, <2>3, <3>1
    <3>2. CASE j # k
      BY <2>1, <2>3, <3>2 DEF EvOf
    <3> QED BY <3>1, <3>2
  <2>4. EvOf(kids) \subseteq G \cup EvOf(new)
    BY <2>3 DEF EvOf
  <2> QED BY <2>2, <2>4 DEF new
<1>2. ASSUME NEW k \in DOMAIN kids, NEW st \in Statuses PROVE EvOf(kids) \subseteq EvOf([kids EXCEPT ![k].st = st])
  <2> DEFINE n == [kids[k] EXCEPT !.st = st]
  <2>1. kids[k] \in Nodes
    OBVIOUS
  <2>2. kids[k].ev \subseteq {} \cup n.ev
    BY <2>1 DEF Nodes
  <2>3. [kids EXCEPT ![k].st = st] = [kids EXCEPT ![k] = n]
    OBVIOUS
  <2> HIDE DEF n
  <2> QED BY <1>1, <2>2, <2>3
<1>3. ASSUME NEW k \in DOMAIN kids, NEW l \in Nat PROVE EvOf(kids) \cup {l} \subseteq EvOf([kids EXCEPT ![k].ev = @ \cup {l}])
  <2> DEFINE n == [kids[k] EXCEPT !.ev = @ \cup {l}]
  <2>1. kids[k] \in Nodes
    OBVIOUS
  <2>2. n.ev = kids[k].ev \cup {l}
    BY <2>1 DEF Nodes
  <2>3. [kids EXCEPT ![k].ev = @ \cup {l}] = [kids EXCEPT ![k] = n]
    OBVIOUS
  <2> HIDE DEF n
  <2>4. kids[k].ev \subseteq {} \cup n.ev /\ l \in n.ev
    BY <2>2
  <2> QED BY <1>1, <2>3, <2>4
<1>4. ASSUME NEW k \in DOMAIN kids, NEW l PROVE EvOf(kids) \subseteq {l} \cup EvOf([kids EXCEPT ![k].ev = @ \ {l}])
  <2> DEFINE n == [kids[k] EXCEPT !.ev = @ \ {l}]
  <2>1. kids[k] \in Nodes
    OBVIOUS
  <2>2. n.ev = kids[k].ev \ {l}
    BY <2>1 DEF Nodes
  <2>3. [kids EXCEPT ![k].ev = @ \ {l}] = [kids EXCEPT ![k] = n]
    OBVIOUS
  <2> HIDE DEF n
  <2>4. kids[k].ev \subseteq {l} \cup n.ev
    BY <2>2
  <2> QED BY <1>1, <2>3, <2>4
<1>5. ASSUME NEW n PROVE EvOf(kids) \subseteq EvOf(Append(kids, n))
  <2>1. Len(Append(kids, n)) = Len(kids) + 1 /\ \A k \in 1 .. Len(kids) : Append(kids, n)[k] = kids[k]
        /\ DOMAIN Append(kids, n) = 1 .. Len(kids) + 1 /\ Len(kids) \in Nat /\ DOMAIN kids = 1 .. Len(kids)
    BY AppendProperties
  <2>2. \A k \in DOMAIN kids : k \in DOMAIN Append(kids, n) /\ kids[k].ev \subseteq Append(kids, n)[k].ev
    BY <2>1
  <2> QED BY <2>2, EvOfIn
<1>6. ASSUME NEW k \in DOMAIN kids PROVE EvOf(kids) \subseteq kids[k].ev \cup EvOf(RemoveAt(kids, k))
  <2> DEFINE new == RemoveAt(kids, k)
  <2>1. \A j \in DOMAIN kids : j # k => \E i \in DOMAIN new : new[i] = kids[j]
    <3>1. /\ Len(kids) \in Nat /\ DOMAIN kids = 1 .. Len(kids) /\ DOMAIN new = 1 .. Len(kids) - 1
          /\ \A j \in 1 .. Len(kids) - 1 : new[j] = IF j < k THEN kids[j] ELSE kids[j + 1]
      <4>1. k \in 1 .. Len(kids) /\ Len(kids) \in Nat /\ DOMAIN kids = 1 .. Len(kids)
        OBVIOUS
      <4>2. new \in Seq(Nodes) /\ Len(new) = Len(kids) - 1
            /\ \A j \in 1 .. Len(kids) - 1 : new[j] = IF j < k THEN kids[j] ELSE kids[j + 1]
        BY <4>1, RemoveAtIs
      <4> HIDE DEF new
      <4> QED BY <4>1, <4>2
    <3> HIDE DEF new
    <3> SUFFICES ASSUME NEW j \in DOMAIN kids, j # k PROVE \E i \in DOMAIN new : new[i] = kids[j]
      OBVIOUS
    <3>2. CASE j < k
      BY <3>1, <3>2
    <3>3. CASE j > k
      <4>1. j - 1 \in 1 .. Len(kids) - 1 /\ ~(j - 1 < k) /\ (j - 1) + 1 = j
        BY <3>1, <3>3
      <4>2. new[j - 1] = kids[j]
        BY <3>1, <4>1
      <4> QED BY <3>1, <4>1, <4>2
    <3> QED BY <3>1, <3>2, <3>3
  <2> HIDE DEF new
  <2> QED BY <2>1 DEF EvOf, new
<1> QED BY <1>2, <1>3, <1>4, <1>5, <1>6

\* An edit of one step of the document's i-th task.
LEMMA KidsLoses ==
    ASSUME Inv, LossInv, NEW kind, NEW f \in Files, NEW i \in DOMAIN disk[f].roots, NEW kids \in Seq(Nodes),
           Save(kind, f, WithKids(f, i, kids)), gone \subseteq gone',
           EvOf(Kids(f, i)) \subseteq gone' \cup EvOf(kids), Ink' \subseteq Ink \cup EvOf(kids)
    PROVE  LossInv'
<1> DEFINE new == WithKids(f, i, kids)
<1>1. disk[f].is = "tasks"
  BY DEF Save
<1>2. /\ Lead(disk[f]) \subseteq gone' \cup Lead(new) /\ Lines(disk[f]) \subseteq gone' \cup Lines(new)
      /\ EvOf(kids) \subseteq Lines(new)
  BY <1>1, WithKidsLines
<1> HIDE DEF new
<1>3. Ink' \subseteq Ink \cup Lines(new)
  BY <1>2
<1>4. Save(kind, f, new)
  BY DEF new
<1> QED BY <1>2, <1>3, <1>4, EditLoses

LEMMA ByHandLoses ==
    ASSUME Inv, LossInv, ByHand
    PROVE  LossInv'
<1>1. PICK f \in Files :
        \/ \E i \in DOMAIN disk[f].roots :
              \/ \E k \in DOMAIN Kids(f, i) :
                    \/ \E st \in Statuses : MarkByHand(f, i, k, st)
                    \/ LineByHand(f, i, k)
                    \/ \E l \in Kids(f, i)[k].ev : CutLine(f, i, k, l)
                    \/ DropStep(f, i, k)
              \/ \E text \in Texts : StepByHand(f, i, text)
        \/ \E text \in Texts : TaskByHand(f, text)
        \/ Spoil(f)
  BY DEF ByHand
<1>2. ASSUME NEW i \in DOMAIN disk[f].roots, disk[f].is = "tasks"
      PROVE  Kids(f, i) \in Seq(Nodes)
  BY <1>2, WithKidsIs
<1>3. ASSUME NEW i \in DOMAIN disk[f].roots, NEW k \in DOMAIN Kids(f, i), NEW st \in Statuses, MarkByHand(f, i, k, st)
      PROVE  LossInv'
  <2> DEFINE kids == [Kids(f, i) EXCEPT ![k].st = st]
  <2>1. Save("mark", f, WithKids(f, i, kids)) /\ ink' = ink /\ gone' = gone
    BY <1>3 DEF MarkByHand, history
  <2>2. kids \in Seq(Nodes) /\ EvOf(Kids(f, i)) \subseteq EvOf(kids)
    BY <1>2, <2>1, StepEdits, StepLines DEF Save
  <2>3. Ink' = Ink
    BY <2>1 DEF Ink
  <2> HIDE DEF kids
  <2> QED BY <2>1, <2>2, <2>3, KidsLoses
<1>4. ASSUME NEW i \in DOMAIN disk[f].roots, NEW k \in DOMAIN Kids(f, i), LineByHand(f, i, k)
      PROVE  LossInv'
  <2> DEFINE kids == [Kids(f, i) EXCEPT ![k].ev = @ \cup {ink + 1}]
  <2>1. Save("line", f, WithKids(f, i, kids)) /\ ink' = ink + 1 /\ gone' = gone
    BY <1>4 DEF LineByHand, history
  <2>2. ink \in Nat /\ ink + 1 \in Nat
    BY InkIs
  <2>3. kids \in Seq(Nodes) /\ EvOf(Kids(f, i)) \cup {ink + 1} \subseteq EvOf(kids)
    BY <1>2, <2>1, <2>2, StepEdits, StepLines DEF Save
  <2>4. Ink' \subseteq Ink \cup {ink + 1}
    BY <2>1, <2>2 DEF Ink
  <2> HIDE DEF kids
  <2>5. Ink' \subseteq Ink \cup EvOf(kids)
    BY <2>3, <2>4
  <2> QED BY <2>1, <2>3, <2>5, KidsLoses
<1>5. ASSUME NEW i \in DOMAIN disk[f].roots, NEW k \in DOMAIN Kids(f, i), NEW l, CutLine(f, i, k, l)
      PROVE  LossInv'
  <2> DEFINE kids == [Kids(f, i) EXCEPT ![k].ev = @ \ {l}]
  <2>1. Save("cut", f, WithKids(f, i, kids)) /\ ink' = ink /\ gone' = gone \cup {l}
    BY <1>5 DEF CutLine
  <2>2. kids \in Seq(Nodes) /\ EvOf(Kids(f, i)) \subseteq {l} \cup EvOf(kids)
    BY <1>2, <2>1, StepEdits, StepLines DEF Save
  <2>3. Ink' = Ink
    BY <2>1 DEF Ink
  <2> HIDE DEF kids
  <2> QED BY <2>1, <2>2, <2>3, KidsLoses
<1>6. ASSUME NEW i \in DOMAIN disk[f].roots, NEW k \in DOMAIN Kids(f, i), DropStep(f, i, k)
      PROVE  LossInv'
  <2> DEFINE kids == RemoveAt(Kids(f, i), k)
  <2>1. Save("drop", f, WithKids(f, i, kids)) /\ ink' = ink /\ gone' = gone \cup Kids(f, i)[k].ev
    BY <1>6 DEF DropStep
  <2>2. kids \in Seq(Nodes) /\ EvOf(Kids(f, i)) \subseteq Kids(f, i)[k].ev \cup EvOf(kids)
    BY <1>2, <2>1, StepEdits, StepLines DEF Save
  <2>3. Ink' = Ink
    BY <2>1 DEF Ink
  <2> HIDE DEF kids
  <2> QED BY <2>1, <2>2, <2>3, KidsLoses
<1>7. ASSUME NEW i \in DOMAIN disk[f].roots, NEW text \in Texts, StepByHand(f, i, text)
      PROVE  LossInv'
  <2> DEFINE kids == Append(Kids(f, i), [id |-> 0, text |-> text, st |-> "todo", ev |-> {}])
  <2>1. Save("step", f, WithKids(f, i, kids)) /\ ink' = ink /\ gone' = gone
    BY <1>7 DEF StepByHand, history
  <2>2. kids \in Seq(Nodes) /\ EvOf(Kids(f, i)) \subseteq EvOf(kids)
    BY <1>2, <2>1, StepEdits, StepLines DEF Save
  <2>3. Ink' = Ink
    BY <2>1 DEF Ink
  <2> HIDE DEF kids
  <2> QED BY <2>1, <2>2, <2>3, KidsLoses
<1>8. ASSUME NEW text \in Texts, TaskByHand(f, text)
      PROVE  LossInv'
  <2> DEFINE c == disk[f]  roots == c.roots
             t == [id |-> NextIndex(roots), text |-> text, kids |-> <<>>]
             new == Append(roots, t)
  <2>1. Save("task", f, Doc(new)) /\ ink' = ink /\ gone' = gone /\ c.is = "tasks"
    BY <1>8 DEF TaskByHand, history, Save
  <2>2. c \in [is : {"tasks"}, roots : Seq(Tasks)]
    BY <2>1, HasTasks DEF Inv
  <2> HIDE DEF c, t
  <2>3. roots \in Seq(Tasks) /\ c = Doc(roots)
    BY <2>2 DEF Doc
  <2>4. /\ DOMAIN new = 1 .. Len(roots) + 1 /\ \A j \in 1 .. Len(roots) : new[j] = roots[j]
        /\ Len(roots) \in Nat /\ DOMAIN roots = 1 .. Len(roots)
    BY <2>3, AppendProperties
  <2> HIDE DEF roots, new
  <2>5. Lines(c) \subseteq Lines(Doc(new))
    BY <2>3, <2>4 DEF Lines, Doc
  <2>6. Lead(c) \subseteq Lead(Doc(new))
    <3>1. CASE ~Shown(c)
      BY <3>1 DEF Lead
    <3>2. CASE Shown(c)
      <4>1. roots # <<>>
        BY <2>3, <3>2 DEF Shown, Bare
      <4>2. 1 \in 1 .. Len(roots)
        BY <2>3, <4>1
      <4>3. new[1] = roots[1] /\ new # <<>>
        BY <2>4, <4>2
      <4>4. Shown(Doc(new))
        BY <4>3 DEF Shown, Doc, Bare
      <4> QED BY <2>3, <3>2, <4>3, <4>4 DEF Lead, Doc
    <3> QED BY <3>1, <3>2
  <2>7. Ink' = Ink
    BY <2>1 DEF Ink
  <2> QED BY <2>1, <2>5, <2>6, <2>7, EditLoses DEF c
<1>9. ASSUME Spoil(f) PROVE LossInv'
  <2>1. PICK kind, c : Save(kind, f, c)
    BY <1>9 DEF Spoil
  <2>2. gone' = gone \cup Lines(disk[f]) /\ ink' = ink
    BY <1>9 DEF Spoil
  <2>3. Lead(disk[f]) \subseteq Lines(disk[f])
    BY LeadAndMore DEF Inv
  <2>4. Ink' = Ink
    BY <2>2 DEF Ink
  <2> QED BY <2>1, <2>2, <2>3, <2>4, EditLoses
<1> QED BY <1>1, <1>3, <1>4, <1>5, <1>6, <1>7, <1>8, <1>9

LEMMA LossKept ==
    ASSUME Inv, LossInv, Next
    PROVE  LossInv'
<1>1. {"idle", "reload", "merge", "render"} \subseteq Phases \ Writing
  BY DEF Phases, Writing
<1>2. ASSUME NEW s \in Sessions, Saving(s) PROVE LossInv'
  <2>1. ~FlushFails(s)
    BY DEF LossInv, FlushFails
  <2>2. Reload(s) \/ Flush(s) => \E pc \in Phases \ Writing : Reading(s, pc)
    BY <1>1 DEF Reload, Flush
  <2>3. ReloadMerge(s) \/ FlushMerge(s) => store[s].up /\ \E pc \in Phases \ Writing : Merging(s, pc)
    BY <1>1 DEF ReloadMerge, FlushMerge, Holds
  <2> QED BY <1>2, <2>1, <2>2, <2>3, ReadingLoses, MergingLoses, FlushRenderLoses, LookLoses, PutLoses, FlushEndLoses DEF Saving
<1> QED BY <1>2, ByHandLoses, OpenAtLoses, CrashLoses, WorkingLoses DEF Next, Session

LEMMA LossBegins ==
    ASSUME NEW docs \in [Files -> Contents], NEW running, NEW texts, NEW lines,
           Begin(docs, running, texts, lines), "fail" \notin bound.may, 1 .. lines \subseteq UNION {Lines(docs[f]) : f \in Files}
    PROVE  LossInv
<1>1. /\ disk = docs /\ ink = lines
      /\ store = [s \in Sessions |-> IF s \in running \cap bound.who THEN LoadDocs(docs) ELSE NoStore]
      /\ flush = [s \in Sessions |-> NoFlush]
  BY DEF Begin
<1>2. LoadDocs(docs).up /\ Kept(Firm, LoadDocs(docs))
  BY <1>1, DiskFirm, LoadIsGood, LoadKept
<1>3. Kept(Firm, NoStore) /\ NoStore.tree = <<>>
  <2>1. NoStore.tree = <<>> /\ NoStore.seen = [f \in Files |-> Unseen]
    BY DEF NoStore
  <2> QED BY <2>1, UnseenIs DEF Kept
<1>4. NoFlush.pc = "idle" /\ \A f \in Files : Lead(NoFlush.got[f]) = {}
  BY UnseenIs DEF NoFlush, Unseen
<1>5. ASSUME NEW s \in Sessions PROVE Calm(Firm, store[s], flush[s])
  <2>1. store[s] \in {LoadDocs(docs), NoStore} /\ flush[s] = NoFlush
    BY <1>1
  <2> QED BY <1>2, <1>3, <1>4, <2>1, QuietCalm DEF Writing
<1>6. Ink \subseteq DocLines
  BY <1>1 DEF Ink, DocLines
<1> QED BY <1>1, <1>5, <1>6 DEF LossInv, Covered

LEMMA BoundStays ==
    ASSUME Next
    PROVE  bound' = bound
<1>1. ASSUME ByHand PROVE bound' = bound
  <2>1. ASSUME NEW kind, NEW f, NEW c, Save(kind, f, c) PROVE bound' = bound
    BY <2>1 DEF Save
  <2>2. ASSUME NEW f, NEW i, NEW k, NEW st, MarkByHand(f, i, k, st) PROVE bound' = bound
    BY <2>1, <2>2 DEF MarkByHand
  <2>3. ASSUME NEW f, NEW i, NEW k, LineByHand(f, i, k) PROVE bound' = bound
    BY <2>1, <2>3 DEF LineByHand
  <2>4. ASSUME NEW f, NEW i, NEW k, NEW l, CutLine(f, i, k, l) PROVE bound' = bound
    BY <2>1, <2>4 DEF CutLine
  <2>5. ASSUME NEW f, NEW i, NEW k, DropStep(f, i, k) PROVE bound' = bound
    BY <2>1, <2>5 DEF DropStep
  <2>6. ASSUME NEW f, NEW i, NEW text, StepByHand(f, i, text) PROVE bound' = bound
    BY <2>1, <2>6 DEF StepByHand
  <2>7. ASSUME NEW f, NEW text, TaskByHand(f, text) PROVE bound' = bound
    BY <2>7 DEF TaskByHand, Save
  <2>8. ASSUME NEW f, Spoil(f) PROVE bound' = bound
    BY <2>1, <2>8 DEF Spoil
  <2> QED BY <1>1, <2>2, <2>3, <2>4, <2>5, <2>6, <2>7, <2>8 DEF ByHand
<1>2. ASSUME NEW s \in Sessions, Working(s) PROVE bound' = bound
  BY <1>2 DEF Working, Note, SetStatus, Add, Plan, Work
<1>3. ASSUME NEW s \in Sessions, Saving(s) PROVE bound' = bound
  BY <1>3 DEF Saving, Reload, ReloadMerge, Flush, FlushMerge, Reading, Merging, FlushRender, Look, Put,
              FlushFails, FlushEnd, tally
<1>4. ASSUME NEW s \in Sessions, NEW resumed, OpenAt(s, resumed) PROVE bound' = bound
  BY <1>4 DEF OpenAt, tally
<1>5. ASSUME NEW s \in Sessions, Crash(s) PROVE bound' = bound
  BY <1>5 DEF Crash, tally
<1> QED BY <1>1, <1>2, <1>3, <1>4, <1>5 DEF Next, Session

\* In a run whose writes do not fail, every line of the sessions' notes and the
\* person's stays in a document, a copy or a tree, but for what NothingLost
\* excuses.
THEOREM NoLineLost == Spec => []("fail" \notin bound.may => NothingLost)
<1> DEFINE Sound == "fail" \notin bound.may
<1>1. Init => (Sound => LossInv)
  <2>1. [f \in Files |-> NoDoc] \in [Files -> Contents] /\ 1 .. 0 = {}
    BY DEF Contents
  <2> QED BY <2>1, LossBegins DEF Init
<1>2. Inv /\ (Sound => LossInv) /\ [Next]_vars => (Sound => LossInv)'
  <2> SUFFICES ASSUME Inv, Sound => LossInv, [Next]_vars, Sound' PROVE LossInv'
    OBVIOUS
  <2>1. bound' = bound
    BY BoundStays DEF vars, tally
  <2>2. LossInv
    BY <2>1
  <2>3. CASE UNCHANGED vars
    BY <2>2, <2>3 DEF LossInv, Covered, Firm, DocLines, Ink, vars, tally, history
  <2> QED BY <2>2, <2>3, LossKept
<1>3. Inv /\ LossInv => NothingLost
  <2> SUFFICES ASSUME Inv, LossInv PROVE NothingLost
    OBVIOUS
  <2> DEFINE A == UNION {Lines(c) : c \in asides}  T == UNION {TreeLines(store[s].tree) : s \in Sessions}
             L == UNION {Lead(disk[f]) : f \in Files}
  <2>1. ASSUME NEW f \in Files PROVE Lead(disk[f]) \subseteq Lines(disk[f])
    BY LeadAndMore DEF Inv
  <2>2. L \subseteq DocLines
    BY <2>1 DEF DocLines
  <2>3. Ink \subseteq Firm \cup DocLines \cup T /\ Firm = gone \cup A \cup L
    BY DEF LossInv, Covered, Firm
  <2>4. NothingLost <=> Ink \subseteq gone \cup DocLines \cup A \cup T
    BY DEF NothingLost, DocLines
  <2> HIDE DEF A, T, L
  <2> QED BY <2>2, <2>3, <2>4
<1> QED BY <1>1, <1>2, <1>3, RecordTypes, PTL DEF Spec
=============================================================================
