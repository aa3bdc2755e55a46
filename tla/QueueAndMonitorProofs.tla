----------------------- MODULE QueueAndMonitorProofs -----------------------
(***************************************************************************)
(* Proofs about the two primitives that goroutines share, internal/queue   *)
(* and internal/lock, each on its own:                                     *)
(*   - WorkQueue, for any keys, workers, delays and retries: the list      *)
(*     stays in order, no key is handled twice at once, the last wish      *)
(*     wins, and no wake-up is lost;                                       *)
(*   - MonitorVariable, for any readers and any number of calls of Set:    *)
(*     the channel of a subscription is closed exactly when there is news, *)
(*     and no waiting reader misses a value.                               *)
(***************************************************************************)
EXTENDS WorkQueue, MonitorVariable, SequenceTheorems, WellFoundedInduction, TLAPS

-----------------------------------------------------------------------------
(* Sequences. *)

LEMMA InsertAtIs ==
    ASSUME NEW S, NEW s \in Seq(S), NEW p \in 1..(Len(s) + 1), NEW e \in S
    PROVE  /\ InsertAt(s, p, e) \in Seq(S)
           /\ Len(InsertAt(s, p, e)) = Len(s) + 1
           /\ \A j \in 1..(Len(s) + 1) :
                 InsertAt(s, p, e)[j] = IF j < p THEN s[j] ELSE IF j = p THEN e ELSE s[j - 1]
<1> DEFINE n == Len(s)
           u == SubSeq(s, 1, p - 1)
           m == <<e>>
           v == SubSeq(s, p, n)
           um == u \o m
           t == um \o v
<1>1. n \in Nat /\ p \in Nat /\ 1 <= p /\ p <= n + 1 /\ \A i \in 1..n : s[i] \in S
  BY ElementOfSeq, LenProperties
<1>2. /\ u \in Seq(S) /\ Len(u) = p - 1
      /\ \A j \in 1..(p - 1) : u[j] = s[j]
  <2>1. \A i \in 1..(p - 1) : s[i] \in S
    BY <1>1
  <2> QED
    BY <1>1, <2>1, SubSeqProperties
<1>3. /\ v \in Seq(S) /\ Len(v) = n - p + 1
      /\ \A j \in 1..(n - p + 1) : v[j] = s[p + j - 1]
  <2>1. \A i \in p..n : s[i] \in S
    BY <1>1
  <2>2. p \in Int /\ n \in Int
    BY <1>1
  <2> HIDE DEF n
  <2>3. /\ v \in Seq(S) /\ Len(v) = IF p <= n THEN n - p + 1 ELSE 0
        /\ \A j \in 1..(n - p + 1) : v[j] = s[p + j - 1]
    BY <2>1, <2>2, SubSeqProperties
  <2> QED
    BY <1>1, <2>3
<1>4. m \in Seq(S) /\ Len(m) = 1 /\ m[1] = e
  OBVIOUS
<1> HIDE DEF u, v, m, n
<1>5. /\ um \in Seq(S) /\ Len(um) = p
      /\ \A j \in 1..p : um[j] = IF j < p THEN s[j] ELSE e
  <2>1. /\ um \in Seq(S) /\ Len(um) = Len(u) + Len(m)
        /\ \A j \in 1..(Len(u) + Len(m)) :
              um[j] = IF j <= Len(u) THEN u[j] ELSE m[j - Len(u)]
    BY <1>2, <1>4, ConcatProperties
  <2> QED
    BY <1>1, <1>2, <1>4, <2>1
<1> HIDE DEF um
<1>6. /\ t \in Seq(S) /\ Len(t) = n + 1
      /\ \A j \in 1..(n + 1) : t[j] = IF j <= p THEN um[j] ELSE v[j - p]
  <2>1. /\ t \in Seq(S) /\ Len(t) = Len(um) + Len(v)
        /\ \A j \in 1..(Len(um) + Len(v)) :
              t[j] = IF j <= Len(um) THEN um[j] ELSE v[j - Len(um)]
    BY <1>3, <1>5, ConcatProperties
  <2>2. Len(um) + Len(v) = n + 1
    BY <1>1, <1>3, <1>5
  <2> HIDE DEF t
  <2> QED
    BY <1>5, <2>1, <2>2
<1>7. InsertAt(s, p, e) = t
  BY DEF InsertAt, u, m, v, n, um
<1> HIDE DEF t
<1>8. ASSUME NEW j \in 1..(n + 1)
      PROVE  t[j] = IF j < p THEN s[j] ELSE IF j = p THEN e ELSE s[j - 1]
  <2>1. CASE j <= p
    BY <1>1, <1>5, <1>6, <2>1
  <2>2. CASE j > p
    <3>1. j - p \in 1..(n - p + 1) /\ p + (j - p) - 1 = j - 1 /\ ~(j <= p)
      BY <1>1, <2>2
    <3>2. t[j] = v[j - p] /\ v[j - p] = s[p + (j - p) - 1]
      BY <1>3, <1>6, <3>1
    <3> QED
      BY <1>1, <3>1, <3>2
  <2> QED
    BY <1>1, <2>1, <2>2
<1> QED
  BY <1>6, <1>7, <1>8 DEF n

LEMMA RemoveAtIs ==
    ASSUME NEW S, NEW s \in Seq(S), NEW p \in 1..Len(s)
    PROVE  /\ RemoveAt(s, p) \in Seq(S)
           /\ Len(RemoveAt(s, p)) = Len(s) - 1
           /\ \A j \in 1..(Len(s) - 1) :
                 RemoveAt(s, p)[j] = IF j < p THEN s[j] ELSE s[j + 1]
<1> DEFINE n == Len(s)
           u == SubSeq(s, 1, p - 1)
           v == SubSeq(s, p + 1, n)
           t == u \o v
<1>1. n \in Nat /\ p \in Nat /\ 1 <= p /\ p <= n /\ \A i \in 1..n : s[i] \in S
  BY ElementOfSeq, LenProperties
<1>2. /\ u \in Seq(S) /\ Len(u) = p - 1
      /\ \A j \in 1..(p - 1) : u[j] = s[j]
  <2>1. \A i \in 1..(p - 1) : s[i] \in S
    BY <1>1
  <2> QED
    BY <1>1, <2>1, SubSeqProperties
<1>3. /\ v \in Seq(S) /\ Len(v) = n - p
      /\ \A j \in 1..(n - p) : v[j] = s[p + j]
  <2>1. \A i \in (p + 1)..n : s[i] \in S
    BY <1>1
  <2>2. p + 1 \in Int /\ n \in Int
    BY <1>1
  <2> HIDE DEF n
  <2>3. /\ v \in Seq(S) /\ Len(v) = IF p + 1 <= n THEN n - (p + 1) + 1 ELSE 0
        /\ \A j \in 1..(n - (p + 1) + 1) : v[j] = s[(p + 1) + j - 1]
    BY <2>1, <2>2, SubSeqProperties
  <2>4. n - (p + 1) + 1 = n - p /\ (~(p + 1 <= n) => n - p = 0)
    BY <1>1
  <2>5. \A j \in 1..(n - p) : (p + 1) + j - 1 = p + j
    BY <1>1
  <2> QED
    BY <2>3, <2>4, <2>5
<1> HIDE DEF u, v, n
<1>4. /\ t \in Seq(S) /\ Len(t) = n - 1
      /\ \A j \in 1..(n - 1) : t[j] = IF j <= p - 1 THEN u[j] ELSE v[j - (p - 1)]
  <2>1. /\ t \in Seq(S) /\ Len(t) = Len(u) + Len(v)
        /\ \A j \in 1..(Len(u) + Len(v)) :
              t[j] = IF j <= Len(u) THEN u[j] ELSE v[j - Len(u)]
    BY <1>2, <1>3, ConcatProperties
  <2>2. Len(u) + Len(v) = n - 1
    BY <1>1, <1>2, <1>3
  <2> HIDE DEF t
  <2> QED
    BY <1>2, <2>1, <2>2
<1>5. RemoveAt(s, p) = t
  BY DEF RemoveAt, u, v, n
<1> HIDE DEF t
<1>6. ASSUME NEW j \in 1..(n - 1) PROVE t[j] = IF j < p THEN s[j] ELSE s[j + 1]
  <2>1. CASE j <= p - 1
    BY <1>1, <1>2, <1>4, <2>1
  <2>2. CASE ~(j <= p - 1)
    <3>1. j - (p - 1) \in 1..(n - p) /\ p + (j - (p - 1)) = j + 1 /\ ~(j < p)
      BY <1>1, <2>2
    <3> QED
      BY <1>3, <1>4, <2>2, <3>1
  <2> QED
    BY <1>1, <2>1, <2>2
<1> QED
  BY <1>4, <1>5, <1>6 DEF n

LEMMA LeastExists ==
    ASSUME NEW T, T \subseteq Nat, T # {}
    PROVE  \E x \in T : \A y \in T : x <= y
<1> DEFINE R == OpToRel(<, Nat)
<1>1. \A x, y \in Nat : <<x, y>> \in R <=> x < y
  BY DEF OpToRel
<1>2. IsWellFoundedOn(R, Nat)
  BY NatLessThanWellFounded
<1> HIDE DEF R
<1>3. PICK x \in T : \A y \in T : ~(<<y, x>> \in R)
  BY <1>2, WFMin
<1>4. ASSUME NEW y \in T PROVE x <= y
  <2>1. x \in Nat /\ y \in Nat /\ ~(y < x)
    BY <1>1, <1>3
  <2> QED
    BY <2>1
<1> QED
  BY <1>4

-----------------------------------------------------------------------------
(* The list of items. *)

InOrder(s) == \A i, j \in DOMAIN s : i < j => s[i].at <= s[j].at /\ s[i].key # s[j].key

KeysOf(s) == {s[i].key : i \in DOMAIN s}

LEMMA ItemType == \A item \in Items : item.at \in Nat /\ item.key \in Keys
  BY DEF Items

(* Where the search from the back ends. *)
LEMMA BeforeIs ==
    ASSUME NEW s \in Seq(Items), InOrder(s), NEW n \in 0..Len(s), NEW t \in Nat
    PROVE  /\ Before(s, n, t) \in 0..n
           /\ \A i \in 1..Before(s, n, t) : s[i].at < t
           /\ \A i \in (Before(s, n, t) + 1)..n : t <= s[i].at
<1> DEFINE B == {0} \cup {i \in 1..n : s[i].at < t}
           T == {m \in 0..n : \A i \in 1..n : i > m => t <= s[i].at}
<1>1. /\ n \in Nat /\ Len(s) \in Nat /\ n <= Len(s) /\ DOMAIN s = 1..Len(s)
      /\ \A i \in 1..n : s[i].at \in Nat
  BY ItemType, ElementOfSeq, LenProperties
<1>2. \A i, j \in 1..n : i < j => s[i].at <= s[j].at
  BY <1>1 DEF InOrder
<1>3. PICK m \in T : \A y \in T : m <= y
  <2>1. n \in T /\ T \subseteq Nat
    BY <1>1
  <2> HIDE DEF T
  <2> QED
    BY <2>1, LeastExists
<1>4. m = 0 \/ s[m].at < t
  <2>1. SUFFICES ASSUME m # 0, ~(s[m].at < t) PROVE FALSE
    OBVIOUS
  <2>2. m \in 1..n /\ m - 1 \in 0..n /\ t <= s[m].at
    BY <1>1, <2>1
  <2>3. \A i \in 1..n : i > m - 1 => i = m \/ i > m
    BY <1>1, <2>2
  <2>4. m - 1 \in T
    BY <2>2, <2>3
  <2>5. m <= m - 1
    <3> HIDE DEF T
    <3> QED
      BY <1>3, <2>4
  <2>6. m \in Nat
    BY <1>1, <2>2
  <2> QED
    BY <2>5, <2>6
<1>5. m \in B /\ \A y \in B : m >= y
  <2>1. m \in 0..n /\ m \in Nat
    BY <1>1
  <2>2. m \in B
    BY <1>1, <1>4, <2>1
  <2>3. ASSUME NEW i \in 1..n, s[i].at < t PROVE m >= i
    <3>1. ~(t <= s[i].at) /\ i \in Nat
      BY <1>1, <2>3
    <3> QED
      BY <2>1, <3>1
  <2> QED
    BY <2>1, <2>2, <2>3
<1>6. \A x \in B : (\A y \in B : x >= y) => x = m
  BY <1>1, <1>5
<1>7. Before(s, n, t) = m
  <2> HIDE DEF B
  <2>1. Max(B) = m
    BY <1>5, <1>6 DEF Max
  <2> QED
    BY <2>1 DEF Before, B
<1>8. \A i \in 1..m : s[i].at < t
  <2>1. TAKE i \in 1..m
  <2>2. m # 0 /\ m \in 1..n /\ i \in 1..n
    BY <1>1, <2>1
  <2>3. i = m \/ s[i].at <= s[m].at
    BY <1>2, <2>1, <2>2
  <2> QED
    BY <1>1, <1>4, <2>2, <2>3
<1> QED
  BY <1>1, <1>7, <1>8

(* An item of a new key goes where its time belongs. *)
LEMMA InsertKeeps ==
    ASSUME NEW s \in Seq(Items), InOrder(s), NEW item \in Items, item.key \notin KeysOf(s),
           NEW p \in 1..(Len(s) + 1),
           \A i \in 1..(p - 1) : s[i].at <= item.at,
           \A i \in p..Len(s) : item.at <= s[i].at
    PROVE  /\ InsertAt(s, p, item) \in Seq(Items)
           /\ InOrder(InsertAt(s, p, item))
           /\ KeysOf(InsertAt(s, p, item)) = KeysOf(s) \cup {item.key}
<1> DEFINE n == Len(s)
           t == InsertAt(s, p, item)
           old(j) == IF j < p THEN j ELSE j - 1
<1>1. /\ n \in Nat /\ DOMAIN s = 1..n /\ \A i \in 1..n : s[i] \in Items
      /\ p \in Nat /\ 1 <= p /\ p <= n + 1
  BY ElementOfSeq, LenProperties
<1>2. /\ t \in Seq(Items) /\ Len(t) = n + 1 /\ DOMAIN t = 1..(n + 1)
      /\ \A j \in 1..(n + 1) : t[j] = IF j < p THEN s[j] ELSE IF j = p THEN item ELSE s[j - 1]
  BY InsertAtIs, LenProperties
<1> HIDE DEF t, n
<1>3. /\ t[p] = item
      /\ \A j \in 1..(n + 1) : j # p => old(j) \in 1..n /\ t[j] = s[old(j)]
  BY <1>1, <1>2
<1>4. \A i, j \in 1..(n + 1) : i # p /\ j # p /\ i < j => old(i) < old(j)
  BY <1>1
<1>5. InOrder(t)
  <2>1. SUFFICES ASSUME NEW i \in 1..(n + 1), NEW j \in 1..(n + 1), i < j
                 PROVE  t[i].at <= t[j].at /\ t[i].key # t[j].key
    BY <1>2 DEF InOrder
  <2>2. CASE i = p
    <3>1. old(j) = j - 1 /\ old(j) \in p..n /\ old(j) \in 1..n
      BY <1>1, <2>1, <2>2
    <3>2. t[j] = s[old(j)] /\ j # p
      BY <1>1, <1>3, <2>1, <2>2
    <3>3. item.at <= s[old(j)].at
      BY <3>1 DEF n
    <3>4. s[old(j)].key \in KeysOf(s)
      BY <1>1, <3>1 DEF KeysOf
    <3> QED
      BY <1>3, <2>2, <3>2, <3>3, <3>4
  <2>3. CASE j = p
    <3>1. old(i) = i /\ old(i) \in 1..(p - 1) /\ old(i) \in 1..n
      BY <1>1, <2>1, <2>3
    <3>2. t[i] = s[old(i)] /\ i # p
      BY <1>1, <1>3, <2>1, <2>3
    <3>3. s[old(i)].at <= item.at
      BY <3>1
    <3>4. s[old(i)].key \in KeysOf(s)
      BY <1>1, <3>1 DEF KeysOf
    <3> QED
      BY <1>3, <2>3, <3>2, <3>3, <3>4
  <2>4. CASE i # p /\ j # p
    <3> HIDE DEF old
    <3> QED
      BY <1>1, <1>3, <1>4, <2>1, <2>4 DEF InOrder
  <2> QED
    BY <2>2, <2>3, <2>4
<1>6. KeysOf(t) = KeysOf(s) \cup {item.key}
  <2>1. \A j \in 1..(n + 1) : t[j].key \in KeysOf(s) \cup {item.key}
    BY <1>1, <1>3 DEF KeysOf
  <2>2. p \in 1..(n + 1)
    BY <1>1
  <2>3. ASSUME NEW i \in 1..n PROVE \E j \in 1..(n + 1) : t[j] = s[i]
    <3>1. CASE i < p
      BY <1>1, <1>2, <3>1
    <3>2. CASE ~(i < p)
      <4>1. i + 1 \in 1..(n + 1) /\ i + 1 # p /\ old(i + 1) = i
        BY <1>1, <3>2
      <4> QED
        BY <1>3, <4>1
    <3> QED
      BY <3>1, <3>2
  <2>4. KeysOf(t) \subseteq KeysOf(s) \cup {item.key}
    BY <1>2, <2>1 DEF KeysOf
  <2>5. item.key \in KeysOf(t)
    BY <1>2, <1>3, <2>2 DEF KeysOf
  <2>6. ASSUME NEW k \in KeysOf(s) PROVE k \in KeysOf(t)
    <3>1. PICK i \in 1..n : k = s[i].key
      BY <1>1 DEF KeysOf
    <3>2. PICK j \in 1..(n + 1) : t[j] = s[i]
      BY <2>3
    <3> QED
      BY <1>2, <3>1, <3>2 DEF KeysOf
  <2> QED
    BY <2>4, <2>5, <2>6
<1> QED
  BY <1>2, <1>5, <1>6 DEF t

(* An item goes; those behind it move up. *)
LEMMA RemoveKeeps ==
    ASSUME NEW s \in Seq(Items), InOrder(s), NEW p \in DOMAIN s
    PROVE  /\ RemoveAt(s, p) \in Seq(Items)
           /\ InOrder(RemoveAt(s, p))
           /\ KeysOf(RemoveAt(s, p)) = KeysOf(s) \ {s[p].key}
           /\ RemoveAt(s, p) # <<>> => Head(s).at <= Head(RemoveAt(s, p)).at
<1> DEFINE n == Len(s)
           t == RemoveAt(s, p)
           old(j) == IF j < p THEN j ELSE j + 1
<1>1. /\ n \in Nat /\ DOMAIN s = 1..n /\ \A i \in 1..n : s[i] \in Items
      /\ p \in Nat /\ 1 <= p /\ p <= n
  BY ElementOfSeq, LenProperties
<1>2. /\ t \in Seq(Items) /\ Len(t) = n - 1 /\ DOMAIN t = 1..(n - 1)
      /\ \A j \in 1..(n - 1) : t[j] = s[old(j)]
  BY <1>1, RemoveAtIs, LenProperties
<1> HIDE DEF t, n
<1>3. /\ \A j \in 1..(n - 1) : old(j) \in 1..n /\ old(j) # p
      /\ \A i, j \in 1..(n - 1) : i < j => old(i) < old(j)
      /\ \A i \in 1..n : i # p => \E j \in 1..(n - 1) : old(j) = i
  <2>1. ASSUME NEW i \in 1..n, i # p PROVE \E j \in 1..(n - 1) : old(j) = i
    <3>1. CASE i < p
      <4>1. i \in 1..(n - 1) /\ old(i) = i
        BY <1>1, <3>1
      <4> QED
        BY <4>1
    <3>2. CASE ~(i < p)
      <4>1. i - 1 \in 1..(n - 1) /\ old(i - 1) = i
        BY <1>1, <2>1, <3>2
      <4> QED
        BY <4>1
    <3> QED
      BY <3>1, <3>2
  <2>2. /\ \A j \in 1..(n - 1) : old(j) \in 1..n /\ old(j) # p
        /\ \A i, j \in 1..(n - 1) : i < j => old(i) < old(j)
    BY <1>1
  <2> QED
    BY <2>1, <2>2
<1> HIDE DEF old
<1>4. InOrder(t)
  BY <1>1, <1>2, <1>3 DEF InOrder
<1>5. KeysOf(t) = KeysOf(s) \ {s[p].key}
  <2>1. \A i \in 1..n : i # p => s[i].key # s[p].key
    BY <1>1 DEF InOrder
  <2>2. KeysOf(t) \subseteq KeysOf(s) \ {s[p].key}
    BY <1>1, <1>2, <1>3, <2>1 DEF KeysOf
  <2>3. ASSUME NEW k \in KeysOf(s), k # s[p].key PROVE k \in KeysOf(t)
    <3>1. PICK i \in 1..n : k = s[i].key
      BY <1>1 DEF KeysOf
    <3>2. PICK j \in 1..(n - 1) : old(j) = i
      BY <1>3, <2>3, <3>1
    <3> QED
      BY <1>2, <3>1, <3>2 DEF KeysOf
  <2> QED
    BY <2>2, <2>3
<1>6. t # <<>> => Head(s).at <= Head(t).at
  <2>1. SUFFICES ASSUME t # <<>> PROVE Head(s).at <= Head(t).at
    OBVIOUS
  <2>2. 1 \in 1..(n - 1) /\ 1 \in 1..n /\ Head(t) = t[1] /\ Head(s) = s[1]
    <3>1. Len(t) # 0
      BY <1>2, <2>1, EmptySeq
    <3>2. s # <<>>
      BY <1>1, EmptySeq DEF n
    <3>3. Head(t) = t[1] /\ Head(s) = s[1]
      BY <1>2, <2>1, <3>2, HeadTailProperties
    <3> QED
      BY <1>1, <1>2, <3>1, <3>3
  <2>3. old(1) \in 1..n /\ t[1] = s[old(1)]
    BY <1>2, <1>3, <2>2
  <2>4. old(1) = 1 \/ s[1].at <= s[old(1)].at
    BY <1>1, <2>2, <2>3 DEF InOrder
  <2>5. s[1].at \in Nat
    BY <1>1, <2>2, ItemType
  <2> QED
    BY <2>2, <2>3, <2>4, <2>5
<1> QED
  BY <1>2, <1>4, <1>5, <1>6 DEF t

LEMMA TailInOrder ==
    ASSUME NEW s \in Seq(Items), InOrder(s), s # <<>>
    PROVE  /\ Tail(s) \in Seq(Items) /\ InOrder(Tail(s))
           /\ Head(s) \in Items
           /\ KeysOf(Tail(s)) = KeysOf(s) \ {Head(s).key} /\ Head(s).key \in KeysOf(s)
<1> DEFINE t == Tail(s)
<1>1. /\ Len(s) \in Nat /\ Len(s) # 0 /\ DOMAIN s = 1..Len(s) /\ t \in Seq(Items)
      /\ Len(t) = Len(s) - 1 /\ DOMAIN t = 1..Len(t)
      /\ \A k \in 1..Len(t) : t[k] = s[k + 1]
      /\ Head(s) = s[1]
  BY HeadTailProperties, LenProperties, EmptySeq
<1> HIDE DEF t
<1>2. /\ \A k \in 1..Len(t) : k + 1 \in 1..Len(s) /\ 1 < k + 1
      /\ 1 \in 1..Len(s)
  BY <1>1
<1>3. InOrder(t)
  BY <1>1, <1>2, SMTT(30) DEF InOrder
<1>4. \A k \in 1..Len(t) : t[k].key \in KeysOf(s) \ {s[1].key}
  BY <1>1, <1>2 DEF InOrder, KeysOf
<1>5. ASSUME NEW k \in KeysOf(s), k # s[1].key PROVE k \in KeysOf(t)
  <2>1. PICK i \in 1..Len(s) : k = s[i].key
    BY <1>1 DEF KeysOf
  <2>2. i - 1 \in 1..Len(t) /\ (i - 1) + 1 = i
    BY <1>1, <1>5, <2>1
  <2>3. t[i - 1] = s[i]
    BY <1>1, <2>2
  <2> QED
    BY <1>1, <2>1, <2>2, <2>3 DEF KeysOf
<1>6. KeysOf(t) \subseteq KeysOf(s) \ {s[1].key}
  BY <1>1, <1>4 DEF KeysOf
<1>7. s[1] \in Items /\ s[1].key \in KeysOf(s)
  BY <1>1, <1>2, ElementOfSeq DEF KeysOf
<1> QED
  BY <1>1, <1>3, <1>5, <1>6, <1>7 DEF t

LEMMA InsertIs ==
    ASSUME NEW s \in Seq(Items), InOrder(s), NEW item \in Items, item.key \notin KeysOf(s)
    PROVE  /\ Insert(s, item) \in Seq(Items)
           /\ InOrder(Insert(s, item))
           /\ KeysOf(Insert(s, item)) = KeysOf(s) \cup {item.key}
<1> DEFINE b == Before(s, Len(s), item.at)
<1>1. Len(s) \in Nat /\ Len(s) \in 0..Len(s) /\ item.at \in Nat
  BY ItemType, LenProperties
<1>2. /\ b \in 0..Len(s)
      /\ \A i \in 1..b : s[i].at < item.at
      /\ \A i \in (b + 1)..Len(s) : item.at <= s[i].at
  BY <1>1, BeforeIs
<1> HIDE DEF b
<1>3. b + 1 \in 1..(Len(s) + 1) /\ (b + 1) - 1 = b
  BY <1>1, <1>2
<1>4. \A i \in 1..b : s[i].at <= item.at
  <2>1. \A i \in 1..b : i \in 1..Len(s)
    BY <1>1, <1>2
  <2>2. \A i \in 1..b : s[i].at \in Nat
    BY <2>1, ItemType, ElementOfSeq
  <2> QED
    BY <1>1, <1>2, <2>2
<1>5. Insert(s, item) = InsertAt(s, b + 1, item)
  BY DEF Insert, b
<1> QED
  BY <1>2, <1>3, <1>4, <1>5, InsertKeeps

LEMMA AdjustPositionIs ==
    ASSUME NEW s \in Seq(Items), InOrder(s), NEW p \in DOMAIN s, NEW when \in Nat
    PROVE  /\ AdjustPosition(s, p, when) \in Seq(Items)
           /\ InOrder(AdjustPosition(s, p, when))
           /\ KeysOf(AdjustPosition(s, p, when)) = KeysOf(s)
<1> DEFINE n == Len(s)
           b == Before(s, p - 1, when)
           r == RemoveAt(s, p)
           item == [s[p] EXCEPT !.at = when]
<1>1. /\ n \in Nat /\ DOMAIN s = 1..n /\ \A i \in 1..n : s[i] \in Items /\ s[i].at \in Nat
      /\ p \in Nat /\ 1 <= p /\ p <= n /\ p - 1 \in 0..n
  BY ItemType, ElementOfSeq, LenProperties
<1>2. CASE when > s[p].at
  BY <1>2 DEF AdjustPosition
<1>3. CASE ~(when > s[p].at)
  <2>1. /\ b \in 0..(p - 1)
        /\ \A i \in 1..b : s[i].at < when
        /\ \A i \in (b + 1)..(p - 1) : when <= s[i].at
    BY <1>1, BeforeIs
  <2>2. /\ r \in Seq(Items) /\ InOrder(r) /\ KeysOf(r) = KeysOf(s) \ {s[p].key}
    BY RemoveKeeps
  <2>3. /\ Len(r) = n - 1
        /\ \A j \in 1..(n - 1) : r[j] = IF j < p THEN s[j] ELSE s[j + 1]
    BY <1>1, RemoveAtIs
  <2>4. item \in Items /\ item.at = when /\ item.key = s[p].key
    BY <1>1 DEF Items
  <2>5. AdjustPosition(s, p, when) = InsertAt(r, b + 1, item)
    BY <1>3 DEF AdjustPosition
  <2> HIDE DEF b, r, item, n
  <2>6. b + 1 \in 1..(Len(r) + 1)
    BY <1>1, <2>1, <2>3
  <2>7. \A i \in 1..((b + 1) - 1) : r[i].at <= item.at
    <3>1. TAKE i \in 1..((b + 1) - 1)
    <3>2. i \in 1..b /\ i < p /\ i \in 1..(n - 1) /\ i \in 1..n
      BY <1>1, <2>1, <3>1
    <3> QED
      BY <1>1, <2>1, <2>3, <2>4, <3>2
  <2>8. \A i \in (b + 1)..Len(r) : item.at <= r[i].at
    <3>1. TAKE i \in (b + 1)..Len(r)
    <3>2. i \in 1..(n - 1)
      BY <1>1, <2>1, <2>3, <3>1
    <3>3. CASE i < p
      <4>1. i \in (b + 1)..(p - 1)
        BY <1>1, <2>1, <2>3, <3>1, <3>3
      <4> QED
        BY <2>1, <2>3, <2>4, <3>2, <3>3, <4>1
    <3>4. CASE ~(i < p)
      <4>1. i + 1 \in 1..n /\ p < i + 1
        BY <1>1, <3>2, <3>4
      <4>2. s[p].at <= s[i + 1].at
        BY <1>1, <4>1 DEF InOrder
      <4>3. r[i] = s[i + 1] /\ s[p].at \in Nat /\ s[i + 1].at \in Nat
        BY <1>1, <2>3, <3>2, <3>4, <4>1
      <4> QED
        BY <1>3, <2>4, <4>2, <4>3
    <3> QED
      BY <3>3, <3>4
  <2>9. /\ InsertAt(r, b + 1, item) \in Seq(Items)
        /\ InOrder(InsertAt(r, b + 1, item))
        /\ KeysOf(InsertAt(r, b + 1, item)) = KeysOf(r) \cup {item.key}
    BY <2>2, <2>4, <2>6, <2>7, <2>8, InsertKeeps
  <2>10. s[p].key \in KeysOf(s)
    BY <1>1 DEF KeysOf
  <2> QED
    BY <2>2, <2>4, <2>5, <2>9, <2>10
<1> QED
  BY <1>2, <1>3

-----------------------------------------------------------------------------
(* The inductive invariant.  LooksInTime is not inductive alone: a worker     *)
(* that wakes up takes the token, and no other may be waiting for it.         *)

(* The semaphore. *)
OneLooks == \A v, w \in Workers :
    worker[v].pc \in {"check", "wait"} /\ worker[w].pc \in {"check", "wait"} => v = w

HasKey == \A w \in Workers : At(w, "handle") => worker[w].key \in Keys

IInv == TypeOK /\ Ordered /\ OneAtATime /\ LastWishWins /\ LooksInTime /\ OneLooks /\ HasKey

LEMMA OrderedIs == (Ordered <=> InOrder(items)) /\ Queued = KeysOf(items)
  BY DEF Ordered, InOrder, Queued, KeysOf

LEMMA KeysAreKeys == items \in Seq(Items) => \A k \in Queued : k \in Keys
<1>1. items \in Seq(Items) => \A i \in DOMAIN items : items[i] \in Items
  BY ElementOfSeq, LenProperties
<1> QED
  BY <1>1, ItemType DEF Queued

LEMMA InitInv == Init => IInv
<1> SUFFICES ASSUME Init PROVE IInv
  OBVIOUS
<1>1. items = <<>> /\ DOMAIN items = {} /\ Queued = {} /\ items \in Seq(Items)
  BY DEF Init, Queued
<1>2. /\ \A k \in Keys : processing[k] = None /\ last[k] = None
      /\ \A w \in Workers : worker[w].pc = "off"
  BY DEF Init
<1>3. TypeOK
  <2>1. now \in 0..MaxTime
    BY WorkQueueAssumption DEF Init
  <2>2. worker \in [Workers -> [pc : Pcs, key : Keys \cup {None}, timer : Nat \cup {None}]]
    BY DEF Init, Pcs
  <2>3. wakeup \in BOOLEAN /\ cancelled \in BOOLEAN
    BY DEF Init
  <2>4. /\ processing \in [Keys -> Processed \cup {None}]
        /\ last \in [Keys -> {"enqueued", "forgotten", "started", None}]
    BY DEF Init
  <2> QED
    BY <1>1, <2>1, <2>2, <2>3, <2>4 DEF TypeOK
<1>4. Ordered /\ LooksInTime /\ OneLooks /\ HasKey
  BY <1>1, <1>2 DEF Ordered, LooksInTime, OneLooks, HasKey, At
<1>5. OneAtATime /\ LastWishWins
  BY <1>1, <1>2, WorkQueueAssumption
  DEF OneAtATime, LastWishWins, NoWishLost, ForgottenIsGone, At
<1> QED
  BY <1>3, <1>4, <1>5 DEF IInv

(* A step that leaves the workers alone, and what is in progress in progress. *)
LEMMA WorkersKeep ==
    ASSUME IInv, UNCHANGED worker, processing' \in [Keys -> Processed \cup {None}],
           \A k \in Keys : processing[k] = None <=> processing'[k] = None,
           \A k \in Queued' : processing'[k] = None
    PROVE  OneAtATime' /\ OneLooks' /\ HasKey'
  BY DEF IInv, TypeOK, OneAtATime, OneLooks, HasKey, At

LEMMA AddStep ==
    ASSUME IInv, NEW k \in Keys, NEW first \in Nat, NEW when \in Nat, Add(k, first, when)
    PROVE  IInv'
<1>1. /\ wakeup' = TRUE /\ last' = [last EXCEPT ![k] = "enqueued"]
      /\ UNCHANGED <<now, worker, cancelled>>
      /\ items \in Seq(Items) /\ InOrder(items) /\ Queued = KeysOf(items) /\ k \in Keys
      /\ \A j \in Queued : j \in Keys /\ processing[j] = None
      /\ processing \in [Keys -> Processed \cup {None}]
  <2>1. items \in Seq(Items) /\ Ordered /\ \A j \in Queued : processing[j] = None
    BY DEF IInv, TypeOK, OneAtATime
  <2>2. \A j \in Queued : j \in Keys
    BY <2>1, KeysAreKeys
  <2> QED
    BY <2>1, <2>2, OrderedIs DEF Add, IInv, TypeOK
<1>2. /\ items' \in Seq(Items) /\ InOrder(items')
      /\ processing' \in [Keys -> Processed \cup {None}]
      /\ \A j \in Keys : j # k => processing'[j] = processing[j]
      /\ processing[k] = None <=> processing'[k] = None
      /\ \/ KeysOf(items') = Queued /\ processing'[k] # None
            /\ processing'[k].redirtiedAt # None /\ ~processing'[k].forget
         \/ KeysOf(items') = Queued \cup {k} /\ processing'[k] = None
  <2>1. CASE processing[k] # None /\ processing' = [processing EXCEPT ![k] = Redirtied(@, when)]
              /\ UNCHANGED items
    <3>1. processing[k] \in Processed
      BY <1>1, <2>1
    <3>2. /\ Redirtied(processing[k], when) \in Processed
          /\ Redirtied(processing[k], when).redirtiedAt # None
          /\ ~Redirtied(processing[k], when).forget
      BY <3>1, WorkQueueAssumption DEF Redirtied, Processed
    <3> QED
      BY <1>1, <2>1, <3>2, NoneIsNotProcessed
  <2>2. CASE processing[k] = None /\ k \in Queued /\ UNCHANGED processing
              /\ items' = AdjustPosition(items, IndexOf(k), when)
    <3>1. IndexOf(k) \in DOMAIN items
      BY <2>2 DEF Queued, IndexOf
    <3>2. items' \in Seq(Items) /\ InOrder(items') /\ KeysOf(items') = Queued
      BY <1>1, <2>2, <3>1, AdjustPositionIs
    <3> QED
      BY <1>1, <2>2, <3>2
  <2>3. CASE processing[k] = None /\ k \notin Queued /\ UNCHANGED processing
              /\ items' = Insert(items, [key |-> k, at |-> first, requeues |-> 0])
    <3>1. [key |-> k, at |-> first, requeues |-> 0] \in Items
      BY WorkQueueAssumption DEF Items
    <3>2. items' \in Seq(Items) /\ InOrder(items') /\ KeysOf(items') = Queued \cup {k}
      BY <1>1, <2>3, <3>1, InsertIs
    <3> QED
      BY <1>1, <2>3, <3>2
  <2> QED
    BY <2>1, <2>2, <2>3 DEF Add
<1>3. Queued' = KeysOf(items') /\ Ordered'
  BY <1>2 DEF Ordered, InOrder, Queued, KeysOf
<1>4. TypeOK'
  BY <1>1, <1>2 DEF IInv, TypeOK
<1>5. OneAtATime' /\ OneLooks' /\ HasKey'
  BY <1>1, <1>2, <1>3, WorkersKeep
<1>6. LastWishWins'
  <2>1. ASSUME NEW j \in Keys, last'[j] = "enqueued"
        PROVE  \/ j \in Queued'
               \/ processing'[j] # None /\ processing'[j].redirtiedAt # None /\ ~processing'[j].forget
    <3>1. CASE j = k
      BY <1>2, <1>3, <3>1
    <3>2. CASE j # k
      <4>1. last[j] = "enqueued" /\ processing'[j] = processing[j] /\ (j \in Queued => j \in Queued')
        BY <1>1, <1>2, <1>3, <2>1, <3>2 DEF IInv, TypeOK
      <4> QED
        BY <4>1 DEF IInv, LastWishWins, NoWishLost
    <3> QED
      BY <3>1, <3>2
  <2>2. ASSUME NEW j \in Keys, last'[j] = "forgotten"
        PROVE  j \notin Queued' /\ (processing'[j] # None => processing'[j].forget)
    <3>1. j # k /\ last[j] = "forgotten"
      BY <1>1, <2>2 DEF IInv, TypeOK
    <3>2. processing'[j] = processing[j] /\ (j \in Queued' => j \in Queued)
      BY <1>2, <1>3, <3>1
    <3> QED
      BY <3>1, <3>2 DEF IInv, LastWishWins, ForgottenIsGone
  <2> QED
    BY <2>1, <2>2 DEF LastWishWins, NoWishLost, ForgottenIsGone
<1>7. LooksInTime'
  BY <1>1 DEF LooksInTime
<1> QED
  BY <1>3, <1>4, <1>5, <1>6, <1>7 DEF IInv

LEMMA ForgetStep == ASSUME IInv, NEW k \in Keys, Forget(k) PROVE IInv'
<1>1. /\ last' = [last EXCEPT ![k] = "forgotten"]
      /\ UNCHANGED <<now, worker, wakeup, cancelled>>
      /\ items \in Seq(Items) /\ InOrder(items) /\ Queued = KeysOf(items)
      /\ \A j \in Queued \cap Keys : processing[j] = None
      /\ processing \in [Keys -> Processed \cup {None}]
  BY OrderedIs DEF Forget, IInv, TypeOK, OneAtATime
<1>2. /\ items' \in Seq(Items) /\ InOrder(items') /\ KeysOf(items') = Queued \ {k}
      /\ processing' \in [Keys -> Processed \cup {None}]
      /\ \A j \in Keys : j # k => processing'[j] = processing[j]
      /\ processing[k] = None <=> processing'[k] = None
      /\ processing'[k] # None => processing'[k].forget
      /\ items' # <<>> => items # <<>> /\ Head(items).at <= Head(items').at
  <2>1. CASE k \in Queued /\ items' = RemoveAt(items, IndexOf(k)) /\ UNCHANGED processing
    <3>1. IndexOf(k) \in DOMAIN items /\ items[IndexOf(k)].key = k
      BY <2>1 DEF Queued, IndexOf
    <3>2. /\ items' \in Seq(Items) /\ InOrder(items') /\ KeysOf(items') = Queued \ {k}
          /\ items' # <<>> => Head(items).at <= Head(items').at
      BY <1>1, <2>1, <3>1, RemoveKeeps
    <3>3. items # <<>>
      BY <3>1
    <3> QED
      BY <1>1, <2>1, <3>2, <3>3
  <2>2. CASE k \notin Queued /\ processing[k] # None /\ UNCHANGED items
              /\ processing' = [processing EXCEPT ![k].forget = TRUE]
    <3>1. processing[k] \in Processed
      BY <1>1, <2>2
    <3>2. [processing[k] EXCEPT !.forget = TRUE] \in Processed
      BY <3>1 DEF Processed
    <3>3. [processing[k] EXCEPT !.forget = TRUE].forget = TRUE
      BY <3>1 DEF Processed
    <3>4. items # <<>> => Head(items).at <= Head(items).at
      BY <1>1, TailInOrder, ItemType
    <3> QED
      BY <1>1, <2>2, <3>2, <3>3, <3>4, NoneIsNotProcessed
  <2>3. CASE k \notin Queued /\ processing[k] = None /\ UNCHANGED <<items, processing>>
    <3>1. items # <<>> => Head(items).at <= Head(items).at
      BY <1>1, TailInOrder, ItemType
    <3> QED
      BY <1>1, <2>3, <3>1
  <2> QED
    BY <2>1, <2>2, <2>3 DEF Forget
<1>3. Queued' = KeysOf(items') /\ Ordered'
  BY <1>2 DEF Ordered, InOrder, Queued, KeysOf
<1>4. TypeOK'
  BY <1>1, <1>2 DEF IInv, TypeOK
<1>5. OneAtATime' /\ OneLooks' /\ HasKey'
  <2>1. ASSUME NEW j \in Queued' PROVE processing'[j] = None
    <3>1. j \in Queued /\ j # k
      BY <1>2, <1>3, <2>1
    <3>2. j \in Keys
      BY <1>1, <3>1, KeysAreKeys
    <3> QED
      BY <1>1, <1>2, <3>1, <3>2
  <2> QED
    BY <1>1, <1>2, <2>1, WorkersKeep
<1>6. LastWishWins'
  <2>1. \A j \in Keys : /\ j = k => last'[j] = "forgotten"
                        /\ j # k => last'[j] = last[j] /\ (j \in Queued' <=> j \in Queued)
    BY <1>1, <1>2, <1>3 DEF IInv, TypeOK
  <2> QED
    BY <1>2, <1>3, <2>1 DEF IInv, LastWishWins, NoWishLost, ForgottenIsGone
<1>7. LooksInTime'
  <2>1. ASSUME NEW w \in Workers, At(w, "wait"), items' # <<>>
        PROVE  wakeup \/ (worker[w].timer # None /\ worker[w].timer <= Head(items').at)
    <3>1. wakeup \/ (worker[w].timer # None /\ worker[w].timer <= Head(items).at)
      BY <1>2, <2>1 DEF IInv, LooksInTime
    <3>2. worker[w].timer # None => worker[w].timer \in Nat
      BY DEF IInv, TypeOK
    <3>3. Head(items).at \in Nat /\ Head(items').at \in Nat
      BY <1>1, <1>2, <2>1, TailInOrder, ItemType
    <3> QED
      BY <1>2, <2>1, <3>1, <3>2, <3>3
  <2> QED
    BY <1>1, <2>1 DEF LooksInTime, At
<1> QED
  BY <1>3, <1>4, <1>5, <1>6, <1>7 DEF IInv

-----------------------------------------------------------------------------
(* The workers. *)

(* A worker moves on without touching the list. *)
LEMMA MovesKeep ==
    ASSUME IInv, NEW w \in Workers, NEW pc \in {"off", "acquire", "check", "wait"},
           NEW timer \in Nat \cup {None}, Becomes(w, pc, None, timer),
           ~At(w, "handle"), UNCHANGED <<items, processing, cancelled, last, now>>,
           wakeup' \in BOOLEAN
    PROVE  TypeOK' /\ Ordered' /\ OneAtATime' /\ LastWishWins' /\ HasKey'
<1>1. /\ worker' = [worker EXCEPT ![w] = [pc |-> pc, key |-> None, timer |-> timer]]
      /\ \A v \in Workers : (At(v, "handle"))' <=> At(v, "handle")
      /\ \A v \in Workers : At(v, "handle") => worker'[v].key = worker[v].key
  BY DEF Becomes, IInv, TypeOK, At
<1>2. TypeOK'
  BY <1>1 DEF IInv, TypeOK, Pcs
<1>3. Ordered' /\ LastWishWins' /\ Queued' = Queued
  BY DEF IInv, Ordered, LastWishWins, NoWishLost, ForgottenIsGone, Queued
<1>4. OneAtATime'
  BY <1>1, <1>3 DEF IInv, OneAtATime
<1>5. HasKey'
  BY <1>1 DEF IInv, HasKey
<1> QED
  BY <1>2, <1>3, <1>4, <1>5

(* Only a worker that looks holds the semaphore, and nobody waits behind it.  *)
LEMMA OthersDoNotWait ==
    ASSUME IInv, NEW w \in Workers, At(w, "check")
    PROVE  \A v \in Workers : worker[v].pc # "wait"
  BY DEF IInv, OneLooks, At

LEMMA AcquireStep == ASSUME IInv, NEW w \in Workers, Acquire(w) PROVE IInv'
<1>1. TypeOK' /\ Ordered' /\ OneAtATime' /\ LastWishWins' /\ HasKey'
  BY MovesKeep DEF Acquire, queueVars, At, IInv, TypeOK
<1>2. worker' = [worker EXCEPT ![w] = [pc |-> "check", key |-> None, timer |-> None]]
  BY DEF Acquire, Becomes
<1>3. OneLooks'
  BY <1>2 DEF Acquire, IInv, TypeOK, OneLooks
<1>4. LooksInTime'
  BY <1>2 DEF Acquire, queueVars, IInv, TypeOK, LooksInTime, At
<1> QED
  BY <1>1, <1>3, <1>4 DEF IInv

LEMMA WaitStep == ASSUME IInv, NEW w \in Workers, Wait(w) PROVE IInv'
<1> DEFINE timer == IF items = <<>> THEN None ELSE Head(items).at
<1>1. timer \in Nat \cup {None} /\ (items # <<>> => timer # None /\ timer <= Head(items).at)
  <2>1. items # <<>> => Head(items).at \in Nat
    BY OrderedIs, TailInOrder, ItemType DEF IInv, TypeOK
  <2> QED
    BY <2>1, WorkQueueAssumption
<1>2. Becomes(w, "wait", None, timer) /\ At(w, "check") /\ UNCHANGED <<now, cancelled, queueVars>>
  BY DEF Wait
<1> HIDE DEF timer
<1>3. TypeOK' /\ Ordered' /\ OneAtATime' /\ LastWishWins' /\ HasKey'
  BY <1>1, <1>2, MovesKeep DEF queueVars, At, IInv, TypeOK
<1>4. worker' = [worker EXCEPT ![w] = [pc |-> "wait", key |-> None, timer |-> timer]]
  BY <1>2 DEF Becomes
<1>5. OneLooks'
  BY <1>2, <1>4 DEF IInv, TypeOK, OneLooks, At
<1>6. LooksInTime'
  <2>1. \A v \in Workers : v # w => worker'[v] = worker[v] /\ worker[v].pc # "wait"
    BY <1>2, <1>4, OthersDoNotWait DEF IInv, TypeOK
  <2>2. worker'[w].timer = timer
    BY <1>4 DEF IInv, TypeOK
  <2>3. items' = items
    BY <1>2 DEF queueVars
  <2> QED
    BY <1>1, <2>1, <2>2, <2>3 DEF LooksInTime, At
<1> QED
  BY <1>3, <1>5, <1>6 DEF IInv

LEMMA WakeUpStep == ASSUME IInv, NEW w \in Workers, WakeUp(w) PROVE IInv'
<1>1. TypeOK' /\ Ordered' /\ OneAtATime' /\ LastWishWins' /\ HasKey'
  BY MovesKeep DEF WakeUp, At, IInv, TypeOK
<1>2. worker' = [worker EXCEPT ![w] = [pc |-> "check", key |-> None, timer |-> None]]
  BY DEF WakeUp, Becomes
<1>3. OneLooks'
  BY <1>2 DEF WakeUp, IInv, TypeOK, OneLooks, At
<1>4. \A v \in Workers : worker'[v].pc # "wait"
  BY <1>2 DEF WakeUp, IInv, TypeOK, OneLooks, At
<1>5. LooksInTime'
  BY <1>4 DEF LooksInTime, At
<1> QED
  BY <1>1, <1>3, <1>5 DEF IInv

LEMMA StopStep == ASSUME IInv, NEW w \in Workers, Stop(w) PROVE IInv'
<1>1. TypeOK' /\ Ordered' /\ OneAtATime' /\ LastWishWins' /\ HasKey'
  BY MovesKeep DEF Stop, queueVars, At, IInv, TypeOK
<1>2. worker' = [worker EXCEPT ![w] = [pc |-> "off", key |-> None, timer |-> None]]
  BY DEF Stop, Becomes
<1>3. OneLooks' /\ LooksInTime'
  BY <1>2 DEF Stop, queueVars, IInv, TypeOK, OneLooks, LooksInTime, At
<1> QED
  BY <1>1, <1>3 DEF IInv

LEMMA TakeStep == ASSUME IInv, NEW w \in Workers, Take(w) PROVE IInv'
<1> DEFINE k == Head(items).key
           record == [requeues |-> Head(items).requeues, redirtiedAt |-> None, forget |-> FALSE]
<1>1. /\ processing' = [processing EXCEPT ![k] = record]
      /\ last' = [last EXCEPT ![k] = "started"]
      /\ worker' = [worker EXCEPT ![w] = [pc |-> "handle", key |-> k, timer |-> None]]
      /\ items' = Tail(items)
      /\ UNCHANGED <<now, wakeup, cancelled>> /\ At(w, "check")
  BY DEF Take, Becomes
<1>2. /\ items' \in Seq(Items) /\ InOrder(items')
      /\ KeysOf(items') = Queued \ {k} /\ k \in Queued
      /\ Head(items) \in Items
  BY <1>1, OrderedIs, TailInOrder DEF Take, Due, IInv, TypeOK
<1>3. k \in Keys /\ record \in Processed /\ record # None
  <2>1. k \in Keys /\ Head(items).requeues \in 0..(MaxRetries - 1)
    BY <1>2 DEF Items
  <2>2. record \in Processed
    BY <2>1 DEF Processed
  <2> QED
    BY <2>1, <2>2, NoneIsNotProcessed
<1>4. Queued' = KeysOf(items') /\ Ordered'
  BY <1>2 DEF Ordered, InOrder, Queued, KeysOf
<1>5. processing[k] = None /\ \A v \in Workers : At(v, "handle") => worker[v].key # k
  BY <1>2, <1>3 DEF IInv, OneAtATime
<1> HIDE DEF k, record
<1>6. /\ processing'[k] # None
      /\ \A j \in Keys : j # k => processing'[j] = processing[j] /\ last'[j] = last[j]
      /\ last'[k] = "started"
      /\ worker'[w].pc = "handle" /\ worker'[w].key = k
      /\ \A v \in Workers : v # w => worker'[v] = worker[v]
  BY <1>1, <1>3 DEF IInv, TypeOK
<1>7. TypeOK'
  <2>1. worker' \in [Workers -> [pc : Pcs, key : Keys \cup {None}, timer : Nat \cup {None}]]
    BY <1>1, <1>3 DEF IInv, TypeOK, Pcs
  <2>2. processing' \in [Keys -> Processed \cup {None}]
    BY <1>1, <1>3 DEF IInv, TypeOK
  <2>3. last' \in [Keys -> {"enqueued", "forgotten", "started", None}]
    BY <1>1, <1>3 DEF IInv, TypeOK
  <2> QED
    BY <1>1, <1>2, <2>1, <2>2, <2>3 DEF IInv, TypeOK
<1>8. OneAtATime'
  <2>1. \A u, v \in Workers : u # v /\ At(u, "handle")' /\ At(v, "handle")'
                                 => worker'[u].key # worker'[v].key
    BY <1>5, <1>6 DEF IInv, OneAtATime, At
  <2>2. \A j \in Keys : processing'[j] # None <=>
                           \E v \in Workers : worker'[v].pc = "handle" /\ worker'[v].key = j
    <3>1. TAKE j \in Keys
    <3>2. CASE j = k
      BY <1>6, <3>2
    <3>3. CASE j # k
      <4>1. \A v \in Workers : worker'[v].pc = "handle" /\ worker'[v].key = j
                                  <=> At(v, "handle") /\ worker[v].key = j
        BY <1>1, <1>6, <3>3 DEF At
      <4> QED
        BY <1>6, <3>3, <4>1 DEF IInv, OneAtATime
    <3> QED
      BY <3>2, <3>3
  <2>3. \A j \in Queued' : processing'[j] = None
    <3>1. \A j \in Queued' : j \in Queued /\ j # k /\ j \in Keys
      BY <1>2, <1>4, KeysAreKeys DEF IInv, TypeOK
    <3>2. \A j \in Queued : processing[j] = None
      BY DEF IInv, OneAtATime
    <3> QED
      BY <1>6, <3>1, <3>2
  <2> QED
    BY <2>1, <2>2, <2>3 DEF OneAtATime, At
<1>9. LastWishWins'
  <2>1. \A j \in Keys : j # k => (j \in Queued' <=> j \in Queued)
    BY <1>2, <1>4
  <2> QED
    BY <1>6, <2>1 DEF IInv, LastWishWins, NoWishLost, ForgottenIsGone
<1>10. OneLooks' /\ LooksInTime' /\ HasKey'
  <2>1. \A v \in Workers : worker'[v].pc # "wait"
    BY <1>1, <1>6, OthersDoNotWait
  <2>2. LooksInTime'
    BY <2>1 DEF LooksInTime, At
  <2>3. OneLooks'
    BY <1>6 DEF IInv, OneLooks
  <2>4. HasKey'
    BY <1>3, <1>6 DEF IInv, HasKey, At
  <2> QED
    BY <2>2, <2>3, <2>4
<1> QED
  BY <1>4, <1>7, <1>8, <1>9, <1>10 DEF IInv

LEMMA HandledStep ==
    ASSUME IInv, NEW w \in Workers, NEW failed \in BOOLEAN, Handled(w, failed)
    PROVE  IInv'
<1> DEFINE k == worker[w].key
           item == processing[k]
<1>1. /\ At(w, "handle")
      /\ processing' = [processing EXCEPT ![k] = None]
      /\ worker' = [worker EXCEPT ![w] = [pc |-> "acquire", key |-> None, timer |-> None]]
      /\ UNCHANGED <<now, cancelled, last>>
  BY DEF Handled, Becomes
<1>2. k \in Keys /\ item \in Processed /\ k \notin Queued
      /\ \A v \in Workers : v # w /\ At(v, "handle") => worker[v].key # k
  BY <1>1 DEF IInv, TypeOK, OneAtATime, HasKey
<1>3. items \in Seq(Items) /\ InOrder(items) /\ Queued = KeysOf(items)
      /\ now \in Nat /\ wakeup \in BOOLEAN
  BY OrderedIs, WorkQueueAssumption DEF IInv, TypeOK
<1>4. /\ items' \in Seq(Items) /\ InOrder(items') /\ wakeup' \in BOOLEAN
      /\ \/ items' = items /\ wakeup' = wakeup
            /\ (item.forget \/ item.redirtiedAt = None)
         \/ KeysOf(items') = Queued \cup {k} /\ wakeup' = TRUE /\ ~item.forget
  <2>1. CASE /\ item.forget \/ (~(failed /\ ShouldRetry(item)) /\ item.redirtiedAt = None)
             /\ UNCHANGED <<items, wakeup>>
    BY <1>3, <2>1
  <2>2. CASE /\ ~item.forget /\ failed /\ ShouldRetry(item)
             /\ \E backoff \in Backoffs :
                   /\ now + backoff <= MaxTime
                   /\ Requeue([key |-> k, at |-> now + backoff,
                               requeues |-> item.requeues + 1])
    <3>1. PICK backoff \in Backoffs :
                   Requeue([key |-> k, at |-> now + backoff, requeues |-> item.requeues + 1])
      BY <2>2
    <3>2. [key |-> k, at |-> now + backoff, requeues |-> item.requeues + 1] \in Items
      <4>1. now + backoff \in Nat
        BY <1>3, WorkQueueAssumption
      <4>2. item.requeues \in 0..(MaxRetries - 1)
        BY <1>2 DEF Processed
      <4> HIDE DEF item, k
      <4>3. item.requeues + 1 \in 0..(MaxRetries - 1)
        BY <2>2, <4>2, WorkQueueAssumption DEF ShouldRetry
      <4> QED
        BY <1>2, <4>1, <4>3 DEF Items
    <3> QED
      BY <1>2, <1>3, <2>2, <3>1, <3>2, InsertIs DEF Requeue
  <2>3. CASE /\ ~item.forget /\ item.redirtiedAt # None
             /\ Requeue([key |-> k, at |-> item.redirtiedAt, requeues |-> 0])
    <3>1. [key |-> k, at |-> item.redirtiedAt, requeues |-> 0] \in Items
      BY <1>2, <2>3, WorkQueueAssumption DEF Items, Processed
    <3> QED
      BY <1>2, <1>3, <2>3, <3>1, InsertIs DEF Requeue
  <2> QED
    BY <2>1, <2>2, <2>3 DEF Handled
<1>5. Queued' = KeysOf(items') /\ Ordered'
  BY <1>4 DEF Ordered, InOrder, Queued, KeysOf
<1> HIDE DEF k, item
<1>6. /\ processing'[k] = None
      /\ \A j \in Keys : j # k => processing'[j] = processing[j] /\ (j \in Queued' <=> j \in Queued)
      /\ worker'[w].pc = "acquire"
      /\ \A v \in Workers : v # w => worker'[v] = worker[v]
  BY <1>1, <1>2, <1>3, <1>4, <1>5 DEF IInv, TypeOK
<1>7. TypeOK'
  <2>1. worker' \in [Workers -> [pc : Pcs, key : Keys \cup {None}, timer : Nat \cup {None}]]
    BY <1>1 DEF IInv, TypeOK, Pcs
  <2>2. processing' \in [Keys -> Processed \cup {None}]
    BY <1>1, <1>2 DEF IInv, TypeOK
  <2> QED
    BY <1>1, <1>4, <2>1, <2>2 DEF IInv, TypeOK
<1>8. OneAtATime'
  <2>1. \A u, v \in Workers : u # v /\ At(u, "handle")' /\ At(v, "handle")'
                                 => worker'[u].key # worker'[v].key
    BY <1>6 DEF IInv, OneAtATime, At
  <2>2. \A j \in Keys : processing'[j] # None <=>
                           \E v \in Workers : worker'[v].pc = "handle" /\ worker'[v].key = j
    <3>1. TAKE j \in Keys
    <3>2. CASE j = k
      BY <1>2, <1>6, <3>2 DEF At
    <3>3. CASE j # k
      <4>1. \A v \in Workers : worker'[v].pc = "handle" /\ worker'[v].key = j
                                  <=> At(v, "handle") /\ worker[v].key = j
        BY <1>1, <1>6, <3>3 DEF At, k
      <4> QED
        BY <1>6, <3>3, <4>1 DEF IInv, OneAtATime
    <3> QED
      BY <3>2, <3>3
  <2>3. \A j \in Queued' : processing'[j] = None
    <3>1. \A j \in Queued : j \in Keys /\ processing[j] = None
      BY <1>3, KeysAreKeys DEF IInv, OneAtATime
    <3>2. \A j \in Queued' : j \in Queued \cup {k}
      BY <1>3, <1>4, <1>5
    <3> QED
      BY <1>6, <3>1, <3>2
  <2> QED
    BY <2>1, <2>2, <2>3 DEF OneAtATime, At
<1>9. LastWishWins'
  <2>1. item = processing[k]
    BY DEF item
  <2>2. last[k] = "enqueued" => k \in Queued'
    BY <1>2, <1>4, <1>5, <2>1 DEF IInv, LastWishWins, NoWishLost
  <2>3. last[k] = "forgotten" => k \notin Queued'
    <3>1. item # None
      BY <1>2, NoneIsNotProcessed
    <3>2. last[k] = "forgotten" => item.forget
      BY <1>2, <2>1, <3>1 DEF IInv, LastWishWins, ForgottenIsGone
    <3> QED
      BY <1>2, <1>3, <1>4, <1>5, <3>2
  <2>4. \A j \in Keys : last'[j] = last[j]
    BY <1>1
  <2>5. NoWishLost'
    BY <1>6, <2>2, <2>4 DEF IInv, LastWishWins, NoWishLost
  <2>6. ForgottenIsGone'
    BY <1>6, <2>3, <2>4 DEF IInv, LastWishWins, ForgottenIsGone
  <2> QED
    BY <2>5, <2>6 DEF LastWishWins
<1>10. LooksInTime'
  BY <1>4, <1>6 DEF IInv, LooksInTime, At
<1>11. OneLooks' /\ HasKey'
  BY <1>6 DEF IInv, OneLooks, HasKey, At
<1> QED
  BY <1>5, <1>7, <1>8, <1>9, <1>10, <1>11 DEF IInv

-----------------------------------------------------------------------------
(* Run, the context and the time. *)

LEMMA RunStep == IInv /\ Run => IInv'
<1> SUFFICES ASSUME IInv, Run PROVE IInv'
  OBVIOUS
<1>1. /\ \A w \in Workers : worker[w].pc = "off" /\ worker'[w].pc = "acquire"
      /\ UNCHANGED <<now, cancelled, queueVars>>
  BY DEF Run, IInv, TypeOK
<1>2. worker' \in [Workers -> [pc : Pcs, key : Keys \cup {None}, timer : Nat \cup {None}]]
  BY SMTT(30) DEF Run, IInv, TypeOK, Pcs
<1>3. TypeOK'
  BY <1>1, <1>2 DEF IInv, TypeOK, queueVars
<1>4. Ordered' /\ LastWishWins'
  BY <1>1 DEF IInv, Ordered, LastWishWins, NoWishLost, ForgottenIsGone, Queued, queueVars
<1>5. OneAtATime'
  BY <1>1 DEF IInv, OneAtATime, Queued, At, queueVars
<1>6. LooksInTime' /\ OneLooks' /\ HasKey'
  BY <1>1 DEF LooksInTime, OneLooks, HasKey, At
<1> QED
  BY <1>3, <1>4, <1>5, <1>6 DEF IInv

LEMMA OtherSteps == IInv /\ (Cancel \/ Tick \/ UNCHANGED vars) => IInv'
<1> SUFFICES ASSUME IInv, Cancel \/ Tick \/ UNCHANGED vars PROVE IInv'
  OBVIOUS
<1>1. /\ UNCHANGED <<items, processing, worker, wakeup, last>>
      /\ now' \in 0..MaxTime /\ cancelled' \in BOOLEAN
  <2>1. now \in 0..MaxTime /\ cancelled \in BOOLEAN
    BY DEF IInv, TypeOK
  <2>2. CASE Cancel
    BY <2>1, <2>2 DEF Cancel, queueVars
  <2>3. CASE Tick
    <3>1. now' \in 0..MaxTime
      BY <2>1, <2>3, WorkQueueAssumption DEF Tick
    <3> QED
      BY <2>1, <2>3, <3>1 DEF Tick, queueVars
  <2>4. CASE UNCHANGED vars
    BY <2>1, <2>4 DEF vars
  <2> QED
    BY <2>2, <2>3, <2>4
<1>2. TypeOK'
  BY <1>1 DEF IInv, TypeOK
<1>3. Ordered' /\ LastWishWins' /\ OneAtATime'
  BY <1>1 DEF IInv, Ordered, LastWishWins, NoWishLost, ForgottenIsGone, OneAtATime, Queued, At
<1>4. LooksInTime' /\ OneLooks' /\ HasKey'
  BY <1>1 DEF IInv, LooksInTime, OneLooks, HasKey, At
<1> QED
  BY <1>2, <1>3, <1>4 DEF IInv

(* Every reachable state of the queue satisfies the inductive invariant, for  *)
(* any keys, workers, delays, retries and time.                               *)
THEOREM Inductive == Spec => []IInv
<1>1. ASSUME IInv, [Next]_vars PROVE IInv'
  <2>1. ASSUME NEW k \in Keys, Enqueue(k) PROVE IInv'
    <3>1. PICK backoff \in Backoffs : Add(k, now + backoff, now)
      BY <2>1 DEF Enqueue
    <3>2. now + backoff \in Nat /\ now \in Nat
      BY <1>1, WorkQueueAssumption DEF IInv, TypeOK
    <3> QED
      BY <1>1, <3>1, <3>2, AddStep
  <2>2. ASSUME NEW k \in Keys, NEW d \in Delays, EnqueueWithoutRateLimitWithDelay(k, d)
        PROVE  IInv'
    <3>1. now + d \in Nat
      BY <1>1, WorkQueueAssumption DEF IInv, TypeOK
    <3> QED
      BY <1>1, <2>2, <3>1, AddStep DEF EnqueueWithoutRateLimitWithDelay
  <2>3. ASSUME NEW k \in Keys, Forget(k) PROVE IInv'
    BY <1>1, <2>3, ForgetStep
  <2>4. ASSUME NEW w \in Workers, Work(w) \/ Handled(w, TRUE) PROVE IInv'
    BY <1>1, <2>4, AcquireStep, TakeStep, WaitStep, WakeUpStep, StopStep, HandledStep DEF Work
  <2>5. CASE Run
    BY <1>1, <2>5, RunStep
  <2>6. CASE Cancel \/ Tick \/ UNCHANGED vars
    BY <1>1, <2>6, OtherSteps
  <2> QED
    BY <1>1, <2>1, <2>2, <2>3, <2>4, <2>5, <2>6 DEF Next
<1> QED
  BY <1>1, InitInv, PTL DEF Spec

(* The fields of the queue keep their types, so no item is ever requeued more *)
(* often than MaxRetries allows.                                              *)
THEOREM TypeCorrect == Spec => []TypeOK
<1>1. IInv => TypeOK
  BY DEF IInv
<1> QED
  BY <1>1, Inductive, PTL

(* The list that insert, adjustPosition and Remove work on is sorted by start *)
(* time and holds each key once, so looking at the front alone is enough.     *)
THEOREM StaysInOrder == Spec => []Ordered
<1>1. IInv => Ordered
  BY DEF IInv
<1> QED
  BY <1>1, Inductive, PTL

(* However many workers Run starts, no key is handled by two at once, nor     *)
(* queued while it is handled.                                                *)
THEOREM NeverTwiceAtOnce == Spec => []OneAtATime
<1>1. IInv => OneAtATime
  BY DEF IInv
<1> QED
  BY <1>1, Inductive, PTL

(* The last of insert and Forget wins, whatever the worker that handles the   *)
(* key meanwhile finds: a key is neither lost nor planned against its wish.   *)
THEOREM WishesHold == Spec => []LastWishWins
<1>1. IInv => LastWishWins
  BY DEF IInv
<1> QED
  BY <1>1, Inductive, PTL

(* No wake-up is lost between insert's token and the worker in getNextItem.   *)
THEOREM NoWakeUpLost == Spec => []LooksInTime
<1>1. IInv => LooksInTime
  BY DEF IInv
<1> QED
  BY <1>1, Inductive, PTL

-----------------------------------------------------------------------------
(* The monitor variable. *)

(* Nothing is closed before it is made, and the channel Set will close is     *)
(* open: closing a closed one panics.                                         *)
ChannelInv == channel \in 1..made /\ closed \subseteq 1..made /\ channel \notin closed

(* The channel of a subscription is the variable's or a closed one.           *)
SubInv == \A r \in Readers : sub[r] # Nothing =>
    /\ sub[r].channel <= made
    /\ sub[r].channel = channel \/ sub[r].channel \in closed
    /\ sub[r].lastVersionRead <= currentVersion
    /\ sub[r].channel \in closed <=> sub[r].lastVersionRead < currentVersion

(* So is the channel a reader waits on, even when it is no longer that of the *)
(* reader's subscription; while it is open the reader is up to date.          *)
ReaderInv == \A r \in Readers : reader[r].pc = "select" =>
    /\ sub[r] # Nothing
    /\ reader[r].channel \in Nat /\ reader[r].channel <= made
    /\ \/ reader[r].channel \in closed
       \/ reader[r].channel = channel /\ sub[r].lastVersionRead = currentVersion

MonitorInv == MonitorTypeOK /\ ChannelInv /\ SubInv /\ ReaderInv

LEMMA MonitorInitInv == MonitorInit => MonitorInv
  BY MonitorAssumption DEF MonitorInit, MonitorInv, MonitorTypeOK, ChannelInv, SubInv, ReaderInv

(* Set closes the channel of everyone who is up to date, and no other.        *)
LEMMA SetInv == MonitorInv /\ Set => MonitorInv'
<1> SUFFICES ASSUME MonitorInv, Set PROVE MonitorInv'
  OBVIOUS
<1> USE DEF MonitorInv, Set
<1>1. MonitorTypeOK'
  BY DEF MonitorTypeOK
<1>2. ChannelInv'
  BY DEF MonitorTypeOK, ChannelInv
<1>3. SubInv'
  BY DEF MonitorTypeOK, ChannelInv, SubInv, Subscriptions
<1>4. ReaderInv'
  BY DEF MonitorTypeOK, ChannelInv, ReaderInv, Subscriptions
<1> QED
  BY <1>1, <1>2, <1>3, <1>4

LEMMA SubscribeInv == ASSUME NEW r \in Readers, MonitorInv, Subscribe(r) PROVE MonitorInv'
<1> USE DEF MonitorInv, Subscribe
<1>1. /\ made' \in {made, made + 1}
      /\ closed' \in {closed, closed \cup {made + 1}}
      /\ made' = made => closed' = closed
  <2>1. CASE currentVersion > 0
    <3>1. made' = made + 1
      BY <2>1 DEF MonitorTypeOK
    <3>2. closed' = closed \cup {made + 1}
      BY <2>1, <3>1 DEF MonitorTypeOK
    <3>3. made + 1 # made
      BY DEF MonitorTypeOK
    <3> QED
      BY <3>1, <3>2, <3>3, Zenon
  <2>2. CASE currentVersion = 0
    BY <2>2
  <2> QED
    BY <2>1, <2>2
<1>2. PICK c \in Nat : sub' = [sub EXCEPT ![r] = [lastVersionRead |-> 0, channel |-> c]]
  <2>1. made + 1 \in Nat /\ channel \in Nat
    BY DEF MonitorTypeOK
  <2> QED
    BY <2>1
<1>3. MonitorTypeOK'
  BY <1>1, <1>2 DEF MonitorTypeOK, Subscriptions
<1>4. ChannelInv'
  BY <1>1 DEF MonitorTypeOK, ChannelInv
<1>5. SubInv'
  BY DEF MonitorTypeOK, ChannelInv, SubInv, Subscriptions
<1>6. ReaderInv'
  BY DEF MonitorTypeOK, ChannelInv, ReaderInv, Subscriptions
<1> QED
  BY <1>3, <1>4, <1>5, <1>6

LEMMA NewValueReadyInv == ASSUME NEW r \in Readers, MonitorInv, NewValueReady(r) PROVE MonitorInv'
<1> USE DEF MonitorInv, NewValueReady
<1>1. MonitorTypeOK'
  BY DEF MonitorTypeOK, Subscriptions
<1>2. ChannelInv' /\ SubInv'
  BY DEF MonitorTypeOK, ChannelInv, SubInv
<1>3. ReaderInv'
  <2>1. /\ sub'[r] # Nothing
        /\ reader'[r].channel = sub[r].channel
        /\ sub[r].channel \in Nat /\ sub[r].channel <= made
        /\ sub[r].lastVersionRead \in Nat /\ sub[r].lastVersionRead <= currentVersion
    BY DEF MonitorTypeOK, SubInv, Subscriptions
  <2>2. \/ sub[r].channel \in closed
        \/ sub[r].channel = channel /\ sub[r].lastVersionRead = currentVersion
    <3>1. /\ sub[r].channel = channel \/ sub[r].channel \in closed
          /\ sub[r].channel \in closed <=> sub[r].lastVersionRead < currentVersion
      BY Zenon DEF SubInv
    <3>2. currentVersion \in Nat
      BY DEF MonitorTypeOK
    <3> QED
      BY <2>1, <3>1, <3>2
  <2>3. \A q \in Readers : q # r => reader'[q] = reader[q]
    BY DEF MonitorTypeOK
  <2> QED
    BY <2>1, <2>2, <2>3 DEF MonitorTypeOK, ReaderInv
<1> QED
  BY <1>1, <1>2, <1>3

LEMMA ReceivedInv == ASSUME NEW r \in Readers, MonitorInv, Received(r) PROVE MonitorInv'
  BY DEF MonitorInv, Received, MonitorTypeOK, ChannelInv, SubInv, ReaderInv

(* Value brings a subscription up to date, and gives it an open channel; the  *)
(* channel its reader already holds may be a closed one.                      *)
LEMMA ValueInv == ASSUME NEW r \in Readers, MonitorInv, Value(r) PROVE MonitorInv'
<1> USE DEF MonitorInv, Value
<1>1. MonitorTypeOK'
  BY DEF MonitorTypeOK, Subscriptions
<1>2. ChannelInv'
  BY DEF MonitorTypeOK, ChannelInv
<1>3. SubInv'
  BY DEF MonitorTypeOK, ChannelInv, SubInv, Subscriptions
<1>4. ReaderInv'
  <2>1. sub'[r] \in Subscriptions /\ sub'[r] # Nothing
    BY MonitorAssumption DEF MonitorTypeOK, Subscriptions
  <2> QED
    BY <2>1 DEF MonitorTypeOK, ReaderInv, Subscriptions
<1> QED
  BY <1>1, <1>2, <1>3, <1>4

THEOREM MonitorInductive == MonitorSpec => []MonitorInv
<1>1. MonitorInv /\ UNCHANGED monitorVars => MonitorInv'
  BY DEF monitorVars, MonitorInv, MonitorTypeOK, ChannelInv, SubInv, ReaderInv
<1>2. MonitorInv /\ [MonitorNext]_monitorVars => MonitorInv'
  BY <1>1, SetInv, SubscribeInv, NewValueReadyInv, ReceivedInv, ValueInv DEF MonitorNext
<1> QED
  BY <1>2, MonitorInitInv, PTL DEF MonitorSpec

(* monitor.go: every variable keeps its type. *)
THEOREM MonitorTypeCorrect == MonitorSpec => []MonitorTypeOK
  BY MonitorInductive, PTL DEF MonitorInv

(* NewValueReady's channel is closed exactly when the value was set since the *)
(* reader's last call of Value.                                               *)
THEOREM ClosedMeansNews == MonitorSpec => []ClosedIffNews
<1>1. MonitorInv => ClosedIffNews
  BY DEF MonitorInv, SubInv, ClosedIffNews
<1> QED
  BY <1>1, MonitorInductive, PTL

(* Nobody waits for a value that has been set already.                        *)
THEOREM NoValueMissed == MonitorSpec => []NothingMissed
<1>1. MonitorInv => NothingMissed
  BY DEF MonitorInv, ReaderInv, NothingMissed
<1> QED
  BY <1>1, MonitorInductive, PTL
=============================================================================
