------------------------------- MODULE TsId_proofs ------------------------------
(***************************************************************************)
(* Proofs about TsId: the sort key of messages disagrees with their times  *)
(* on one kind of pair only, in any base and for any number of digits.     *)
(***************************************************************************)
EXTENDS TsId, TLAPS, WellFoundedInduction

USE TsIdAssumption

\* A set of natural numbers that is not empty has a least element.
LEMMA LeastNumber ==
    ASSUME NEW S \in SUBSET Nat, S # {}
    PROVE  \E n \in S : \A m \in S : n <= m
<1>1. PICK n \in S : \A m \in S : ~(<<m, n>> \in OpToRel(<, Nat))
  BY WFMin, NatLessThanWellFounded
<1>2. ASSUME NEW m \in S
      PROVE  n <= m
  <2>1. <<m, n>> \in OpToRel(<, Nat) <=> m < n
    BY DEF OpToRel
  <2>2. ~(m < n)
    BY <1>1, <2>1, Zenon
  <2>3. QED BY <2>2
<1>3. QED BY <1>2

\* A time is a sequence of digits.
LEMMA TimeShape ==
    ASSUME NEW t \in Times
    PROVE  /\ t \in Seq(0 .. Base - 1)
           /\ Len(t) = Digits + 1
           /\ \A p \in 1 .. Digits + 1 : t[p] \in Nat /\ t[p] < Base
BY DEF Times

\* The places of a time its text keeps: those after them are zeros.
LEMMA KeptShape ==
    ASSUME NEW t \in Times
    PROVE  /\ Kept(t) \in 1 .. Digits + 1
           /\ \A p \in Kept(t) + 1 .. Digits + 1 : t[p] = 0
<1> DEFINE S == {n \in 1 .. Digits + 1 : \A p \in n + 1 .. Digits + 1 : t[p] = 0}
<1>1. Len(t) = Digits + 1
  BY TimeShape
<1>2. Digits + 1 \in S
  OBVIOUS
<1>3. PICK n \in S : \A m \in S : n <= m
  <2>1. S \in SUBSET Nat /\ S # {}
    BY <1>2
  <2>2. HIDE DEF S
  <2>3. QED BY <2>1, LeastNumber
<1>4. n = 1 \/ t[n] # 0
  <2> SUFFICES ASSUME n # 1, t[n] = 0
               PROVE  FALSE
    OBVIOUS
  <2>1. n - 1 \in S
    OBVIOUS
  <2>2. QED BY <2>1, <1>3
<1>5. \E k \in 1 .. Len(t) :
         /\ \A p \in k + 1 .. Len(t) : t[p] = 0
         /\ k = 1 \/ t[k] # 0
  BY <1>1, <1>3, <1>4
<1>6. QED BY <1>1, <1>5 DEF Kept

\* The key of a time (ts_id): the places kept, then "Z".
LEMMA KeyShape ==
    ASSUME NEW t \in Times
    PROVE  /\ Len(Key(t)) = Kept(t) + 1
           /\ \A p \in 1 .. Kept(t) : Key(t)[p] = t[p]
           /\ Key(t)[Kept(t) + 1] = Base
<1>1. t \in Seq(Nat) /\ Len(t) = Digits + 1
  BY TimeShape DEF Times
<1>2. Kept(t) \in 1 .. Len(t)
  BY <1>1, KeptShape
<1>3. /\ Text(t) \in Seq(Nat) /\ Len(Text(t)) = Kept(t)
      /\ \A p \in 1 .. Kept(t) : Text(t)[p] = t[p]
  BY <1>1, <1>2 DEF Text
<1>4. QED BY <1>2, <1>3 DEF Key

\* If the key of a time sorts before that of an earlier time, the text of the
\* earlier one is the beginning of the other's (InsertMessage, "ts_id is
\* lexicographically sortable": true of all other pairs).
THEOREM KeyOrder ==
    ASSUME NEW a \in Times, NEW b \in Times,
           LexLess(Key(a), Key(b)), LexLess(b, a)
    PROVE  CutShort(b, a)
<1>1. PICK p \in 1 .. Digits + 1 : (\A q \in 1 .. p - 1 : b[q] = a[q]) /\ b[p] < a[p]
  BY TimeShape DEF LexLess
<1>2. PICK q \in 1 .. Kept(b) + 1 :
         /\ q <= Kept(a) + 1
         /\ \A r \in 1 .. q - 1 : Key(a)[r] = Key(b)[r]
         /\ Key(a)[q] < Key(b)[q]
  BY KeyShape DEF LexLess
<1>3. p <= Kept(a)
  <2>1. a[p] \in Nat /\ b[p] \in Nat
    BY TimeShape
  <2>2. a[p] # 0
    BY <1>1, <2>1
  <2>3. Kept(a) \in Nat /\ \A r \in Kept(a) + 1 .. Digits + 1 : a[r] = 0
    BY KeptShape
  <2>4. QED BY <2>2, <2>3
<1>4. p > Kept(b)
  <2> SUFFICES ASSUME p <= Kept(b)
               PROVE  FALSE
    BY KeptShape
  <2>1. Key(a)[p] = a[p] /\ Key(b)[p] = b[p]
    BY <1>3, KeyShape
  <2>2. ASSUME NEW r \in 1 .. p - 1
        PROVE  Key(a)[r] = Key(b)[r] /\ Key(a)[r] \in Nat
    <3>1. Kept(a) \in Nat /\ Kept(b) \in Nat
      BY KeptShape
    <3>2. r \in 1 .. Kept(a) /\ r \in 1 .. Kept(b)
      BY <1>3, <3>1
    <3>3. Key(a)[r] = a[r] /\ Key(b)[r] = b[r]
      BY <3>2, KeyShape
    <3>4. a[r] \in Nat
      BY TimeShape
    <3>5. QED BY <1>1, <3>3, <3>4
  <2>3. a[p] \in Nat /\ b[p] \in Nat
    BY TimeShape
  <2>4. CASE q < p
    BY <2>2, <2>4, <1>2, KeptShape
  <2>5. CASE q = p
    BY <2>1, <2>3, <2>5, <1>1, <1>2
  <2>6. CASE q > p
    BY <2>1, <2>3, <2>6, <1>1, <1>2
  <2>7. QED BY <2>4, <2>5, <2>6, KeptShape
<1>5. Text(b) = SubSeq(a, 1, Kept(b))
  <2>1. /\ a \in Seq(Nat) /\ b \in Seq(Nat)
        /\ Len(a) = Digits + 1 /\ Len(b) = Digits + 1
    BY TimeShape DEF Times
  <2>2. \A r \in 1 .. Kept(b) : a[r] = b[r]
    BY <1>1, <1>4, KeptShape
  <2>3. QED BY <2>1, <2>2, KeptShape DEF Text
<1>6. QED BY <1>3, <1>4, <1>5, KeptShape DEF CutShort

\* The order of strings is irreflexive and transitive.
LEMMA LexOrder ==
    ASSUME NEW a \in Seq(Nat), NEW b \in Seq(Nat), NEW c \in Seq(Nat)
    PROVE  /\ ~LexLess(a, a)
           /\ LexLess(a, b) /\ LexLess(b, c) => LexLess(a, c)
<1>1. ~LexLess(a, a)
  BY DEF LexLess
<1>2. ASSUME LexLess(a, b), LexLess(b, c)
      PROVE  LexLess(a, c)
  <2>1. PICK p \in 1 .. Len(b) :
           /\ p <= Len(a)
           /\ \A q \in 1 .. p - 1 : a[q] = b[q]
           /\ a[p] < b[p]
    BY <1>2 DEF LexLess
  <2>2. PICK r \in 1 .. Len(c) :
           /\ r <= Len(b)
           /\ \A q \in 1 .. r - 1 : b[q] = c[q]
           /\ b[r] < c[r]
    BY <1>2 DEF LexLess
  <2>3. CASE p < r
    <3>1. p \in 1 .. Len(c) /\ a[p] < c[p] /\ \A q \in 1 .. p - 1 : a[q] = c[q]
      BY <2>1, <2>2, <2>3
    <3>2. QED BY <2>1, <3>1 DEF LexLess
  <2>4. CASE r < p
    <3>1. r <= Len(a) /\ a[r] < c[r] /\ \A q \in 1 .. r - 1 : a[q] = c[q]
      BY <2>1, <2>2, <2>4
    <3>2. QED BY <2>2, <3>1 DEF LexLess
  <2>5. CASE p = r
    <3>1. a[p] \in Nat /\ b[p] \in Nat /\ c[p] \in Nat
      BY <2>1, <2>2, <2>5
    <3>2. a[p] < c[p] /\ \A q \in 1 .. p - 1 : a[q] = c[q]
      BY <2>1, <2>2, <2>5, <3>1
    <3>3. QED BY <2>1, <2>2, <2>5, <3>2 DEF LexLess
  <2>6. QED BY <2>3, <2>4, <2>5
<1>3. QED BY <1>1, <1>2

\* A key is a string of digits and "Z".
LEMMA KeyType ==
    ASSUME NEW t \in Times
    PROVE  Key(t) \in Seq(Nat)
<1>1. t \in Seq(Nat) /\ Len(t) = Digits + 1
  BY TimeShape DEF Times
<1>2. Text(t) \in Seq(Nat)
  BY <1>1, KeptShape DEF Text
<1>3. QED BY <1>2 DEF Key

\* Two times differ for the first time where they do, and where the later digit
\* is kept: the keys differ there, or where the other text ends.
LEMMA FirstDifference ==
    ASSUME NEW a \in Times, NEW b \in Times, NEW p \in 1 .. Digits + 1,
           \A q \in 1 .. p - 1 : a[q] = b[q], a[p] < b[p]
    PROVE  LexLess(Key(a), Key(b)) \/ LexLess(Key(b), Key(a))
<1>1. p <= Kept(b) /\ Kept(a) \in 1 .. Digits + 1 /\ Kept(b) \in 1 .. Digits + 1
  <2>1. b[p] # 0
    BY TimeShape
  <2>2. QED BY <2>1, KeptShape
<1>2. /\ Len(Key(a)) = Kept(a) + 1 /\ Len(Key(b)) = Kept(b) + 1
      /\ Key(a)[Kept(a) + 1] = Base
      /\ \A q \in 1 .. Kept(a) : Key(a)[q] = a[q]
      /\ \A q \in 1 .. Kept(b) : Key(b)[q] = b[q]
  BY KeyShape
<1>3. CASE p <= Kept(a)
  <2>1. Key(a)[p] < Key(b)[p] /\ \A q \in 1 .. p - 1 : Key(a)[q] = Key(b)[q]
    BY <1>1, <1>2, <1>3
  <2>2. p \in 1 .. Len(Key(b)) /\ p <= Len(Key(a))
    BY <1>1, <1>2, <1>3
  <2>3. QED BY <2>1, <2>2 DEF LexLess
<1>4. CASE p > Kept(a)
  <2>1. PICK r : r = Kept(a) + 1
    OBVIOUS
  <2>2. r \in 1 .. Kept(b) /\ r <= p /\ r \in 1 .. Digits + 1
    BY <1>1, <1>4, <2>1
  <2>3. Key(b)[r] < Key(a)[r]
    BY <1>2, <2>1, <2>2, TimeShape
  <2>4. \A q \in 1 .. r - 1 : Key(b)[q] = Key(a)[q]
    BY <1>1, <1>2, <2>1, <2>2
  <2>5. r \in 1 .. Len(Key(a)) /\ r <= Len(Key(b))
    BY <1>1, <1>2, <2>1, <2>2
  <2>6. QED BY <2>3, <2>4, <2>5 DEF LexLess
<1>5. QED BY <1>1, <1>3, <1>4

\* No key is the beginning of another, nor are two times one key: of two times
\* one sorts before the other.
LEMMA KeysComparable ==
    ASSUME NEW a \in Times, NEW b \in Times, a # b
    PROVE  LexLess(Key(a), Key(b)) \/ LexLess(Key(b), Key(a))
<1> DEFINE S == {n \in 1 .. Digits + 1 : a[n] # b[n]}
<1>1. S \in SUBSET Nat /\ S # {}
  BY DEF Times
<1>2. PICK p \in S : \A m \in S : p <= m
  <2> HIDE DEF S
  <2>1. QED BY <1>1, LeastNumber
<1>3. p \in 1 .. Digits + 1 /\ \A q \in 1 .. p - 1 : a[q] = b[q]
  BY <1>2
<1>4. a[p] < b[p] \/ b[p] < a[p]
  BY <1>2, TimeShape
<1>5. QED BY <1>3, <1>4, FirstDifference

\* ts_id orders the messages of a room strictly and totally: no two messages
\* share a place, whatever their times (InsertMessage, GetMessagesByRoom).
THEOREM MessageOrder ==
    ASSUME NEW k, NEW m, NEW n,
           k.at \in Times, m.at \in Times, n.at \in Times,
           k.id \in Nat, m.id \in Nat, n.id \in Nat
    PROVE  /\ ~TsIdLess(m, m)
           /\ TsIdLess(k, m) /\ TsIdLess(m, n) => TsIdLess(k, n)
           /\ \/ m.at = n.at /\ m.id = n.id
              \/ TsIdLess(m, n) \/ TsIdLess(n, m)
<1>1. Key(k.at) \in Seq(Nat) /\ Key(m.at) \in Seq(Nat) /\ Key(n.at) \in Seq(Nat)
  BY KeyType
<1>2. ~TsIdLess(m, m)
  BY <1>1, LexOrder DEF TsIdLess
<1>3. ASSUME TsIdLess(k, m), TsIdLess(m, n)
      PROVE  TsIdLess(k, n)
  <2>1. CASE k.at = m.at /\ k.id < m.id
    BY <1>3, <2>1 DEF TsIdLess
  <2>2. CASE LexLess(Key(k.at), Key(m.at)) /\ m.at = n.at
    BY <2>2 DEF TsIdLess
  <2>3. CASE LexLess(Key(k.at), Key(m.at)) /\ LexLess(Key(m.at), Key(n.at))
    BY <1>1, <2>3, LexOrder DEF TsIdLess
  <2>4. QED BY <1>3, <2>1, <2>2, <2>3 DEF TsIdLess
<1>4. \/ m.at = n.at /\ m.id = n.id
      \/ TsIdLess(m, n) \/ TsIdLess(n, m)
  BY KeysComparable DEF TsIdLess
<1>5. QED BY <1>2, <1>3, <1>4

\* The order of keys is that of times, but for the pairs that are cut short.
LEMMA KeysInTime ==
    ASSUME NEW m, NEW n, m.at \in Times, n.at \in Times, TsIdLess(m, n)
    PROVE  ~LexLess(n.at, m.at) \/ CutShort(n.at, m.at)
<1>1. CASE LexLess(Key(m.at), Key(n.at))
  BY <1>1, KeyOrder
<1>2. CASE m.at = n.at
  <2>1. m.at \in Seq(Nat)
    BY TimeShape DEF Times
  <2>2. QED BY <1>2, <2>1, LexOrder
<1>3. QED BY <1>1, <1>2 DEF TsIdLess
=================================================================================
