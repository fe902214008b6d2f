----------------------------- MODULE Z80Proofs -----------------------------
(***************************************************************************)
(* Proofs about the emulated processor: its timers and its arithmetic.     *)
(*                                                                         *)
(* Z80Timers, for any number of timers, counts, periods and speeds: the    *)
(* linked lists are sound, and they implement Alarms.  The invariant       *)
(* (Z80Inv) says that some sequence of entries for each list agrees with   *)
(* its links (Linked) and its deadlines (Timed).  A step is followed on    *)
(* the sequences, where an insertion is With and a removal is Without;     *)
(* what Listed reads of the links is the sequence itself.                  *)
(*                                                                         *)
(* Alu, for all bytes, pairs and flags: the macros, which find the flags   *)
(* from single bits, compute what arithmetic says, and the decimal         *)
(* adjustment corrects what any two decimal bytes were added or subtracted *)
(* to.  Large powers stay behind names (h for the weight of the sign bit,  *)
(* Word) and the arithmetic is that of any h, so that one argument serves  *)
(* bytes and pairs.                                                        *)
(***************************************************************************)
EXTENDS Z80Timers, Alu, SequenceTheorems, FiniteSetTheorems, WellFoundedInduction, TLAPS

-----------------------------------------------------------------------------
(* Induction, for a set of numbers.                                        *)

\* A set of numbers that is not empty has a least one.
LEMMA Least ==
  ASSUME NEW T \in SUBSET Nat, T # {}
  PROVE  \E x \in T : \A y \in T : x <= y
<1>1. \E x \in T : \A y \in T : ~(<<y, x>> \in OpToRel(<, Nat))
  BY NatLessThanWellFounded, WFMin, Zenon
<1>2. PICK x \in T : \A y \in T : ~(<<y, x>> \in OpToRel(<, Nat))
  BY <1>1
<1>3. \A y \in T : ~(y < x)
  BY <1>2, Zenon DEF OpToRel
<1>. QED  BY <1>3

\* A set of numbers that holds 0 and with a number the next holds them all.
LEMMA SetInduction ==
  ASSUME NEW T, 0 \in T, \A n \in Nat : n \in T => n + 1 \in T
  PROVE  \A n \in Nat : n \in T
<1>. SUFFICES ASSUME Nat \ T # {} PROVE FALSE
  OBVIOUS
<1>1. PICK x \in Nat \ T : \A y \in Nat \ T : x <= y
  BY Least
<1>2. x # 0 /\ x - 1 \in Nat
  BY <1>1
<1>3. x - 1 \in T
  BY <1>1, <1>2
<1>4. (x - 1) + 1 \in T
  BY <1>2, <1>3
<1>. QED  BY <1>1, <1>2, <1>4

-----------------------------------------------------------------------------
(* The entries of a list.                                                  *)

Links == 0..MaxTimers
Lists == {"cpu", "rt", "free"}

\* What Listed follows: the timers and the heads of the lists.
IsState(z) == z \in [timers : [Ids -> Timer], heads : [Lists -> Links]]

\* The function that Listed defines, cut off after k timers.
Follows(z, k, from) ==
  from = [n \in 0..k |-> [id \in Links |->
            IF n = 0 \/ id = 0 THEN <<>> ELSE <<id>> \o from[n - 1][z.timers[id].next]]]

\* The function of one more timer exists when that of k timers does,
LEMMA FollowsFurther ==
  ASSUME NEW z, NEW k \in Nat, NEW from, Follows(z, k, from)
  PROVE  \E further : Follows(z, k + 1, further)
<1>. DEFINE row(n) == [id \in Links |->
               IF n = 0 \/ id = 0 THEN <<>> ELSE <<id>> \o from[n - 1][z.timers[id].next]]
            further == [n \in 0..k + 1 |-> row(n)]
<1>1. from = [n \in 0..k |-> row(n)]
  BY Zenon DEF Follows
<1>2. \A n \in 0..k : further[n] = from[n]
  <2>. SUFFICES ASSUME NEW n \in 0..k PROVE further[n] = from[n]
    OBVIOUS
  <2>1. n \in 0..k + 1
    OBVIOUS
  <2>2. further[n] = row(n)
    BY <2>1, Zenon
  <2>. HIDE DEF row, further
  <2>3. from[n] = row(n)
    BY <1>1, Zenon
  <2>. QED  BY <2>2, <2>3
<1>3. \A n \in 0..k + 1 : n # 0 => n - 1 \in 0..k
  OBVIOUS
<1>4. ASSUME NEW n \in 0..k + 1
      PROVE  row(n) = [id \in Links |->
               IF n = 0 \/ id = 0 THEN <<>> ELSE <<id>> \o further[n - 1][z.timers[id].next]]
  <2>1. CASE n = 0
    BY <2>1
  <2>2. CASE n # 0
    <3>1. further[n - 1] = from[n - 1]
      BY <1>2, <1>3, <2>2
    <3>. HIDE DEF further
    <3>. QED  BY <3>1
  <2>. QED  BY <2>1, <2>2
<1>5. Follows(z, k + 1, further)
  <2>. DEFINE again == [n \in 0..k + 1 |-> [id \in Links |->
               IF n = 0 \/ id = 0 THEN <<>> ELSE <<id>> \o further[n - 1][z.timers[id].next]]]
  <2>1. further = again
    BY <1>4, Zenon
  <2>. QED  BY <2>1, Zenon DEF Follows
<1>. HIDE DEF further
<1>. QED  BY <1>5

\* so it exists for every number of timers.
LEMMA FollowsExists ==
  ASSUME NEW z, NEW k \in Nat
  PROVE  \E from : Follows(z, k, from)
<1>. DEFINE T == {n \in Nat : \E from : Follows(z, n, from)}
<1>1. 0 \in T
  <2>. DEFINE from == [n \in 0..0 |-> [id \in Links |-> <<>>]]
  <2>1. from = [n \in 0..0 |-> [id \in Links |->
            IF n = 0 \/ id = 0 THEN <<>> ELSE <<id>> \o from[n - 1][z.timers[id].next]]]
    <3>1. \A n \in 0..0 : n = 0
      OBVIOUS
    <3>. QED  BY <3>1
  <2>2. Follows(z, 0, from)
    BY <2>1, Zenon DEF Follows
  <2>. QED  BY <2>2
<1>2. \A n \in Nat : n \in T => n + 1 \in T
  BY FollowsFurther
<1>. HIDE DEF T
<1>3. k \in T
  BY <1>1, <1>2, SetInduction
<1>. QED  BY <1>3 DEF T

\* The list whose entries are those of s.
IsChain(z, head, s) ==
  /\ s \in Seq(Ids)
  /\ head = IF s = <<>> THEN 0 ELSE s[1]
  /\ \A k \in 1..Len(s) : z.timers[s[k]].next = IF k = Len(s) THEN 0 ELSE s[k + 1]
  /\ \A j, k \in 1..Len(s) : s[j] = s[k] => j = k

\* Different entries are no more than there are timers.
LEMMA ChainLength ==
  ASSUME NEW s \in Seq(Ids), \A j, k \in 1..Len(s) : s[j] = s[k] => j = k
  PROVE  Len(s) \in 0..MaxTimers
<1>0. MaxTimers \in Nat /\ Len(s) \in Nat
  BY TimersAssumption DEF TimersAssumption
<1>1. IsFiniteSet(Ids) /\ Cardinality(Ids) = MaxTimers
  BY <1>0, FS_Interval DEF Ids
<1>2. Cardinality(1..Len(s)) = Len(s)
  <2>1. \A n \in Nat : Cardinality(1..n) = IF 1 > n THEN 0 ELSE n - 1 + 1
    BY FS_Interval
  <2>2. \A n \in Nat : Cardinality(1..n) = n
    BY <2>1
  <2>. QED  BY <1>0, <2>2
<1>3. s \in Injection(1..Len(s), Ids)
  BY <1>0 DEF Injection, IsInjective
<1>4. Cardinality(1..Len(s)) <= Cardinality(Ids)
  BY <1>1, <1>3, FS_Injection
<1>. QED  BY <1>0, <1>1, <1>2, <1>4

\* Listed lists them.
LEMMA ListedChain ==
  ASSUME NEW z, IsState(z), NEW list \in Lists, NEW s, IsChain(z, z.heads[list], s)
  PROVE  Listed(z, list) = s
<1>. DEFINE from == CHOOSE f : Follows(z, MaxTimers, f)
            N == Len(s)
            rest(k) == [j \in 1..N - k |-> s[k + j]]
            entry(k) == IF k = N THEN 0 ELSE s[k + 1]
            T == {m \in Nat : m <= N => \A n \in m..MaxTimers :
                                from[n][entry(N - m)] = rest(N - m)}
<1>0. MaxTimers \in Nat /\ N \in 0..MaxTimers /\ N \in Nat /\ s \in Seq(Ids)
  BY TimersAssumption, ChainLength DEF TimersAssumption, IsChain
<1>1. Follows(z, MaxTimers, from)
  BY <1>0, FollowsExists
<1>2. Listed(z, list) = from[MaxTimers][z.heads[list]]
  BY Zenon DEF Listed, Follows, Links
<1>. HIDE DEF from
<1>3. \A n \in 0..MaxTimers, id \in Links :
         from[n][id] = IF n = 0 \/ id = 0 THEN <<>>
                       ELSE <<id>> \o from[n - 1][z.timers[id].next]
  <2>. SUFFICES ASSUME NEW n \in 0..MaxTimers, NEW id \in Links
                PROVE  from[n][id] = IF n = 0 \/ id = 0 THEN <<>>
                         ELSE <<id>> \o from[n - 1][z.timers[id].next]
    OBVIOUS
  <2>1. from[n] = [i \in Links |-> IF n = 0 \/ i = 0 THEN <<>>
                                   ELSE <<i>> \o from[n - 1][z.timers[i].next]]
    BY <1>1, Zenon DEF Follows
  <2>. QED  BY <2>1
<1>4. 0 \in T
  <2>1. \A n \in 0..MaxTimers : from[n][0] = <<>>
    <3>1. 0 \in Links
      BY <1>0 DEF Links
    <3>. QED  BY <1>3, <3>1
  <2>2. rest(N) = <<>>
    BY <1>0
  <2>. QED  BY <1>0, <2>1, <2>2
<1>5. ASSUME NEW m \in Nat, m \in T, m + 1 <= N, NEW n \in m + 1..MaxTimers
      PROVE  from[n][entry(N - (m + 1))] = rest(N - (m + 1))
  <2>. DEFINE k == N - (m + 1)
  <2>1. k \in Nat /\ k + 1 \in 1..N /\ k < N /\ N - m = k + 1
    BY <1>0, <1>5
  <2>2. s[k + 1] \in Ids /\ s[k + 1] \in Links /\ s[k + 1] # 0
    BY <1>0, <2>1, ElementOfSeq DEF Ids, Links
  <2>3. z.timers[s[k + 1]].next = entry(k + 1)
    BY <1>0, <2>1 DEF IsChain
  <2>4. from[n - 1][entry(k + 1)] = rest(k + 1)
    <3>1. m <= N /\ n - 1 \in m..MaxTimers
      BY <1>0, <1>5
    <3>. HIDE DEF rest, entry, N, k
    <3>2. from[n - 1][entry(N - m)] = rest(N - m)
      BY <1>5, <3>1
    <3>. QED  BY <2>1, <3>2
  <2>5. entry(k) = s[k + 1]
    <3>1. k # N
      <4>. HIDE DEF N, k
      <4>. QED  BY <1>0, <2>1
    <3>. HIDE DEF N, k
    <3>. QED  BY <3>1
  <2>6. n \in 0..MaxTimers /\ n # 0
    BY <1>0, <1>5
  <2>. HIDE DEF rest, entry, k
  <2>7. from[n][entry(k)] = <<s[k + 1]>> \o rest(k + 1)
    BY <1>3, <2>2, <2>3, <2>4, <2>5, <2>6
  <2>8. <<s[k + 1]>> \o rest(k + 1) = rest(k)
    <3>. DEFINE one == <<s[k + 1]>>
                more == rest(k + 1)
    <3>1. \A j \in 1..N - (k + 1) : k + 1 + j \in 1..N
      BY <1>0, <2>1
    <3>2. more \in Seq(Ids) /\ Len(more) = N - (k + 1)
      <4>1. \A j \in 1..N - (k + 1) : s[k + 1 + j] \in Ids
        BY <1>0, <3>1, ElementOfSeq
      <4>2. N - (k + 1) \in Nat
        BY <1>0, <2>1
      <4>3. more = [j \in 1..N - (k + 1) |-> s[k + 1 + j]]
        BY DEF rest
      <4>. HIDE DEF N
      <4>. QED  BY <4>1, <4>2, <4>3
    <3>3. one \in Seq(Ids) /\ Len(one) = 1 /\ one[1] = s[k + 1]
      BY <2>2
    <3>4. \A j \in 1..N - k : k + j \in 1..N
      BY <1>0, <2>1
    <3>5. rest(k) \in Seq(Ids) /\ Len(rest(k)) = N - k
      <4>1. \A j \in 1..N - k : s[k + j] \in Ids
        BY <1>0, <3>4, ElementOfSeq
      <4>2. N - k \in Nat
        BY <1>0, <2>1
      <4>3. rest(k) = [j \in 1..N - k |-> s[k + j]]
        BY DEF rest
      <4>. HIDE DEF N
      <4>. QED  BY <4>1, <4>2, <4>3
    <3>6. \A j \in 1..N - (k + 1) : more[j] = s[k + 1 + j]
      BY DEF rest
    <3>7. \A j \in 1..N - k : rest(k)[j] = s[k + j]
      BY DEF rest
    <3>. HIDE DEF one, more
    <3>8. /\ one \o more \in Seq(Ids) /\ Len(one \o more) = 1 + Len(more)
          /\ \A j \in 1..1 + Len(more) :
               (one \o more)[j] = IF j <= 1 THEN one[j] ELSE more[j - 1]
      <4>1. /\ one \o more \in Seq(Ids) /\ Len(one \o more) = Len(one) + Len(more)
            /\ \A j \in 1..Len(one) + Len(more) :
                 (one \o more)[j] = IF j <= Len(one) THEN one[j] ELSE more[j - Len(one)]
        BY <3>2, <3>3, ConcatProperties
      <4>. QED  BY <3>3, <4>1
    <3>9. Len(one \o more) = N - k
      BY <1>0, <2>1, <3>2, <3>8
    <3>10. ASSUME NEW j \in 1..N - k PROVE (one \o more)[j] = rest(k)[j]
      <4>1. CASE j = 1
        BY <1>0, <2>1, <3>2, <3>3, <3>7, <3>8, <4>1
      <4>2. CASE j # 1
        <5>1. j - 1 \in 1..N - (k + 1) /\ k + 1 + (j - 1) = k + j
          BY <1>0, <2>1, <4>2
        <5>2. (one \o more)[j] = more[j - 1]
          BY <1>0, <2>1, <3>2, <3>8, <4>2
        <5>. QED  BY <3>6, <3>7, <5>1, <5>2
      <4>. QED  BY <4>1, <4>2
    <3>11. one \o more = rest(k)
      BY <3>5, <3>8, <3>9, <3>10, SeqEqual
    <3>. QED  BY <3>11 DEF one, more
  <2>. QED  BY <2>7, <2>8 DEF k
<1>6. \A m \in Nat : m \in T => m + 1 \in T
  <2>. SUFFICES ASSUME NEW m \in Nat, m \in T PROVE m + 1 \in T
    OBVIOUS
  <2>. HIDE DEF rest, entry, N
  <2>. QED  BY <1>5
<1>. HIDE DEF T
<1>7. N \in T
  BY <1>0, <1>4, <1>6, SetInduction
<1>. USE DEF T
<1>8. from[MaxTimers][entry(0)] = rest(0)
  <2>1. MaxTimers \in N..MaxTimers /\ N - N = 0 /\ N <= N
    BY <1>0
  <2>. HIDE DEF rest, entry, N
  <2>. QED  BY <1>7, <2>1
<1>9. entry(0) = z.heads[list]
  <2>1. s = <<>> <=> N = 0
    BY <1>0
  <2>. QED  BY <1>0, <2>1 DEF IsChain
<1>10. rest(0) = s
  <2>1. rest(0) = [j \in 1..N |-> s[j]]
    BY <1>0
  <2>2. s \in [1..N -> Ids]
    BY <1>0, LenProperties
  <2>. HIDE DEF rest, N
  <2>. QED  BY <2>1, <2>2
<1>. HIDE DEF rest, entry
<1>. QED  BY <1>2, <1>8, <1>9, <1>10

-----------------------------------------------------------------------------
(* What the lists are: one sequence of entries for each.                   *)

Entries(q) == {q[k] : k \in 1..Len(q)}

Before(q, k) == IF k = 1 THEN 0 ELSE q[k - 1]
After(q, k) == IF k = Len(q) THEN 0 ELSE q[k + 1]
First(q) == IF Len(q) = 0 THEN 0 ELSE q[1]
Distinct(q) == \A j, k \in 1..Len(q) : q[j] = q[k] => j = k

\* The links of the entries of a list, both ways.
Onward(z, head, q) ==
  /\ head = First(q)
  /\ \A k \in 1..Len(q) : z.timers[q[k]].next = After(q, k)
Backward(z, q) == \A k \in 1..Len(q) : z.timers[q[k]].prev = Before(q, k)

Linked(z, s) ==
  /\ IsState(z)
  /\ s \in [Lists -> Seq(Ids)]
  /\ \A list \in Lists : Distinct(s[list]) /\ Onward(z, z.heads[list], s[list])
  /\ \A list \in {"cpu", "rt"} : Backward(z, s[list])
  /\ \A l, m \in Lists : l # m => Entries(s[l]) \cap Entries(s[m]) = {}
  /\ \A id \in Ids :
       /\ id \notin Entries(s["cpu"]) \cup Entries(s["rt"]) => z.timers[id].prev = 0
       /\ id \notin Entries(s["cpu"]) \cup Entries(s["rt"]) \cup Entries(s["free"])
            => z.timers[id].next = 0

\* A sequence without its pth element, and with one more as its pth.
Without(q, p) == [k \in 1..Len(q) - 1 |-> IF k < p THEN q[k] ELSE q[k + 1]]
With(q, p, id) == [k \in 1..Len(q) + 1 |->
                     IF k < p THEN q[k] ELSE IF k = p THEN id ELSE q[k - 1]]

\* A sequence without its pth element has the same entries but one,
LEMMA WithoutProperties ==
  ASSUME NEW q \in Seq(Ids), NEW p \in 1..Len(q), Distinct(q)
  PROVE  /\ Without(q, p) \in Seq(Ids) /\ Len(Without(q, p)) = Len(q) - 1
         /\ \A k \in 1..Len(q) - 1 : Without(q, p)[k] = IF k < p THEN q[k] ELSE q[k + 1]
         /\ Distinct(Without(q, p))
         /\ Entries(Without(q, p)) = Entries(q) \ {q[p]}
<1>. DEFINE N == Len(q)
            w == Without(q, p)
<1>0. N \in Nat /\ N - 1 \in Nat /\ p \in Nat /\ p <= N /\ 1 <= p
  OBVIOUS
<1>1. \A k \in 1..N : q[k] \in Ids
  BY ElementOfSeq
<1>2. \A k \in 1..N - 1 : k \in 1..N /\ k + 1 \in 1..N
  BY <1>0
<1>3. w = [k \in 1..N - 1 |-> IF k < p THEN q[k] ELSE q[k + 1]]
  BY DEF Without
<1>. HIDE DEF N, w
<1>4. w \in [1..N - 1 -> Ids]
  BY <1>1, <1>2, <1>3
<1>5. w \in Seq(Ids) /\ Len(w) = N - 1
  BY <1>0, <1>4
<1>6. \A k \in 1..N - 1 : w[k] = IF k < p THEN q[k] ELSE q[k + 1]
  BY <1>3
<1>7. Distinct(w)
  <2>. SUFFICES ASSUME NEW j \in 1..N - 1, NEW k \in 1..N - 1, w[j] = w[k] PROVE j = k
    BY <1>5 DEF Distinct
  <2>1. \A i, n \in 1..N : q[i] = q[n] => i = n
    BY DEF Distinct, N
  <2>2. j \in Int /\ k \in Int /\ p \in Int
    BY <1>0
  <2>3. w[j] = (IF j < p THEN q[j] ELSE q[j + 1]) /\ w[k] = (IF k < p THEN q[k] ELSE q[k + 1])
    BY <1>6
  <2>4. CASE j < p /\ k < p
    BY <1>2, <2>1, <2>3, <2>4
  <2>5. CASE j < p /\ ~(k < p)
    <3>1. j = k + 1
      BY <1>2, <2>1, <2>3, <2>5
    <3>. QED  BY <2>2, <2>5, <3>1
  <2>6. CASE ~(j < p) /\ k < p
    <3>1. j + 1 = k
      BY <1>2, <2>1, <2>3, <2>6
    <3>. QED  BY <2>2, <2>6, <3>1
  <2>7. CASE ~(j < p) /\ ~(k < p)
    <3>1. j + 1 = k + 1
      BY <1>2, <2>1, <2>3, <2>7
    <3>. QED  BY <2>2, <3>1
  <2>. QED  BY <2>4, <2>5, <2>6, <2>7
<1>8. Entries(w) = Entries(q) \ {q[p]}
  <2>1. \A k \in 1..N - 1 : w[k] \in Entries(q) /\ w[k] # q[p]
    <3>. SUFFICES ASSUME NEW k \in 1..N - 1 PROVE w[k] \in Entries(q) /\ w[k] # q[p]
      OBVIOUS
    <3>1. \A i, n \in 1..N : q[i] = q[n] => i = n
      BY DEF Distinct, N
    <3>2. Entries(q) = {q[n] : n \in 1..N} /\ k \in Int /\ p \in 1..N /\ p \in Int
      BY <1>0 DEF Entries, N
    <3>3. CASE k < p
      BY <1>2, <1>6, <3>1, <3>2, <3>3
    <3>4. CASE ~(k < p)
      <4>1. w[k] = q[k + 1] /\ k + 1 \in 1..N /\ k + 1 # p
        BY <1>2, <1>6, <3>2, <3>4
      <4>. QED  BY <3>1, <3>2, <4>1
    <3>. QED  BY <3>3, <3>4
  <2>2. \A n \in 1..N : n # p => q[n] \in Entries(w)
    <3>. SUFFICES ASSUME NEW n \in 1..N, n # p PROVE q[n] \in Entries(w)
      OBVIOUS
    <3>1. CASE n < p
      <4>1. n \in 1..N - 1 /\ w[n] = q[n]
        BY <1>0, <1>6, <3>1
      <4>. QED  BY <1>5, <4>1 DEF Entries
    <3>2. CASE ~(n < p)
      <4>1. n - 1 \in 1..N - 1 /\ ~(n - 1 < p) /\ (n - 1) + 1 = n
        BY <1>0, <3>2
      <4>2. w[n - 1] = q[n]
        BY <1>6, <4>1
      <4>. QED  BY <1>5, <4>1, <4>2 DEF Entries
    <3>. QED  BY <3>1, <3>2
  <2>3. Entries(w) = {w[k] : k \in 1..N - 1} /\ Entries(q) = {q[n] : n \in 1..N}
    BY <1>5 DEF Entries, N
  <2>. QED  BY <2>1, <2>2, <2>3
<1>. QED  BY <1>5, <1>6, <1>7, <1>8 DEF N, w

\* and with one more has one entry more; both stay free of repetitions.
LEMMA WithProperties ==
  ASSUME NEW q \in Seq(Ids), NEW p \in 1..Len(q) + 1, NEW id \in Ids, Distinct(q),
         id \notin Entries(q)
  PROVE  /\ With(q, p, id) \in Seq(Ids) /\ Len(With(q, p, id)) = Len(q) + 1
         /\ \A k \in 1..Len(q) + 1 :
              With(q, p, id)[k] = IF k < p THEN q[k] ELSE IF k = p THEN id ELSE q[k - 1]
         /\ Distinct(With(q, p, id))
         /\ Entries(With(q, p, id)) = Entries(q) \cup {id}
<1>. DEFINE N == Len(q)
            w == With(q, p, id)
<1>0. N \in Nat /\ N + 1 \in Nat /\ p \in Nat /\ p <= N + 1 /\ 1 <= p
  OBVIOUS
<1>1. \A k \in 1..N : q[k] \in Ids /\ q[k] # id
  BY ElementOfSeq DEF Entries
<1>2. \A k \in 1..N + 1 : (k < p => k \in 1..N) /\ (k > p => k - 1 \in 1..N)
  BY <1>0
<1>3. w = [k \in 1..N + 1 |-> IF k < p THEN q[k] ELSE IF k = p THEN id ELSE q[k - 1]]
  BY DEF With
<1>. HIDE DEF N, w
<1>4. w \in [1..N + 1 -> Ids]
  <2>1. \A k \in 1..N + 1 :
           (IF k < p THEN q[k] ELSE IF k = p THEN id ELSE q[k - 1]) \in Ids
    BY <1>0, <1>1, <1>2
  <2>. QED  BY <1>3, <2>1
<1>5. w \in Seq(Ids) /\ Len(w) = N + 1
  BY <1>0, <1>4
<1>6. \A k \in 1..N + 1 : w[k] = IF k < p THEN q[k] ELSE IF k = p THEN id ELSE q[k - 1]
  BY <1>3
<1>7. Distinct(w)
  <2>. SUFFICES ASSUME NEW j \in 1..N + 1, NEW k \in 1..N + 1, w[j] = w[k], j <= k PROVE j = k
    BY <1>0, <1>5 DEF Distinct
  <2>1. \A i, n \in 1..N : q[i] = q[n] => i = n
    BY DEF Distinct, N
  <2>2. j \in Int /\ k \in Int /\ p \in Int
    BY <1>0
  <2>3. CASE k < p
    BY <1>2, <1>6, <2>1, <2>2, <2>3
  <2>4. CASE k = p
    <3>1. CASE j < p
      BY <1>1, <1>2, <1>6, <2>2, <2>4, <3>1
    <3>. QED  BY <2>2, <2>4, <3>1
  <2>5. CASE k > p /\ j < p
    <3>1. w[j] = q[j] /\ w[k] = q[k - 1] /\ j \in 1..N /\ k - 1 \in 1..N
      BY <1>2, <1>6, <2>2, <2>5
    <3>2. j = k - 1
      BY <2>1, <3>1
    <3>. QED  BY <2>2, <2>5, <3>2
  <2>6. CASE k > p /\ j = p
    <3>1. w[j] = id /\ w[k] = q[k - 1] /\ k - 1 \in 1..N
      BY <1>2, <1>6, <2>2, <2>6
    <3>. QED  BY <1>1, <3>1
  <2>7. CASE k > p /\ j > p
    <3>1. w[j] = q[j - 1] /\ w[k] = q[k - 1] /\ j - 1 \in 1..N /\ k - 1 \in 1..N
      BY <1>2, <1>6, <2>2, <2>7
    <3>2. j - 1 = k - 1
      BY <2>1, <3>1
    <3>. QED  BY <2>2, <3>2
  <2>. QED  BY <2>2, <2>3, <2>4, <2>5, <2>6, <2>7
<1>8. Entries(w) = Entries(q) \cup {id}
  <2>1. \A k \in 1..N + 1 : w[k] \in Entries(q) \cup {id}
    <3>1. Entries(q) = {q[n] : n \in 1..N}
      BY DEF Entries, N
    <3>. QED  BY <1>0, <1>2, <1>6, <3>1
  <2>2. \A n \in 1..N : q[n] \in Entries(w)
    <3>. SUFFICES ASSUME NEW n \in 1..N PROVE q[n] \in Entries(w)
      OBVIOUS
    <3>1. CASE n < p
      <4>1. n \in 1..N + 1 /\ w[n] = q[n]
        BY <1>0, <1>6, <3>1
      <4>. QED  BY <1>5, <4>1 DEF Entries
    <3>2. CASE ~(n < p)
      <4>1. n + 1 \in 1..N + 1 /\ ~(n + 1 < p) /\ n + 1 # p /\ (n + 1) - 1 = n
        BY <1>0, <3>2
      <4>2. w[n + 1] = q[n]
        BY <1>6, <4>1
      <4>. QED  BY <1>5, <4>1, <4>2 DEF Entries
    <3>. QED  BY <3>1, <3>2
  <2>3. id \in Entries(w)
    <3>1. p \in 1..N + 1 /\ w[p] = id
      BY <1>0, <1>6
    <3>. QED  BY <1>5, <3>1 DEF Entries
  <2>4. Entries(w) = {w[k] : k \in 1..N + 1} /\ Entries(q) = {q[n] : n \in 1..N}
    BY <1>5 DEF Entries, N
  <2>. QED  BY <2>1, <2>2, <2>3, <2>4
<1>. QED  BY <1>5, <1>6, <1>7, <1>8 DEF N, w

\* The sequences are the lists.
LEMMA LinkedListed ==
  ASSUME NEW z, NEW s, Linked(z, s), NEW list \in Lists
  PROVE  Listed(z, list) = s[list]
<1>. DEFINE q == s[list]
<1>1. q \in Seq(Ids) /\ Distinct(q) /\ Onward(z, z.heads[list], q) /\ IsState(z)
  BY DEF Linked
<1>. HIDE DEF q
<1>2. q = <<>> <=> Len(q) = 0
  BY <1>1
<1>3. IsChain(z, z.heads[list], q)
  BY <1>1, <1>2 DEF IsChain, Onward, Distinct, First, After
<1>. QED  BY <1>1, <1>3, ListedChain DEF q

\* Every entry has a place in its list, and the last has nothing behind it.
LEMMA Neighbours ==
  ASSUME NEW q \in Seq(Ids), Distinct(q), NEW p \in 1..Len(q)
  PROVE  /\ q[p] \in Ids /\ q[p] \in Entries(q)
         /\ Before(q, p) \in Links /\ After(q, p) \in Links
         /\ Before(q, p) # 0 => p # 1 /\ Before(q, p) = q[p - 1] /\ p - 1 \in 1..Len(q)
         /\ After(q, p) # 0 => p # Len(q) /\ After(q, p) = q[p + 1] /\ p + 1 \in 1..Len(q)
         /\ p = 1 <=> Before(q, p) = 0
         /\ p = Len(q) <=> After(q, p) = 0
<1>1. \A k \in 1..Len(q) : q[k] \in Ids /\ q[k] \in Links /\ q[k] # 0
  <2>1. Ids \subseteq Links /\ 0 \notin Ids
    BY TimersAssumption DEF TimersAssumption, Ids, Links
  <2>. QED  BY <2>1, ElementOfSeq
<1>2. (p # 1 => p - 1 \in 1..Len(q)) /\ (p # Len(q) => p + 1 \in 1..Len(q))
  OBVIOUS
<1>3. 0 \in Links
  BY TimersAssumption DEF TimersAssumption, Links
<1>. QED  BY <1>1, <1>2, <1>3 DEF Before, After, Entries

\* A state is known by its fields.
LEMMA StateTypes ==
  ASSUME NEW z, IsState(z)
  PROVE  /\ \A id \in Ids : /\ z.timers[id] \in Timer
                            /\ z.timers[id].next \in Links /\ z.timers[id].prev \in Links
                            /\ z.timers[id].left \in Int /\ z.timers[id].period \in Nat
         /\ \A list \in Lists : z.heads[list] \in Links
         /\ 0 \notin Ids /\ 0 \in Links /\ Ids \subseteq Links
<1>1. \A t \in Timer : t.next \in Links /\ t.prev \in Links /\ t.left \in Int /\ t.period \in Nat
  BY DEF Timer, Links
<1>. QED  BY <1>1, TimersAssumption DEF IsState, Ids, Links, TimersAssumption

-----------------------------------------------------------------------------
(* What the functions on the lists do, entry by entry.                     *)

\* y is z with two entries joined and nothing else touched.
Joined(y, z, prev, next) ==
  /\ IsState(y) /\ y.heads = z.heads
  /\ \A id \in Ids :
       /\ y.timers[id].next = IF id = prev THEN next ELSE z.timers[id].next
       /\ y.timers[id].prev = IF id = next THEN prev ELSE z.timers[id].prev
       /\ y.timers[id].left = z.timers[id].left
       /\ y.timers[id].period = z.timers[id].period

\* link joins two entries.
LEMMA LinkFields ==
  ASSUME NEW z, IsState(z), NEW prev \in Links, NEW next \in Links,
         NEW y, y = link(z, prev, next)
  PROVE  Joined(y, z, prev, next)
<1>. DEFINE n(id) == IF id = prev THEN next ELSE z.timers[id].next
            v(id) == IF id = next THEN prev ELSE z.timers[id].prev
            new == [id \in Ids |-> [z.timers[id] EXCEPT !.next = n(id), !.prev = v(id)]]
<1>1. \A id \in Ids : z.timers[id] \in Timer /\ n(id) \in Links /\ v(id) \in Links
  BY StateTypes
<1>2. y = [z EXCEPT !.timers = new]
  BY Zenon DEF link
<1>. HIDE DEF n, v
<1>3. \A id \in Ids :
        /\ new[id] \in Timer /\ new[id].next = n(id) /\ new[id].prev = v(id)
        /\ new[id].left = z.timers[id].left /\ new[id].period = z.timers[id].period
  <2>. SUFFICES ASSUME NEW id \in Ids
                PROVE  /\ new[id] \in Timer /\ new[id].next = n(id) /\ new[id].prev = v(id)
                       /\ new[id].left = z.timers[id].left
                       /\ new[id].period = z.timers[id].period
    OBVIOUS
  <2>1. new[id] = [z.timers[id] EXCEPT !.next = n(id), !.prev = v(id)]
    OBVIOUS
  <2>. HIDE DEF new
  <2>2. z.timers[id] \in Timer /\ n(id) \in Links /\ v(id) \in Links
    BY <1>1
  <2>. QED  BY <2>1, <2>2 DEF Timer, Links
<1>4. new \in [Ids -> Timer]
  BY <1>3
<1>. HIDE DEF new
<1>5. y.timers = new /\ y.heads = z.heads /\ IsState(y)
  BY <1>2, <1>4 DEF IsState
<1>. QED  BY <1>3, <1>5 DEF n, v, Joined

\* timer_unset joins the neighbours of the entry, and clears it.
LEMMA UnsetFields ==
  ASSUME NEW z, IsState(z), NEW tmr \in Ids
  PROVE  /\ IsState(timer_unset(z, tmr))
         /\ \A list \in Lists :
              timer_unset(z, tmr).heads[list] =
                IF list # "free" /\ z.heads[list] = tmr THEN z.timers[tmr].next ELSE z.heads[list]
         /\ timer_unset(z, tmr).timers[tmr] = Stopped
         /\ \A id \in Ids \ {tmr} :
              /\ timer_unset(z, tmr).timers[id].next =
                   IF id = z.timers[tmr].prev THEN z.timers[tmr].next ELSE z.timers[id].next
              /\ timer_unset(z, tmr).timers[id].prev =
                   IF id = z.timers[tmr].next THEN z.timers[tmr].prev ELSE z.timers[id].prev
              /\ timer_unset(z, tmr).timers[id].left = z.timers[id].left
              /\ timer_unset(z, tmr).timers[id].period = z.timers[id].period
<1>. DEFINE prev == z.timers[tmr].prev
            next == z.timers[tmr].next
            l == link(z, prev, next)
            heads1 == [list \in Lists |->
                        IF list # "free" /\ l.heads[list] = tmr THEN next ELSE l.heads[list]]
            y == timer_unset(z, tmr)
<1>1. prev \in Links /\ next \in Links
  BY StateTypes
<1>2. /\ IsState(l) /\ l.heads = z.heads
      /\ \A id \in Ids :
              /\ l.timers[id].next = IF id = prev THEN next ELSE z.timers[id].next
              /\ l.timers[id].prev = IF id = next THEN prev ELSE z.timers[id].prev
              /\ l.timers[id].left = z.timers[id].left
              /\ l.timers[id].period = z.timers[id].period
  <2>1. l = link(z, prev, next)
    OBVIOUS
  <2>. HIDE DEF prev, next, l
  <2>2. Joined(l, z, prev, next)
    BY <1>1, <2>1, LinkFields
  <2>. QED  BY <2>2 DEF Joined
<1>3. DOMAIN l.heads = Lists
  BY <1>2 DEF IsState
<1>4. y = [l EXCEPT !.heads = [list \in DOMAIN l.heads |->
                        IF list # "free" /\ l.heads[list] = tmr THEN next ELSE l.heads[list]],
                    !.timers[tmr] = Stopped]
  BY Zenon DEF timer_unset
<1>5. Stopped \in Timer
  BY StateTypes DEF Stopped, Timer, Links
<1>. HIDE DEF l, y, prev, next
<1>6. y = [l EXCEPT !.heads = heads1, !.timers[tmr] = Stopped]
  BY <1>3, <1>4
<1>7. heads1 \in [Lists -> Links]
  BY <1>1, <1>2 DEF IsState
<1>8. l.timers \in [Ids -> Timer] /\ l \in [timers : [Ids -> Timer], heads : [Lists -> Links]]
  BY <1>2 DEF IsState
<1>. HIDE DEF heads1
<1>9. y.heads = heads1 /\ y.timers = [l.timers EXCEPT ![tmr] = Stopped]
  BY <1>6, <1>8
<1>10. IsState(y)
  <2>1. [l.timers EXCEPT ![tmr] = Stopped] \in [Ids -> Timer]
    BY <1>5, <1>8
  <2>2. y = [timers |-> y.timers, heads |-> y.heads]
    BY <1>6, <1>8
  <2>. QED  BY <1>7, <1>9, <2>1, <2>2 DEF IsState
<1>11. y.timers[tmr] = Stopped /\ \A id \in Ids \ {tmr} : y.timers[id] = l.timers[id]
  BY <1>8, <1>9
<1>12. \A list \in Lists :
          y.heads[list] = IF list # "free" /\ z.heads[list] = tmr THEN next ELSE z.heads[list]
  BY <1>2, <1>9 DEF heads1
<1>. QED  BY <1>2, <1>10, <1>11, <1>12 DEF y, prev, next

\* A list that keeps its links is the same list.
LEMMA SameLinks ==
  ASSUME NEW z, NEW y, NEW head, NEW q \in Seq(Ids)
  PROVE  /\ (\A id \in Entries(q) : y.timers[id].next = z.timers[id].next)
              => (Onward(z, head, q) => Onward(y, head, q))
         /\ (\A id \in Entries(q) : y.timers[id].prev = z.timers[id].prev)
              => (Backward(z, q) => Backward(y, q))
BY DEF Onward, Backward, Entries

\* An entry of one list is in no other one.
LEMMA OneList ==
  ASSUME NEW z, NEW s, Linked(z, s), NEW l \in Lists, NEW m \in Lists, l # m,
         NEW p \in 1..Len(s[l]), NEW k \in 1..Len(s[m])
  PROVE  s[l][p] # s[m][k] /\ s[l][p] \notin Entries(s[m])
<1>1. Entries(s[l]) \cap Entries(s[m]) = {}
  BY DEF Linked
<1>. QED  BY <1>1 DEF Entries

\* Taking the pth entry out of a list leaves the lists linked.
LEMMA UnsetRunning ==
  ASSUME NEW z, NEW s, Linked(z, s), NEW l \in {"cpu", "rt"}, NEW p \in 1..Len(s[l])
  PROVE  Linked(timer_unset(z, s[l][p]), [s EXCEPT ![l] = Without(s[l], p)])
<1>. DEFINE q == s[l]
            tmr == q[p]
            y == timer_unset(z, tmr)
            w == Without(q, p)
            t == [s EXCEPT ![l] = w]
<1>0. /\ IsState(z) /\ l \in Lists /\ s \in [Lists -> Seq(Ids)] /\ q \in Seq(Ids)
      /\ Distinct(q) /\ Onward(z, z.heads[l], q) /\ Backward(z, q)
  BY DEF Linked, Lists
<1>1. z.timers[tmr].next = After(q, p) /\ z.timers[tmr].prev = Before(q, p)
  BY <1>0 DEF Onward, Backward
<1>2. /\ tmr \in Ids /\ tmr \in Entries(q)
      /\ Before(q, p) \in Links /\ After(q, p) \in Links
      /\ Before(q, p) # 0 => p # 1 /\ Before(q, p) = q[p - 1] /\ p - 1 \in 1..Len(q)
      /\ After(q, p) # 0 => p # Len(q) /\ After(q, p) = q[p + 1] /\ p + 1 \in 1..Len(q)
      /\ p = 1 <=> Before(q, p) = 0
      /\ p = Len(q) <=> After(q, p) = 0
  BY <1>0, Neighbours
<1>3. /\ w \in Seq(Ids) /\ Len(w) = Len(q) - 1
      /\ \A k \in 1..Len(q) - 1 : w[k] = IF k < p THEN q[k] ELSE q[k + 1]
      /\ Distinct(w)
      /\ Entries(w) = Entries(q) \ {tmr}
  BY <1>0, WithoutProperties
<1>4. t \in [Lists -> Seq(Ids)] /\ t[l] = w /\ \A m \in Lists : m # l => t[m] = s[m]
  BY <1>0, <1>3
<1>5. /\ IsState(y)
      /\ \A list \in Lists :
           y.heads[list] = IF list # "free" /\ z.heads[list] = tmr THEN After(q, p) ELSE z.heads[list]
      /\ y.timers[tmr] = Stopped
      /\ \A id \in Ids \ {tmr} :
              /\ y.timers[id].next = IF id = Before(q, p) THEN After(q, p) ELSE z.timers[id].next
              /\ y.timers[id].prev = IF id = After(q, p) THEN Before(q, p) ELSE z.timers[id].prev
  <2>. HIDE DEF q, tmr
  <2>1. /\ IsState(y)
        /\ \A list \in Lists :
             y.heads[list] = IF list # "free" /\ z.heads[list] = tmr THEN z.timers[tmr].next
                             ELSE z.heads[list]
        /\ y.timers[tmr] = Stopped
        /\ \A id \in Ids \ {tmr} :
             /\ y.timers[id].next = IF id = z.timers[tmr].prev THEN z.timers[tmr].next
                                    ELSE z.timers[id].next
             /\ y.timers[id].prev = IF id = z.timers[tmr].next THEN z.timers[tmr].prev
                                    ELSE z.timers[id].prev
    <3>1. IsState(z) /\ tmr \in Ids
      BY <1>0, <1>2
    <3>. HIDE DEF y
    <3>2. y = timer_unset(z, tmr)
      BY DEF y
    <3>3. IsState(y)
      BY <3>1, <3>2, UnsetFields
    <3>4. \A list \in Lists :
             y.heads[list] = IF list # "free" /\ z.heads[list] = tmr THEN z.timers[tmr].next
                             ELSE z.heads[list]
      BY <3>1, <3>2, UnsetFields
    <3>5. y.timers[tmr] = Stopped
      BY <3>1, <3>2, UnsetFields
    <3>6. \A id \in Ids \ {tmr} :
             /\ y.timers[id].next = IF id = z.timers[tmr].prev THEN z.timers[tmr].next
                                    ELSE z.timers[id].next
             /\ y.timers[id].prev = IF id = z.timers[tmr].next THEN z.timers[tmr].prev
                                    ELSE z.timers[id].prev
      BY <3>1, <3>2, UnsetFields
    <3>. QED  BY <3>3, <3>4, <3>5, <3>6
  <2>. HIDE DEF y
  <2>. QED  BY <1>1, <2>1
<1>6. 0 \notin Ids /\ \A k \in 1..Len(q) : q[k] \in Ids /\ q[k] # 0
  BY <1>0, StateTypes, ElementOfSeq
<1>. HIDE DEF y, w, t, tmr
<1>7. \A k \in 1..Len(w) : w[k] \in Ids \ {tmr}
  <2>1. \A k \in 1..Len(w) : w[k] \in Entries(w) /\ w[k] \in Ids
    BY <1>3, ElementOfSeq DEF Entries
  <2>. QED  BY <1>3, <2>1
<1>8. Onward(y, y.heads[l], w)
  <2>1. y.heads[l] = First(w)
    <3>1. z.heads[l] = q[1] /\ 1 \in 1..Len(q)
      BY <1>0 DEF Onward, First
    <3>2. CASE p = 1
      <4>1. y.heads[l] = After(q, 1)
        BY <1>0, <1>5, <3>1, <3>2 DEF tmr
      <4>2. Len(q) \in Nat /\ 1 \in 1..Len(q) /\ Len(w) = Len(q) - 1
        BY <1>0, <1>3, <3>1
      <4>3. Len(q) # 1 => Len(w) # 0 /\ w[1] = q[1 + 1]
        <5>1. Len(q) # 1 => 1 \in 1..Len(q) - 1
          <6>. HIDE DEF q, w, y
          <6>. QED  BY <4>2
        <5>. QED  BY <1>3, <3>2, <4>2, <5>1
      <4>. QED  BY <4>1, <4>2, <4>3 DEF After, First
    <3>3. CASE p # 1
      <4>1. z.heads[l] # tmr
        BY <1>0, <3>1, <3>3 DEF tmr, Distinct
      <4>2. y.heads[l] = q[1]
        BY <1>0, <1>5, <3>1, <4>1
      <4>3. Len(w) # 0 /\ 1 \in 1..Len(q) - 1 /\ 1 < p
        BY <1>0, <1>3, <3>3
      <4>. QED  BY <1>3, <4>2, <4>3 DEF First
    <3>. QED  BY <3>2, <3>3
  <2>2. ASSUME NEW k \in 1..Len(w) PROVE y.timers[w[k]].next = After(w, k)
    <3>0. /\ k \in 1..Len(q) - 1 /\ k \in 1..Len(q) /\ k + 1 \in 1..Len(q)
          /\ k \in Int /\ p \in Int /\ Len(q) \in Nat /\ Len(w) \in Nat
          /\ w[k] \in Ids \ {tmr}
      BY <1>0, <1>3, <1>7
    <3>1. \A j \in 1..Len(q) : z.timers[q[j]].next = After(q, j)
      BY <1>0 DEF Onward
    <3>2. CASE k < p /\ k = p - 1
      <4>1. w[k] = q[k] /\ q[k] = Before(q, p)
        BY <1>3, <3>0, <3>2 DEF Before
      <4>2. y.timers[w[k]].next = After(q, p)
        BY <1>5, <3>0, <4>1
      <4>3. After(w, k) = After(q, p)
        <5>1. CASE p = Len(q)
          BY <1>3, <3>0, <3>2, <5>1 DEF After
        <5>2. CASE p # Len(q)
          <6>1. k + 1 \in 1..Len(q) - 1 /\ k # Len(w) /\ k + 1 = p
            BY <1>3, <3>0, <3>2, <5>2
          <6>2. w[k + 1] = q[p + 1]
            BY <1>3, <3>0, <6>1
          <6>. QED  BY <5>2, <6>1, <6>2 DEF After
        <5>. QED  BY <5>1, <5>2
      <4>. QED  BY <4>2, <4>3
    <3>3. CASE k < p /\ k # p - 1
      <4>1. w[k] = q[k] /\ k + 1 \in 1..Len(q) - 1 /\ k + 1 < p /\ k # Len(w) /\ k # Len(q)
        BY <1>3, <3>0, <3>3
      <4>2. w[k + 1] = q[k + 1]
        BY <1>3, <4>1
      <4>3. q[k] # Before(q, p)
        <5>1. p - 1 \in 1..Len(q) => q[k] # q[p - 1]
          BY <1>0, <3>0, <3>3 DEF Distinct
        <5>. QED  BY <1>2, <1>6, <3>0, <5>1
      <4>4. y.timers[w[k]].next = After(q, k)
        BY <1>5, <3>0, <3>1, <4>1, <4>3
      <4>. QED  BY <4>1, <4>2, <4>4 DEF After
    <3>4. CASE ~(k < p)
      <4>1. w[k] = q[k + 1]
        BY <1>3, <3>0, <3>4
      <4>2. q[k + 1] # Before(q, p)
        <5>1. p - 1 \in 1..Len(q) => q[k + 1] # q[p - 1]
          BY <1>0, <3>0, <3>4 DEF Distinct
        <5>. QED  BY <1>2, <1>6, <3>0, <5>1
      <4>3. y.timers[w[k]].next = After(q, k + 1)
        BY <1>5, <3>0, <3>1, <4>1, <4>2
      <4>4. After(q, k + 1) = After(w, k)
        <5>1. CASE k = Len(w)
          BY <1>3, <3>0, <5>1 DEF After
        <5>2. CASE k # Len(w)
          <6>1. k + 1 \in 1..Len(q) - 1 /\ ~(k + 1 < p) /\ k + 1 # Len(q)
            BY <1>3, <3>0, <3>4, <5>2
          <6>2. w[k + 1] = q[k + 1 + 1]
            BY <1>3, <6>1
          <6>. QED  BY <5>2, <6>1, <6>2 DEF After
        <5>. QED  BY <5>1, <5>2
      <4>. QED  BY <4>3, <4>4
    <3>. QED  BY <3>2, <3>3, <3>4
  <2>. QED  BY <2>1, <2>2, Zenon DEF Onward
<1>9. Backward(y, w)
  <2>1. ASSUME NEW k \in 1..Len(w) PROVE y.timers[w[k]].prev = Before(w, k)
    <3>0. /\ k \in 1..Len(q) - 1 /\ k \in 1..Len(q) /\ k + 1 \in 1..Len(q)
          /\ k \in Int /\ p \in Int /\ Len(q) \in Nat /\ Len(w) \in Nat
          /\ w[k] \in Ids \ {tmr}
      BY <1>0, <1>3, <1>7
    <3>1. \A j \in 1..Len(q) : z.timers[q[j]].prev = Before(q, j)
      BY <1>0 DEF Backward
    <3>2. CASE ~(k < p) /\ k = p
      <4>1. w[k] = q[k + 1] /\ q[k + 1] = After(q, p)
        BY <1>3, <3>0, <3>2 DEF After
      <4>2. y.timers[w[k]].prev = Before(q, p)
        BY <1>5, <3>0, <4>1
      <4>3. Before(w, k) = Before(q, p)
        <5>1. CASE k = 1
          BY <3>2, <5>1 DEF Before
        <5>2. CASE k # 1
          <6>1. k - 1 \in 1..Len(q) - 1 /\ k - 1 < p
            BY <3>0, <3>2, <5>2
          <6>2. w[k - 1] = q[k - 1]
            BY <1>3, <6>1
          <6>. QED  BY <3>2, <5>2, <6>2 DEF Before
        <5>. QED  BY <5>1, <5>2
      <4>. QED  BY <4>2, <4>3
    <3>3. CASE ~(k < p) /\ k # p
      <4>1. /\ w[k] = q[k + 1] /\ k - 1 \in 1..Len(q) - 1 /\ ~(k - 1 < p) /\ k # 1
            /\ k + 1 # 1 /\ (k - 1) + 1 = k /\ (k + 1) - 1 = k
        BY <1>3, <3>0, <3>3
      <4>2. w[k - 1] = q[k]
        BY <1>3, <4>1
      <4>3. q[k + 1] # After(q, p)
        <5>1. p + 1 \in 1..Len(q) => q[k + 1] # q[p + 1]
          BY <1>0, <3>0, <3>3 DEF Distinct
        <5>. QED  BY <1>2, <1>6, <3>0, <5>1
      <4>4. y.timers[w[k]].prev = Before(q, k + 1)
        BY <1>5, <3>0, <3>1, <4>1, <4>3
      <4>. QED  BY <4>1, <4>2, <4>4 DEF Before
    <3>4. CASE k < p
      <4>1. w[k] = q[k]
        BY <1>3, <3>0, <3>4
      <4>2. q[k] # After(q, p)
        <5>1. p + 1 \in 1..Len(q) => q[k] # q[p + 1]
          BY <1>0, <3>0, <3>4 DEF Distinct
        <5>. QED  BY <1>2, <1>6, <3>0, <5>1
      <4>3. y.timers[w[k]].prev = Before(q, k)
        BY <1>5, <3>0, <3>1, <4>1, <4>2
      <4>4. Before(q, k) = Before(w, k)
        <5>1. CASE k = 1
          BY <5>1 DEF Before
        <5>2. CASE k # 1
          <6>1. k - 1 \in 1..Len(q) - 1 /\ k - 1 < p
            BY <3>0, <3>4, <5>2
          <6>2. w[k - 1] = q[k - 1]
            BY <1>3, <6>1
          <6>. QED  BY <5>2, <6>2 DEF Before
        <5>. QED  BY <5>1, <5>2
      <4>. QED  BY <4>3, <4>4
    <3>. QED  BY <3>2, <3>3, <3>4
  <2>. QED  BY <2>1, Zenon DEF Backward
<1>10. ASSUME NEW m \in Lists, m # l
       PROVE  /\ Onward(y, y.heads[m], s[m])
              /\ m # "free" => Backward(y, s[m])
  <2>1. /\ s[m] \in Seq(Ids) /\ Onward(z, z.heads[m], s[m])
        /\ m # "free" => Backward(z, s[m])
    BY <1>10 DEF Linked, Lists
  <2>2. Entries(s[m]) \cap Entries(q) = {}
    BY <1>0, <1>10 DEF Linked
  <2>3. \A id \in Entries(s[m]) : id \in Ids
    BY <2>1, ElementOfSeq DEF Entries
  <2>4. \A id \in Entries(s[m]) : id # tmr /\ id # Before(q, p) /\ id # After(q, p)
    <3>1. Before(q, p) \in Entries(q) \cup {0} /\ After(q, p) \in Entries(q) \cup {0}
      BY <1>2 DEF Entries
    <3>. QED  BY <1>2, <1>6, <2>2, <2>3, <3>1
  <2>5. \A id \in Entries(s[m]) : /\ y.timers[id].next = z.timers[id].next
                                  /\ y.timers[id].prev = z.timers[id].prev
    BY <1>5, <2>3, <2>4
  <2>6. m # "free" => z.heads[m] # tmr
    <3>1. z.heads[m] = 0 \/ z.heads[m] \in Entries(s[m])
      BY <2>1 DEF Onward, First, Entries
    <3>. QED  BY <1>2, <1>6, <2>4, <3>1
  <2>7. y.heads[m] = z.heads[m]
    BY <1>5, <2>6
  <2>. QED  BY <2>1, <2>5, <2>7, SameLinks
<1>11. ASSUME NEW id \in Ids
       PROVE  /\ id \notin Entries(t["cpu"]) \cup Entries(t["rt"]) => y.timers[id].prev = 0
              /\ id \notin Entries(t["cpu"]) \cup Entries(t["rt"]) \cup Entries(t["free"])
                   => y.timers[id].next = 0
  <2>1. CASE id = tmr
    BY <1>5, <2>1 DEF Stopped
  <2>2. CASE id # tmr
    <3>1. \A m \in Lists : id \in Entries(t[m]) <=> id \in Entries(s[m])
      BY <1>3, <1>4, <2>2
    <3>2. Before(q, p) \in Entries(q) \cup {0} /\ After(q, p) \in Entries(q) \cup {0}
      BY <1>2 DEF Entries
    <3>3. "cpu" \in Lists /\ "rt" \in Lists /\ "free" \in Lists
      BY DEF Lists
    <3>4. /\ id \notin Entries(s["cpu"]) \cup Entries(s["rt"]) => z.timers[id].prev = 0
          /\ id \notin Entries(s["cpu"]) \cup Entries(s["rt"]) \cup Entries(s["free"])
               => z.timers[id].next = 0
      BY DEF Linked
    <3>5. id \notin Entries(s["cpu"]) \cup Entries(s["rt"])
            => id # Before(q, p) /\ id # After(q, p)
      BY <1>6, <3>2
    <3>6. id \in Ids \ {tmr}
      BY <2>2
    <3>. QED  BY <1>5, <3>1, <3>3, <3>4, <3>5, <3>6
  <2>. QED  BY <2>1, <2>2
<1>12. \A a, b \in Lists : a # b => Entries(t[a]) \cap Entries(t[b]) = {}
  <2>1. \A a, b \in Lists : a # b => Entries(s[a]) \cap Entries(s[b]) = {}
    BY DEF Linked
  <2>2. \A a \in Lists : Entries(t[a]) \subseteq Entries(s[a])
    BY <1>3, <1>4
  <2>. QED  BY <2>1, <2>2
<1>13. \A list \in Lists : Distinct(t[list]) /\ Onward(y, y.heads[list], t[list])
  BY <1>3, <1>4, <1>8, <1>10 DEF Linked
<1>14. \A list \in {"cpu", "rt"} : Backward(y, t[list])
  <2>1. \A list \in {"cpu", "rt"} : list \in Lists /\ list # "free"
    BY DEF Lists
  <2>. QED  BY <1>4, <1>9, <1>10, <2>1
<1>15. Linked(y, t)
  BY <1>4, <1>5, <1>11, <1>12, <1>13, <1>14 DEF Linked
<1>. QED  BY <1>15 DEF y, t, tmr, w

\* Timers that keep their links, under the same heads, are linked alike.
LEMMA LinkedSame ==
  ASSUME NEW z, NEW s, Linked(z, s), NEW y, IsState(y),
         \A list \in Lists : y.heads[list] = z.heads[list],
         \A id \in Ids : /\ y.timers[id].next = z.timers[id].next
                         /\ y.timers[id].prev = z.timers[id].prev
  PROVE  Linked(y, s)
<1>1. ASSUME NEW list \in Lists
      PROVE  /\ Distinct(s[list]) /\ Onward(y, y.heads[list], s[list])
             /\ list # "free" => Backward(y, s[list])
  <2>1. /\ s[list] \in Seq(Ids) /\ Distinct(s[list]) /\ Onward(z, z.heads[list], s[list])
        /\ list # "free" => Backward(z, s[list])
    BY DEF Linked, Lists
  <2>2. \A id \in Entries(s[list]) : id \in Ids
    BY <2>1, ElementOfSeq DEF Entries
  <2>3. /\ \A id \in Entries(s[list]) : y.timers[id].next = z.timers[id].next
        /\ \A id \in Entries(s[list]) : y.timers[id].prev = z.timers[id].prev
    BY <2>2
  <2>4. Onward(z, y.heads[list], s[list])
    BY <2>1
  <2>5. Onward(y, y.heads[list], s[list])
    BY <2>1, <2>3, <2>4, SameLinks
  <2>6. list # "free" => Backward(y, s[list])
    BY <2>1, <2>3, SameLinks
  <2>. QED  BY <2>1, <2>5, <2>6
<1>2. \A list \in {"cpu", "rt"} : Backward(y, s[list])
  BY <1>1 DEF Lists
<1>. QED  BY <1>1, <1>2 DEF Linked

\* An entry in no list has no neighbours and heads none.
LEMMA Unlisted ==
  ASSUME NEW z, NEW s, Linked(z, s), NEW tmr \in Ids,
         \A list \in Lists : tmr \notin Entries(s[list])
  PROVE  /\ z.timers[tmr].next = 0 /\ z.timers[tmr].prev = 0
         /\ \A list \in Lists : z.heads[list] # tmr
<1>1. "cpu" \in Lists /\ "rt" \in Lists /\ "free" \in Lists
  BY DEF Lists
<1>2. z.timers[tmr].next = 0 /\ z.timers[tmr].prev = 0
  BY <1>1 DEF Linked
<1>3. \A list \in Lists : z.heads[list] # tmr
  <2>. SUFFICES ASSUME NEW list \in Lists PROVE z.heads[list] # tmr
    OBVIOUS
  <2>1. z.heads[list] = First(s[list]) /\ s[list] \in Seq(Ids)
    BY DEF Linked, Onward
  <2>2. z.heads[list] = 0 \/ z.heads[list] \in Entries(s[list])
    BY <2>1 DEF First, Entries
  <2>3. IsState(z)
    BY DEF Linked
  <2>. QED  BY <2>2, <2>3, StateTypes
<1>. QED  BY <1>2, <1>3

\* Unsetting such an entry leaves the lists as they are.
LEMMA UnsetStopped ==
  ASSUME NEW z, NEW s, Linked(z, s), NEW tmr \in Ids,
         \A list \in Lists : tmr \notin Entries(s[list])
  PROVE  Linked(timer_unset(z, tmr), s)
<1>. DEFINE y == timer_unset(z, tmr)
<1>0. IsState(z)
  BY DEF Linked
<1>1. /\ z.timers[tmr].next = 0 /\ z.timers[tmr].prev = 0
      /\ \A list \in Lists : z.heads[list] # tmr
  BY Unlisted
<1>2. 0 \notin Ids
  BY <1>0, StateTypes
<1>3. y = timer_unset(z, tmr)
  OBVIOUS
<1>. HIDE DEF y
<1>4. IsState(y) /\ \A list \in Lists : y.heads[list] = z.heads[list]
  BY <1>0, <1>1, <1>3, UnsetFields
<1>5. y.timers[tmr].next = 0 /\ y.timers[tmr].prev = 0
  BY <1>0, <1>3, UnsetFields DEF Stopped
<1>6. \A id \in Ids \ {tmr} : /\ y.timers[id].next = z.timers[id].next
                              /\ y.timers[id].prev = z.timers[id].prev
  <2>1. \A id \in Ids \ {tmr} : id # 0
    BY <1>2
  <2>2. \A id \in Ids \ {tmr} :
          /\ y.timers[id].next =
               IF id = z.timers[tmr].prev THEN z.timers[tmr].next ELSE z.timers[id].next
          /\ y.timers[id].prev =
               IF id = z.timers[tmr].next THEN z.timers[tmr].prev ELSE z.timers[id].prev
    BY <1>0, <1>3, UnsetFields
  <2>. QED  BY <1>1, <2>1, <2>2
<1>7. \A id \in Ids : /\ y.timers[id].next = z.timers[id].next
                      /\ y.timers[id].prev = z.timers[id].prev
  BY <1>1, <1>5, <1>6
<1>8. Linked(y, s)
  BY <1>4, <1>7, LinkedSame
<1>. QED  BY <1>3, <1>8

-----------------------------------------------------------------------------
(* Insertion.                                                              *)

\* The places where a timer could stand, and the first of them.
Later(z, q, tmr) ==
  {n \in DOMAIN q : IF n = 1 THEN z.timers[tmr].left < z.timers[q[1]].left
                    ELSE z.timers[tmr].left <= z.timers[q[n]].left}

Place(z, q, tmr) ==
  IF Later(z, q, tmr) = {} THEN Len(q) + 1
  ELSE CHOOSE n \in Later(z, q, tmr) : \A m \in Later(z, q, tmr) : n <= m

Behind(q, p) == IF p > Len(q) THEN 0 ELSE q[p]

\* timer_insert, once the place is known.
InsertAt(z, list, tmr, q, p) ==
  LET linked == link(link(z, Before(q, p), tmr), tmr, Behind(q, p))
  IN  IF Before(q, p) = 0 THEN [linked EXCEPT !.heads[list] = tmr] ELSE linked

\* timer_insert puts the timer where its deadline belongs.
LEMMA InsertPlace ==
  ASSUME NEW z, NEW list, NEW tmr, NEW q, Listed(z, list) = q
  PROVE  timer_insert(z, list, tmr) = InsertAt(z, list, tmr, q, Place(z, q, tmr))
<1>1. timer_insert(z, list, tmr)
        = InsertAt(z, list, tmr, Listed(z, list), Place(z, Listed(z, list), tmr))
  BY Zenon DEF timer_insert, InsertAt, Place, Later, Before, Behind
<1>. QED  BY <1>1

\* It is the first place that keeps the list in order.
LEMMA FirstPlace ==
  ASSUME NEW z, NEW q \in Seq(Ids), NEW tmr
  PROVE  /\ Place(z, q, tmr) \in 1..Len(q) + 1
         /\ Place(z, q, tmr) <= Len(q) => Place(z, q, tmr) \in Later(z, q, tmr)
         /\ \A n \in 1..Place(z, q, tmr) - 1 : n \notin Later(z, q, tmr)
<1>. DEFINE T == Later(z, q, tmr)
            p == Place(z, q, tmr)
<1>1. Len(q) \in Nat /\ T \subseteq 1..Len(q) /\ T \in SUBSET Nat
  <2>1. Len(q) \in Nat /\ DOMAIN q = 1..Len(q)
    OBVIOUS
  <2>2. T \subseteq DOMAIN q
    BY DEF Later
  <2>. QED  BY <2>1, <2>2
<1>2. p = IF T = {} THEN Len(q) + 1 ELSE CHOOSE n \in T : \A m \in T : n <= m
  BY Zenon DEF Place
<1>. HIDE DEF T, p
<1>3. CASE T = {}
  BY <1>1, <1>2, <1>3 DEF T, p
<1>4. CASE T # {}
  <2>1. \E n \in T : \A m \in T : n <= m
    BY <1>1, <1>4, Least
  <2>2. p \in T /\ \A m \in T : p <= m
    BY <1>2, <1>4, <2>1
  <2>3. p \in 1..Len(q) + 1 /\ p \in Nat
    BY <1>1, <2>2
  <2>4. \A n \in 1..p - 1 : n \notin T
    <3>1. \A n \in 1..p - 1 : ~(p <= n)
      BY <2>3
    <3>. QED  BY <2>2, <3>1
  <2>. QED  BY <2>2, <2>3, <2>4 DEF T, p
<1>. QED  BY <1>3, <1>4

\* y is z with an entry between two others and nothing else touched.
Inserted(y, z, prev, tmr, next) ==
  /\ IsState(y) /\ y.heads = z.heads
  /\ \A id \in Ids :
       /\ y.timers[id].next = IF id = tmr THEN next
                              ELSE IF id = prev THEN tmr ELSE z.timers[id].next
       /\ y.timers[id].prev = IF id = tmr THEN prev
                              ELSE IF id = next THEN tmr ELSE z.timers[id].prev
       /\ y.timers[id].left = z.timers[id].left
       /\ y.timers[id].period = z.timers[id].period

\* Two links join an entry to both its neighbours.
LEMMA JoinFields ==
  ASSUME NEW z, IsState(z), NEW tmr \in Ids, NEW prev \in Links, NEW next \in Links,
         prev # tmr, next # tmr, NEW k, k = link(z, prev, tmr), NEW y, y = link(k, tmr, next)
  PROVE  Inserted(y, z, prev, tmr, next)
<1>1. tmr \in Links
  BY StateTypes
<1>2. Joined(k, z, prev, tmr)
  BY <1>1, LinkFields
<1>3. Joined(y, k, tmr, next)
  <2>1. IsState(k)
    BY <1>2 DEF Joined
  <2>. QED  BY <1>1, <2>1, LinkFields
<1>. QED  BY <1>2, <1>3 DEF Joined, Inserted

\* InsertAt joins the entry to its neighbours, and the list to a first entry.
LEMMA InsertFields ==
  ASSUME NEW z, IsState(z), NEW list \in Lists, NEW tmr \in Ids, NEW q, NEW p,
         Before(q, p) \in Links, Behind(q, p) \in Links, Before(q, p) # tmr, Behind(q, p) # tmr
  PROVE  /\ IsState(InsertAt(z, list, tmr, q, p))
         /\ \A l \in Lists :
              InsertAt(z, list, tmr, q, p).heads[l] =
                IF Before(q, p) = 0 /\ l = list THEN tmr ELSE z.heads[l]
         /\ \A id \in Ids :
              /\ InsertAt(z, list, tmr, q, p).timers[id].next =
                   IF id = tmr THEN Behind(q, p)
                   ELSE IF id = Before(q, p) THEN tmr ELSE z.timers[id].next
              /\ InsertAt(z, list, tmr, q, p).timers[id].prev =
                   IF id = tmr THEN Before(q, p)
                   ELSE IF id = Behind(q, p) THEN tmr ELSE z.timers[id].prev
              /\ InsertAt(z, list, tmr, q, p).timers[id].left = z.timers[id].left
              /\ InsertAt(z, list, tmr, q, p).timers[id].period = z.timers[id].period
<1>. DEFINE prev == Before(q, p)
            next == Behind(q, p)
            k == link(z, prev, tmr)
            l2 == link(k, tmr, next)
            y == InsertAt(z, list, tmr, q, p)
<1>1. tmr \in Links /\ prev \in Links /\ next \in Links /\ prev # tmr /\ next # tmr
  BY StateTypes
<1>2. y = IF prev = 0 THEN [l2 EXCEPT !.heads[list] = tmr] ELSE l2
  BY Zenon DEF InsertAt
<1>3. k = link(z, prev, tmr) /\ l2 = link(k, tmr, next)
  OBVIOUS
<1>. HIDE DEF prev, next, k, l2, y
<1>4. Inserted(l2, z, prev, tmr, next)
  BY <1>1, <1>3, JoinFields
<1>5. /\ IsState(l2) /\ l2.heads = z.heads
      /\ \A id \in Ids :
           /\ l2.timers[id].next = IF id = tmr THEN next
                                   ELSE IF id = prev THEN tmr ELSE z.timers[id].next
           /\ l2.timers[id].prev = IF id = tmr THEN prev
                                   ELSE IF id = next THEN tmr ELSE z.timers[id].prev
           /\ l2.timers[id].left = z.timers[id].left
           /\ l2.timers[id].period = z.timers[id].period
  BY <1>4 DEF Inserted
<1>6. l2 \in [timers : [Ids -> Timer], heads : [Lists -> Links]]
  BY <1>5 DEF IsState
<1>7. /\ y.timers = l2.timers /\ IsState(y)
      /\ \A l \in Lists : y.heads[l] = IF prev = 0 /\ l = list THEN tmr ELSE z.heads[l]
  <2>1. CASE prev = 0
    <3>1. y.timers = l2.timers /\ y.heads = [l2.heads EXCEPT ![list] = tmr]
      BY <1>2, <1>6, <2>1
    <3>2. y = [timers |-> y.timers, heads |-> y.heads]
      BY <1>2, <1>6, <2>1
    <3>3. [l2.heads EXCEPT ![list] = tmr] \in [Lists -> Links]
      BY <1>1, <1>6
    <3>4. IsState(y)
      BY <1>6, <3>1, <3>2, <3>3 DEF IsState
    <3>5. \A l \in Lists : y.heads[l] = IF l = list THEN tmr ELSE l2.heads[l]
      BY <1>6, <3>1
    <3>. QED  BY <1>5, <2>1, <3>1, <3>4, <3>5
  <2>2. CASE prev # 0
    BY <1>2, <1>5, <2>2
  <2>. QED  BY <2>1, <2>2
<1>8. \A id \in Ids :
           /\ y.timers[id].next = IF id = tmr THEN next
                                  ELSE IF id = prev THEN tmr ELSE z.timers[id].next
           /\ y.timers[id].prev = IF id = tmr THEN prev
                                  ELSE IF id = next THEN tmr ELSE z.timers[id].prev
           /\ y.timers[id].left = z.timers[id].left
           /\ y.timers[id].period = z.timers[id].period
  BY <1>5, <1>7
<1>. QED  BY <1>7, <1>8 DEF y, prev, next

\* The neighbours of a place.
LEMMA Around ==
  ASSUME NEW q \in Seq(Ids), NEW p \in 1..Len(q) + 1
  PROVE  /\ Before(q, p) \in Links /\ Behind(q, p) \in Links
         /\ Before(q, p) # 0 => p # 1 /\ Before(q, p) = q[p - 1] /\ p - 1 \in 1..Len(q)
         /\ Behind(q, p) # 0 => p <= Len(q) /\ Behind(q, p) = q[p] /\ p \in 1..Len(q)
         /\ p = 1 <=> Before(q, p) = 0
         /\ p > Len(q) <=> Behind(q, p) = 0
<1>1. \A k \in 1..Len(q) : q[k] \in Links /\ q[k] # 0
  <2>1. Ids \subseteq Links /\ 0 \notin Ids
    BY TimersAssumption DEF TimersAssumption, Ids, Links
  <2>. QED  BY <2>1, ElementOfSeq
<1>2. (p # 1 => p - 1 \in 1..Len(q)) /\ (~(p > Len(q)) => p \in 1..Len(q))
  OBVIOUS
<1>3. 0 \in Links
  BY TimersAssumption DEF TimersAssumption, Links
<1>. QED  BY <1>1, <1>2, <1>3 DEF Before, Behind

\* Putting an entry that is in no list at the pth place of a list leaves the
\* lists linked.
LEMMA InsertLinked ==
  ASSUME NEW z, NEW s, Linked(z, s), NEW l \in {"cpu", "rt"}, NEW tmr \in Ids,
         \A list \in Lists : tmr \notin Entries(s[list]), NEW p \in 1..Len(s[l]) + 1
  PROVE  Linked(InsertAt(z, l, tmr, s[l], p), [s EXCEPT ![l] = With(s[l], p, tmr)])
<1>. DEFINE q == s[l]
            y == InsertAt(z, l, tmr, q, p)
            w == With(q, p, tmr)
            t == [s EXCEPT ![l] = w]
<1>0. /\ IsState(z) /\ l \in Lists /\ s \in [Lists -> Seq(Ids)] /\ q \in Seq(Ids)
      /\ Distinct(q) /\ Onward(z, z.heads[l], q) /\ Backward(z, q) /\ tmr \notin Entries(q)
  BY DEF Linked, Lists
<1>2. /\ Before(q, p) \in Links /\ Behind(q, p) \in Links
      /\ Before(q, p) # 0 => p # 1 /\ Before(q, p) = q[p - 1] /\ p - 1 \in 1..Len(q)
      /\ Behind(q, p) # 0 => p <= Len(q) /\ Behind(q, p) = q[p] /\ p \in 1..Len(q)
      /\ p = 1 <=> Before(q, p) = 0
      /\ p > Len(q) <=> Behind(q, p) = 0
  BY <1>0, Around
<1>3. /\ w \in Seq(Ids) /\ Len(w) = Len(q) + 1
      /\ \A k \in 1..Len(q) + 1 : w[k] = IF k < p THEN q[k] ELSE IF k = p THEN tmr ELSE q[k - 1]
      /\ Distinct(w)
      /\ Entries(w) = Entries(q) \cup {tmr}
  BY <1>0, WithProperties
<1>4. t \in [Lists -> Seq(Ids)] /\ t[l] = w /\ \A m \in Lists : m # l => t[m] = s[m]
  BY <1>0, <1>3
<1>6. /\ 0 \notin Ids
      /\ \A k \in 1..Len(q) : q[k] \in Ids /\ q[k] # 0 /\ q[k] # tmr /\ q[k] \in Entries(q)
  BY <1>0, StateTypes, ElementOfSeq DEF Entries
<1>61. Before(q, p) # tmr /\ Behind(q, p) # tmr
  BY <1>2, <1>6
<1>5. /\ IsState(y)
      /\ \A m \in Lists : y.heads[m] = IF Before(q, p) = 0 /\ m = l THEN tmr ELSE z.heads[m]
      /\ \A id \in Ids :
           /\ y.timers[id].next = IF id = tmr THEN Behind(q, p)
                                  ELSE IF id = Before(q, p) THEN tmr ELSE z.timers[id].next
           /\ y.timers[id].prev = IF id = tmr THEN Before(q, p)
                                  ELSE IF id = Behind(q, p) THEN tmr ELSE z.timers[id].prev
  <2>1. y = InsertAt(z, l, tmr, q, p)
    OBVIOUS
  <2>. HIDE DEF y, q
  <2>2. IsState(y)
    BY <1>0, <1>2, <1>61, <2>1, InsertFields
  <2>3. \A m \in Lists : y.heads[m] = IF Before(q, p) = 0 /\ m = l THEN tmr ELSE z.heads[m]
    BY <1>0, <1>2, <1>61, <2>1, InsertFields
  <2>4. \A id \in Ids :
           /\ y.timers[id].next = IF id = tmr THEN Behind(q, p)
                                  ELSE IF id = Before(q, p) THEN tmr ELSE z.timers[id].next
           /\ y.timers[id].prev = IF id = tmr THEN Before(q, p)
                                  ELSE IF id = Behind(q, p) THEN tmr ELSE z.timers[id].prev
    BY <1>0, <1>2, <1>61, <2>1, InsertFields
  <2>. QED  BY <2>2, <2>3, <2>4
<1>. HIDE DEF y, w, t
<1>7. \A k \in 1..Len(w) : w[k] \in Ids
  BY <1>3, ElementOfSeq
<1>8. Onward(y, y.heads[l], w)
  <2>1. y.heads[l] = First(w)
    <3>0. 1 \in 1..Len(q) + 1 /\ Len(w) # 0 /\ p \in Int
      BY <1>0, <1>3
    <3>1. CASE p = 1
      <4>1. w[1] = tmr
        BY <1>3, <3>0, <3>1
      <4>. QED  BY <1>0, <1>2, <1>5, <3>0, <3>1, <4>1 DEF First
    <3>2. CASE p # 1
      <4>1. Len(q) # 0 /\ 1 < p
        BY <1>0, <3>2
      <4>2. w[1] = q[1]
        BY <1>3, <3>0, <4>1
      <4>3. y.heads[l] = q[1]
        BY <1>0, <1>2, <1>5, <3>2, <4>1 DEF Onward, First
      <4>. QED  BY <3>0, <4>2, <4>3 DEF First
    <3>. QED  BY <3>1, <3>2
  <2>2. ASSUME NEW k \in 1..Len(w) PROVE y.timers[w[k]].next = After(w, k)
    <3>0. /\ k \in 1..Len(q) + 1 /\ k \in Int /\ p \in Int /\ Len(q) \in Nat
          /\ Len(w) \in Nat /\ w[k] \in Ids
      BY <1>0, <1>3, <1>7
    <3>1. \A j \in 1..Len(q) : z.timers[q[j]].next = After(q, j)
      BY <1>0 DEF Onward
    <3>2. CASE k < p /\ k = p - 1
      <4>1. w[k] = q[k] /\ q[k] = Before(q, p) /\ k \in 1..Len(q) /\ q[k] # tmr
        BY <1>3, <1>6, <3>0, <3>2 DEF Before
      <4>2. y.timers[w[k]].next = tmr
        BY <1>5, <3>0, <4>1
      <4>3. k # Len(w) /\ k + 1 = p
        BY <1>3, <3>0, <3>2
      <4>4. w[k + 1] = tmr
        BY <1>3, <4>3
      <4>. QED  BY <4>2, <4>3, <4>4 DEF After
    <3>3. CASE k < p /\ k # p - 1
      <4>1. /\ w[k] = q[k] /\ k \in 1..Len(q) /\ k + 1 \in 1..Len(q) + 1 /\ k + 1 < p
            /\ k # Len(w) /\ k # Len(q)
        BY <1>3, <3>0, <3>3
      <4>2. w[k + 1] = q[k + 1]
        BY <1>3, <4>1
      <4>3. q[k] # Before(q, p)
        <5>1. p - 1 \in 1..Len(q) => q[k] # q[p - 1]
          BY <1>0, <3>0, <3>3, <4>1 DEF Distinct
        <5>. QED  BY <1>2, <1>6, <4>1, <5>1
      <4>4. y.timers[w[k]].next = After(q, k)
        BY <1>5, <1>6, <3>0, <3>1, <4>1, <4>3
      <4>. QED  BY <4>1, <4>2, <4>4 DEF After
    <3>4. CASE k = p
      <4>1. w[k] = tmr
        BY <1>3, <3>0, <3>4
      <4>2. y.timers[w[k]].next = Behind(q, p)
        BY <1>5, <3>0, <4>1
      <4>3. Behind(q, p) = After(w, k)
        <5>1. CASE k = Len(w)
          <6>1. p > Len(q)
            BY <1>3, <3>0, <3>4, <5>1
          <6>. QED  BY <5>1, <6>1 DEF After, Behind
        <5>2. CASE k # Len(w)
          <6>1. ~(p > Len(q)) /\ k + 1 \in 1..Len(q) + 1 /\ ~(k + 1 < p) /\ k + 1 # p
                /\ (k + 1) - 1 = p
            BY <1>3, <3>0, <3>4, <5>2
          <6>2. w[k + 1] = q[p]
            BY <1>3, <6>1
          <6>. QED  BY <5>2, <6>1, <6>2 DEF After, Behind
        <5>. QED  BY <5>1, <5>2
      <4>. QED  BY <4>2, <4>3
    <3>5. CASE k > p
      <4>1. w[k] = q[k - 1] /\ k - 1 \in 1..Len(q)
        BY <1>3, <3>0, <3>5
      <4>2. q[k - 1] # Before(q, p)
        <5>1. p - 1 \in 1..Len(q) => q[k - 1] # q[p - 1]
          BY <1>0, <3>0, <3>5, <4>1 DEF Distinct
        <5>. QED  BY <1>2, <1>6, <4>1, <5>1
      <4>3. y.timers[w[k]].next = After(q, k - 1)
        BY <1>5, <1>6, <3>0, <3>1, <4>1, <4>2
      <4>4. After(q, k - 1) = After(w, k)
        <5>1. CASE k = Len(w)
          <6>1. k - 1 = Len(q)
            BY <1>3, <3>0, <5>1
          <6>. QED  BY <5>1, <6>1 DEF After
        <5>2. CASE k # Len(w)
          <6>1. k + 1 \in 1..Len(q) + 1 /\ ~(k + 1 < p) /\ k + 1 # p /\ k - 1 # Len(q)
                /\ (k - 1) + 1 = k /\ (k + 1) - 1 = k
            BY <1>3, <3>0, <3>5, <5>2
          <6>2. w[k + 1] = q[k]
            BY <1>3, <6>1
          <6>. QED  BY <5>2, <6>1, <6>2 DEF After
        <5>. QED  BY <5>1, <5>2
      <4>. QED  BY <4>3, <4>4
    <3>. QED  BY <3>0, <3>2, <3>3, <3>4, <3>5
  <2>. QED  BY <2>1, <2>2, Zenon DEF Onward
<1>9. Backward(y, w)
  <2>1. ASSUME NEW k \in 1..Len(w) PROVE y.timers[w[k]].prev = Before(w, k)
    <3>0. /\ k \in 1..Len(q) + 1 /\ k \in Int /\ p \in Int /\ Len(q) \in Nat
          /\ Len(w) \in Nat /\ w[k] \in Ids
      BY <1>0, <1>3, <1>7
    <3>1. \A j \in 1..Len(q) : z.timers[q[j]].prev = Before(q, j)
      BY <1>0 DEF Backward
    <3>2. CASE k < p
      <4>1. w[k] = q[k] /\ k \in 1..Len(q)
        BY <1>3, <3>0, <3>2
      <4>2. q[k] # Behind(q, p)
        <5>1. p \in 1..Len(q) => q[k] # q[p]
          BY <1>0, <3>0, <3>2, <4>1 DEF Distinct
        <5>. QED  BY <1>2, <1>6, <4>1, <5>1
      <4>3. y.timers[w[k]].prev = Before(q, k)
        BY <1>5, <1>6, <3>0, <3>1, <4>1, <4>2
      <4>4. Before(q, k) = Before(w, k)
        <5>1. CASE k = 1
          BY <5>1 DEF Before
        <5>2. CASE k # 1
          <6>1. k - 1 \in 1..Len(q) + 1 /\ k - 1 < p
            BY <3>0, <3>2, <5>2
          <6>2. w[k - 1] = q[k - 1]
            BY <1>3, <6>1
          <6>. QED  BY <5>2, <6>2 DEF Before
        <5>. QED  BY <5>1, <5>2
      <4>. QED  BY <4>3, <4>4
    <3>3. CASE k = p
      <4>1. w[k] = tmr
        BY <1>3, <3>0, <3>3
      <4>2. y.timers[w[k]].prev = Before(q, p)
        BY <1>5, <3>0, <4>1
      <4>3. Before(q, p) = Before(w, k)
        <5>1. CASE k = 1
          BY <3>3, <5>1 DEF Before
        <5>2. CASE k # 1
          <6>1. k - 1 \in 1..Len(q) + 1 /\ k - 1 < p
            BY <3>0, <3>3, <5>2
          <6>2. w[k - 1] = q[k - 1]
            BY <1>3, <6>1
          <6>. QED  BY <3>3, <5>2, <6>2 DEF Before
        <5>. QED  BY <5>1, <5>2
      <4>. QED  BY <4>2, <4>3
    <3>4. CASE k > p /\ k = p + 1
      <4>1. w[k] = q[p] /\ p \in 1..Len(q) /\ k # 1 /\ k - 1 = p
        BY <1>3, <3>0, <3>4
      <4>2. q[p] = Behind(q, p) /\ q[p] # tmr
        BY <1>2, <1>6, <3>0, <4>1 DEF Behind
      <4>3. y.timers[w[k]].prev = tmr
        BY <1>5, <3>0, <4>1, <4>2
      <4>4. w[k - 1] = tmr
        BY <1>3, <3>0, <4>1
      <4>. QED  BY <4>1, <4>3, <4>4 DEF Before
    <3>5. CASE k > p /\ k # p + 1
      <4>1. /\ w[k] = q[k - 1] /\ k - 1 \in 1..Len(q) /\ k # 1 /\ k - 1 # 1
            /\ k - 1 \in 1..Len(q) + 1 /\ ~(k - 1 < p) /\ k - 1 # p
        BY <1>3, <3>0, <3>5
      <4>2. q[k - 1] # Behind(q, p)
        <5>1. p \in 1..Len(q) => q[k - 1] # q[p]
          BY <1>0, <3>0, <3>5, <4>1 DEF Distinct
        <5>. QED  BY <1>2, <1>6, <4>1, <5>1
      <4>3. y.timers[w[k]].prev = Before(q, k - 1)
        BY <1>5, <1>6, <3>0, <3>1, <4>1, <4>2
      <4>4. w[k - 1] = q[k - 1 - 1]
        BY <1>3, <4>1
      <4>. QED  BY <4>1, <4>3, <4>4 DEF Before
    <3>. QED  BY <3>0, <3>2, <3>3, <3>4, <3>5
  <2>. QED  BY <2>1, Zenon DEF Backward
<1>10. ASSUME NEW m \in Lists, m # l
       PROVE  /\ Onward(y, y.heads[m], s[m])
              /\ m # "free" => Backward(y, s[m])
  <2>1. /\ s[m] \in Seq(Ids) /\ Onward(z, z.heads[m], s[m])
        /\ m # "free" => Backward(z, s[m])
    BY <1>10 DEF Linked, Lists
  <2>2. Entries(s[m]) \cap Entries(q) = {} /\ tmr \notin Entries(s[m])
    BY <1>0, <1>10 DEF Linked
  <2>3. \A id \in Entries(s[m]) : id \in Ids
    BY <2>1, ElementOfSeq DEF Entries
  <2>4. \A id \in Entries(s[m]) : id # tmr /\ id # Before(q, p) /\ id # Behind(q, p)
    <3>1. Before(q, p) \in Entries(q) \cup {0} /\ Behind(q, p) \in Entries(q) \cup {0}
      BY <1>2, <1>6
    <3>. QED  BY <1>6, <2>2, <2>3, <3>1
  <2>5. \A id \in Entries(s[m]) : /\ y.timers[id].next = z.timers[id].next
                                  /\ y.timers[id].prev = z.timers[id].prev
    BY <1>5, <2>3, <2>4
  <2>6. y.heads[m] = z.heads[m]
    BY <1>5, <1>10
  <2>. QED  BY <2>1, <2>5, <2>6, SameLinks
<1>11. ASSUME NEW id \in Ids
       PROVE  /\ id \notin Entries(t["cpu"]) \cup Entries(t["rt"]) => y.timers[id].prev = 0
              /\ id \notin Entries(t["cpu"]) \cup Entries(t["rt"]) \cup Entries(t["free"])
                   => y.timers[id].next = 0
  <2>0. "cpu" \in Lists /\ "rt" \in Lists /\ "free" \in Lists
    BY DEF Lists
  <2>1. CASE id = tmr
    <3>1. tmr \in Entries(t["cpu"]) \cup Entries(t["rt"])
      BY <1>3, <1>4
    <3>. QED  BY <2>1, <3>1
  <2>2. CASE id # tmr
    <3>1. \A m \in Lists : id \in Entries(t[m]) <=> id \in Entries(s[m])
      BY <1>3, <1>4, <2>2
    <3>2. Before(q, p) \in Entries(q) \cup {0} /\ Behind(q, p) \in Entries(q) \cup {0}
      BY <1>2, <1>6
    <3>4. /\ id \notin Entries(s["cpu"]) \cup Entries(s["rt"]) => z.timers[id].prev = 0
          /\ id \notin Entries(s["cpu"]) \cup Entries(s["rt"]) \cup Entries(s["free"])
               => z.timers[id].next = 0
      BY DEF Linked
    <3>5. id \notin Entries(s["cpu"]) \cup Entries(s["rt"])
            => id # Before(q, p) /\ id # Behind(q, p)
      BY <1>6, <3>2
    <3>. QED  BY <1>5, <2>0, <2>2, <3>1, <3>4, <3>5
  <2>. QED  BY <2>1, <2>2
<1>12. \A a, b \in Lists : a # b => Entries(t[a]) \cap Entries(t[b]) = {}
  <2>1. \A a, b \in Lists : a # b => Entries(s[a]) \cap Entries(s[b]) = {}
    BY DEF Linked
  <2>2. \A a \in Lists : /\ a # l => t[a] = s[a] /\ tmr \notin Entries(s[a])
                         /\ a = l => Entries(t[a]) = Entries(s[a]) \cup {tmr}
    BY <1>3, <1>4
  <2>. QED  BY <2>1, <2>2
<1>13. \A list \in Lists : Distinct(t[list]) /\ Onward(y, y.heads[list], t[list])
  BY <1>3, <1>4, <1>8, <1>10 DEF Linked
<1>14. \A list \in {"cpu", "rt"} : Backward(y, t[list])
  <2>1. \A list \in {"cpu", "rt"} : list \in Lists /\ list # "free"
    BY DEF Lists
  <2>. QED  BY <1>4, <1>9, <1>10, <2>1
<1>15. Linked(y, t)
  BY <1>4, <1>5, <1>11, <1>12, <1>13, <1>14 DEF Linked
<1>. QED  BY <1>15 DEF y, t, w

-----------------------------------------------------------------------------
(* The order of the deadlines.                                             *)

Sorted(z, q) ==
  \A j, k \in 1..Len(q) : j <= k => z.timers[q[j]].left <= z.timers[q[k]].left

\* The two lists of running timers are in order, and no deadline is passed by
\* so much that it looks like a later one.
Timed(z, s) ==
  \A list \in {"cpu", "rt"} :
    /\ Sorted(z, s[list])
    /\ \A id \in Entries(s[list]) : z.timers[id].left > -Window /\ z.timers[id].period \in Periods

Sound(z, s) == Linked(z, s) /\ Timed(z, s)

\* From z to y nothing but tmr changes its list, its deadline or its period.
Kept(y, t, z, s, tmr) ==
  /\ \A id \in Ids \ {tmr} : /\ y.timers[id].left = z.timers[id].left
                             /\ y.timers[id].period = z.timers[id].period
  /\ \A list \in Lists : Entries(t[list]) \ {tmr} = Entries(s[list]) \ {tmr}

\* The timer is in no list.
Idle(s, tmr) == \A list \in Lists : tmr \notin Entries(s[list])

\* A list stays in order when an entry is taken out,
LEMMA SortedWithout ==
  ASSUME NEW z, NEW y, IsState(z), NEW q \in Seq(Ids), Distinct(q), NEW p \in 1..Len(q),
         Sorted(z, q), \A id \in Ids \ {q[p]} : y.timers[id].left = z.timers[id].left
  PROVE  Sorted(y, Without(q, p))
<1>. DEFINE w == Without(q, p)
<1>1. /\ w \in Seq(Ids) /\ Len(w) = Len(q) - 1
      /\ \A k \in 1..Len(q) - 1 : w[k] = IF k < p THEN q[k] ELSE q[k + 1]
      /\ Entries(w) = Entries(q) \ {q[p]}
  BY WithoutProperties
<1>. HIDE DEF w
<1>2. \A k \in 1..Len(w) : y.timers[w[k]].left = z.timers[w[k]].left
  <2>1. \A k \in 1..Len(w) : w[k] \in Ids /\ w[k] \in Entries(w)
    BY <1>1, ElementOfSeq DEF Entries
  <2>. QED  BY <1>1, <2>1
<1>3. ASSUME NEW j \in 1..Len(w), NEW k \in 1..Len(w), j <= k
      PROVE  z.timers[w[j]].left <= z.timers[w[k]].left
  <2>1. /\ j \in 1..Len(q) - 1 /\ k \in 1..Len(q) - 1
        /\ {j, j + 1, k, k + 1} \subseteq 1..Len(q) /\ j + 1 <= k + 1 /\ j <= k + 1
        /\ (~(j < p) => ~(k < p))
    BY <1>1, <1>3
  <2>. QED  BY <1>1, <1>3, <2>1 DEF Sorted
<1>. QED  BY <1>2, <1>3 DEF Sorted, w

\* and when a timer is put in its place.
LEMMA SortedWith ==
  ASSUME NEW z, IsState(z), NEW q \in Seq(Ids), Distinct(q), NEW tmr \in Ids,
         tmr \notin Entries(q), Sorted(z, q)
  PROVE  Sorted(z, With(q, Place(z, q, tmr), tmr))
<1>. DEFINE p == Place(z, q, tmr)
            w == With(q, p, tmr)
            left(k) == z.timers[q[k]].left
            new == z.timers[tmr].left
<1>1. /\ p \in 1..Len(q) + 1
      /\ p <= Len(q) => p \in Later(z, q, tmr)
      /\ \A n \in 1..p - 1 : n \notin Later(z, q, tmr)
  BY FirstPlace
<1>2. /\ w \in Seq(Ids) /\ Len(w) = Len(q) + 1
      /\ \A k \in 1..Len(q) + 1 : w[k] = IF k < p THEN q[k] ELSE IF k = p THEN tmr ELSE q[k - 1]
  BY <1>1, WithProperties
<1>3. new \in Int /\ \A k \in 1..Len(q) : left(k) \in Int
  BY StateTypes, ElementOfSeq
<1>4. DOMAIN q = 1..Len(q) /\ Len(q) \in Nat
  OBVIOUS
<1>5. p <= Len(q) => new <= left(p)
  BY <1>1, <1>3, <1>4 DEF Later
<1>6. \A n \in 1..p - 1 : left(n) <= new
  BY <1>1, <1>3, <1>4 DEF Later
<1>7. \A j, k \in 1..Len(q) : j <= k => left(j) <= left(k)
  BY DEF Sorted
<1>. HIDE DEF p, w
<1>8. \A k \in 1..Len(q) + 1 :
        z.timers[w[k]].left = IF k < p THEN left(k) ELSE IF k = p THEN new ELSE left(k - 1)
  BY <1>2
<1>. HIDE DEF left, new
<1>9. ASSUME NEW j \in 1..Len(w), NEW k \in 1..Len(w), j < k
      PROVE  z.timers[w[j]].left <= z.timers[w[k]].left
  <2>1. j \in 1..Len(q) + 1 /\ k \in 1..Len(q) + 1 /\ j \in Int /\ k \in Int /\ p \in Int
    BY <1>1, <1>2, <1>4
  <2>2. CASE k < p
    <3>1. j \in 1..Len(q) /\ k \in 1..Len(q) /\ j < p
      BY <1>1, <1>4, <1>9, <2>1, <2>2
    <3>. QED  BY <1>7, <1>8, <1>9, <2>1, <2>2, <3>1
  <2>3. CASE k = p
    <3>1. j \in 1..p - 1 /\ j < p
      BY <1>9, <2>1, <2>3
    <3>. QED  BY <1>6, <1>8, <2>1, <2>3, <3>1
  <2>4. CASE k > p /\ j < p
    <3>1. j \in 1..Len(q) /\ k - 1 \in 1..Len(q) /\ j <= k - 1
      BY <1>1, <1>4, <1>9, <2>1, <2>4
    <3>. QED  BY <1>7, <1>8, <2>1, <2>4, <3>1
  <2>5. CASE k > p /\ j = p
    <3>1. p \in 1..Len(q) /\ k - 1 \in 1..Len(q) /\ p <= k - 1 /\ p <= Len(q)
      BY <1>1, <1>4, <1>9, <2>1, <2>5
    <3>2. new <= left(p) /\ left(p) <= left(k - 1)
      BY <1>5, <1>7, <3>1
    <3>3. new <= left(k - 1)
      BY <1>3, <3>1, <3>2 DEF left, new
    <3>. QED  BY <1>8, <2>1, <2>5, <3>3
  <2>6. CASE k > p /\ j > p
    <3>1. j - 1 \in 1..Len(q) /\ k - 1 \in 1..Len(q) /\ j - 1 <= k - 1
      BY <1>1, <1>4, <1>9, <2>1, <2>6
    <3>. QED  BY <1>7, <1>8, <2>1, <2>6, <3>1
  <2>. QED  BY <2>1, <2>2, <2>3, <2>4, <2>5, <2>6
<1>10. \A k \in 1..Len(w) : w[k] \in Ids /\ z.timers[w[k]].left \in Int
  BY <1>2, StateTypes, ElementOfSeq
<1>. QED  BY <1>2, <1>4, <1>9, <1>10 DEF Sorted, p, w

-----------------------------------------------------------------------------
(* What the functions on the lists do to sound lists.                      *)

\* timer_unset takes a timer out of the list it is in.
LEMMA UnsetSound ==
  ASSUME NEW z, NEW s, Sound(z, s), NEW tmr \in Ids, tmr \notin Entries(s["free"]),
         NEW y, y = timer_unset(z, tmr)
  PROVE  \E t : Sound(y, t) /\ Kept(y, t, z, s, tmr) /\ Idle(t, tmr)
<1>0. /\ Linked(z, s) /\ Timed(z, s) /\ IsState(z) /\ s \in [Lists -> Seq(Ids)]
      /\ \A list \in Lists : Distinct(s[list])
  BY DEF Sound, Linked
<1>1. \A id \in Ids \ {tmr} : /\ y.timers[id].left = z.timers[id].left
                              /\ y.timers[id].period = z.timers[id].period
  BY <1>0, UnsetFields
<1>2. CASE Idle(s, tmr)
  <2>1. Linked(y, s)
    BY <1>0, <1>2, UnsetStopped DEF Idle
  <2>2. \A list \in {"cpu", "rt"} : \A id \in Entries(s[list]) : id \in Ids \ {tmr}
    BY <1>0, <1>2, ElementOfSeq DEF Idle, Entries, Lists
  <2>3. \A list \in {"cpu", "rt"} : Sorted(y, s[list])
    <3>1. ASSUME NEW list \in {"cpu", "rt"}, NEW k \in 1..Len(s[list])
          PROVE  s[list][k] \in Ids \ {tmr}
      <4>1. s[list][k] \in Entries(s[list])
        BY DEF Entries
      <4>. QED  BY <2>2, <4>1
    <3>. QED  BY <1>0, <1>1, <3>1 DEF Timed, Sorted
  <2>4. Timed(y, s)
    BY <1>0, <1>1, <2>2, <2>3 DEF Timed
  <2>5. Kept(y, s, z, s, tmr)
    BY <1>1 DEF Kept
  <2>. QED  BY <1>2, <2>1, <2>4, <2>5 DEF Sound
<1>3. CASE ~Idle(s, tmr)
  <2>1. PICK l \in {"cpu", "rt"} : tmr \in Entries(s[l])
    BY <1>3 DEF Idle, Lists
  <2>2. PICK p \in 1..Len(s[l]) : s[l][p] = tmr
    BY <2>1 DEF Entries
  <2>. DEFINE w == Without(s[l], p)
              t == [s EXCEPT ![l] = w]
  <2>3. Linked(y, t)
    BY <1>0, <2>2, UnsetRunning
  <2>4. l \in Lists /\ s[l] \in Seq(Ids) /\ Distinct(s[l])
    BY <1>0 DEF Lists
  <2>5. w \in Seq(Ids) /\ Entries(w) = Entries(s[l]) \ {tmr}
    BY <2>2, <2>4, WithoutProperties
  <2>6. t[l] = w /\ \A m \in Lists : m # l => t[m] = s[m]
    BY <1>0, <2>4
  <2>7. \A m \in Lists : m # l => tmr \notin Entries(s[m])
    BY <1>0, <2>1, <2>4 DEF Linked
  <2>. HIDE DEF w, t
  <2>8. \A m \in Lists : Entries(t[m]) = Entries(s[m]) \ {tmr}
    BY <2>5, <2>6, <2>7
  <2>9. Idle(t, tmr) /\ Kept(y, t, z, s, tmr)
    BY <1>1, <2>8 DEF Idle, Kept
  <2>10. ASSUME NEW m \in {"cpu", "rt"} PROVE Sorted(y, t[m])
    <3>0. m \in Lists /\ s[m] \in Seq(Ids) /\ Sorted(z, s[m])
      BY <1>0 DEF Lists, Timed
    <3>1. CASE m = l
      <4>1. Sorted(y, w)
        BY <1>0, <1>1, <2>2, <2>4, <3>0, <3>1, SortedWithout DEF w
      <4>. QED  BY <2>6, <3>1, <4>1
    <3>2. CASE m # l
      <4>1. \A k \in 1..Len(s[m]) : s[m][k] \in Ids \ {tmr}
        BY <2>7, <3>0, <3>2, ElementOfSeq DEF Entries
      <4>2. Sorted(y, s[m])
        BY <1>1, <3>0, <4>1 DEF Sorted
      <4>. QED  BY <2>6, <3>0, <3>2, <4>2
    <3>. QED  BY <3>1, <3>2
  <2>11. Timed(y, t)
    <3>1. \A m \in {"cpu", "rt"} : m \in Lists /\ Entries(s[m]) \subseteq Ids
      BY <1>0, ElementOfSeq DEF Lists, Entries
    <3>. QED  BY <1>0, <1>1, <2>8, <2>10, <3>1 DEF Timed
  <2>. QED  BY <2>3, <2>9, <2>11 DEF Sound
<1>. QED  BY <1>2, <1>3

\* timer_insert puts an idle timer with a deadline into a list.
LEMMA InsertSound ==
  ASSUME NEW z, NEW s, Sound(z, s), NEW tmr \in Ids, Idle(s, tmr), NEW list \in {"cpu", "rt"},
         z.timers[tmr].left > -Window, z.timers[tmr].period \in Periods,
         NEW y, y = timer_insert(z, list, tmr)
  PROVE  \E t : /\ Sound(y, t) /\ Kept(y, t, z, s, tmr) /\ tmr \in Entries(t[list])
                /\ y.timers[tmr].left = z.timers[tmr].left
<1>. DEFINE q == s[list]
            p == Place(z, q, tmr)
            w == With(q, p, tmr)
            t == [s EXCEPT ![list] = w]
<1>0. /\ Linked(z, s) /\ Timed(z, s) /\ IsState(z) /\ s \in [Lists -> Seq(Ids)] /\ list \in Lists
      /\ q \in Seq(Ids) /\ Distinct(q) /\ tmr \notin Entries(q) /\ Sorted(z, q)
  BY DEF Sound, Linked, Timed, Idle, Lists
<1>1. y = InsertAt(z, list, tmr, q, p)
  <2>1. Listed(z, list) = q
    BY <1>0, LinkedListed
  <2>. QED  BY <2>1, InsertPlace
<1>2. p \in 1..Len(q) + 1
  BY <1>0, FirstPlace
<1>3. Linked(y, t)
  <2>1. \A m \in Lists : tmr \notin Entries(s[m])
    BY DEF Idle
  <2>. HIDE DEF p
  <2>2. Linked(InsertAt(z, list, tmr, s[list], p), [s EXCEPT ![list] = With(s[list], p, tmr)])
    BY <1>0, <1>2, <2>1, InsertLinked
  <2>. QED  BY <1>1, <2>2, Zenon
<1>4. Entries(w) = Entries(q) \cup {tmr}
  <2>. HIDE DEF p
  <2>. QED  BY <1>0, <1>2, WithProperties
<1>5. \A id \in Ids : /\ y.timers[id].left = z.timers[id].left
                      /\ y.timers[id].period = z.timers[id].period
  <2>1. /\ Before(q, p) \in Links /\ Behind(q, p) \in Links
        /\ Before(q, p) # tmr /\ Behind(q, p) # tmr
    <3>. HIDE DEF p, q
    <3>1. /\ Before(q, p) \in Links /\ Behind(q, p) \in Links
          /\ Before(q, p) # 0 => Before(q, p) = q[p - 1] /\ p - 1 \in 1..Len(q)
          /\ Behind(q, p) # 0 => Behind(q, p) = q[p] /\ p \in 1..Len(q)
      BY <1>0, <1>2, Around
    <3>2. \A k \in 1..Len(q) : q[k] # tmr
      BY <1>0 DEF Entries
    <3>3. tmr # 0
      BY <1>0, StateTypes
    <3>. QED  BY <3>1, <3>2, <3>3
  <2>. HIDE DEF p, q
  <2>. QED  BY <1>0, <1>1, <2>1, InsertFields
<1>6. Sorted(z, w)
  BY <1>0, SortedWith
<1>7. t[list] = w /\ \A m \in Lists : m # list => t[m] = s[m]
  BY <1>0
<1>8. w \in Seq(Ids)
  <2>. HIDE DEF p
  <2>. QED  BY <1>0, <1>2, WithProperties
<1>. HIDE DEF p, w, t
<1>9. \A m \in Lists : /\ t[m] \in Seq(Ids)
                       /\ Entries(t[m]) = IF m = list THEN Entries(s[m]) \cup {tmr} ELSE Entries(s[m])
  BY <1>0, <1>4, <1>7, <1>8
<1>10. Kept(y, t, z, s, tmr) /\ tmr \in Entries(t[list])
  BY <1>0, <1>5, <1>9 DEF Kept
<1>11. ASSUME NEW m \in {"cpu", "rt"} PROVE Sorted(y, t[m])
  <2>1. m \in Lists /\ Sorted(z, t[m])
    BY <1>0, <1>6, <1>7 DEF Timed, Lists
  <2>2. \A k \in 1..Len(t[m]) : t[m][k] \in Ids
    BY <1>9, <2>1, ElementOfSeq
  <2>. QED  BY <1>5, <2>1, <2>2 DEF Sorted
<1>12. Timed(y, t)
  <2>1. \A m \in {"cpu", "rt"} : m \in Lists /\ Entries(s[m]) \subseteq Ids
    BY <1>0, ElementOfSeq DEF Lists, Entries
  <2>2. ASSUME NEW m \in {"cpu", "rt"}, NEW id \in Entries(t[m])
        PROVE  y.timers[id].left > -Window /\ y.timers[id].period \in Periods
    <3>1. id \in Ids /\ (id \in Entries(s[m]) \/ id = tmr)
      BY <1>9, <2>1
    <3>2. z.timers[id].left > -Window /\ z.timers[id].period \in Periods
      BY <1>0, <3>1 DEF Timed
    <3>. QED  BY <1>5, <3>1, <3>2
  <2>. QED  BY <1>11, <2>2 DEF Timed
<1>. QED  BY <1>3, <1>5, <1>10, <1>12 DEF Sound

\* Another list of free entries.
LEMMA FreeLinked ==
  ASSUME NEW z, NEW s, Linked(z, s), NEW y, IsState(y), NEW f \in Seq(Ids), Distinct(f),
         Onward(y, y.heads["free"], f),
         y.heads["cpu"] = z.heads["cpu"], y.heads["rt"] = z.heads["rt"],
         \A id \in Ids : y.timers[id].prev = z.timers[id].prev,
         \A id \in Entries(s["cpu"]) \cup Entries(s["rt"]) :
           y.timers[id].next = z.timers[id].next /\ id \notin Entries(f),
         \A id \in Ids : id \notin Entries(s["cpu"]) \cup Entries(s["rt"]) \cup Entries(f)
                           => y.timers[id].next = 0
  PROVE  Linked(y, [s EXCEPT !["free"] = f])
<1>. DEFINE t == [s EXCEPT !["free"] = f]
<1>1. s \in [Lists -> Seq(Ids)] /\ "free" \in Lists
  BY DEF Linked, Lists
<1>2. t \in [Lists -> Seq(Ids)] /\ t["free"] = f /\ t["cpu"] = s["cpu"] /\ t["rt"] = s["rt"]
  BY <1>1 DEF Lists
<1>. HIDE DEF t
<1>3. ASSUME NEW list \in {"cpu", "rt"}
      PROVE  /\ t[list] = s[list] /\ y.heads[list] = z.heads[list]
             /\ Distinct(t[list]) /\ Onward(y, y.heads[list], t[list]) /\ Backward(y, t[list])
  <2>1. list \in Lists /\ t[list] = s[list] /\ y.heads[list] = z.heads[list]
    BY <1>2 DEF Lists
  <2>2. /\ s[list] \in Seq(Ids) /\ Distinct(s[list])
        /\ Onward(z, z.heads[list], s[list]) /\ Backward(z, s[list])
    BY <2>1 DEF Linked
  <2>3. \A id \in Entries(s[list]) : /\ y.timers[id].next = z.timers[id].next
                                     /\ y.timers[id].prev = z.timers[id].prev
    <3>1. \A id \in Entries(s[list]) : id \in Ids
      BY <2>2, ElementOfSeq DEF Entries
    <3>. QED  BY <3>1
  <2>4. Onward(z, y.heads[list], s[list])
    BY <2>1, <2>2
  <2>5. Onward(y, y.heads[list], s[list])
    BY <2>2, <2>3, <2>4, SameLinks
  <2>6. Backward(y, s[list])
    BY <2>2, <2>3, SameLinks
  <2>. QED  BY <2>1, <2>2, <2>5, <2>6
<1>4. \A list \in Lists : Distinct(t[list]) /\ Onward(y, y.heads[list], t[list])
  BY <1>2, <1>3 DEF Lists
<1>5. \A l, m \in Lists : l # m => Entries(t[l]) \cap Entries(t[m]) = {}
  <2>1. Entries(s["cpu"]) \cap Entries(s["rt"]) = {}
    BY DEF Linked, Lists
  <2>. QED  BY <1>2, <2>1 DEF Lists
<1>6. \A id \in Ids :
       /\ id \notin Entries(t["cpu"]) \cup Entries(t["rt"]) => y.timers[id].prev = 0
       /\ id \notin Entries(t["cpu"]) \cup Entries(t["rt"]) \cup Entries(t["free"])
            => y.timers[id].next = 0
  BY <1>2 DEF Linked
<1>7. Linked(y, t)
  BY <1>2, <1>3, <1>4, <1>5, <1>6 DEF Linked
<1>. QED  BY <1>7 DEF t

\* The running timers stay in order when only the free list changes.
LEMMA FreeTimed ==
  ASSUME NEW z, NEW s, Sound(z, s), NEW y, NEW f,
         \A id \in Entries(s["cpu"]) \cup Entries(s["rt"]) :
           /\ y.timers[id].left = z.timers[id].left
           /\ y.timers[id].period = z.timers[id].period
  PROVE  Timed(y, [s EXCEPT !["free"] = f])
<1>. DEFINE t == [s EXCEPT !["free"] = f]
<1>1. \A list \in {"cpu", "rt"} : t[list] = s[list]
  BY DEF Sound, Linked, Lists
<1>. HIDE DEF t
<1>2. ASSUME NEW list \in {"cpu", "rt"} PROVE Sorted(y, s[list])
  <2>1. \A k \in 1..Len(s[list]) : s[list][k] \in Entries(s["cpu"]) \cup Entries(s["rt"])
    BY DEF Entries
  <2>2. Sorted(z, s[list])
    BY DEF Sound, Timed
  <2>. QED  BY <2>1, <2>2 DEF Sorted
<1>3. \A list \in {"cpu", "rt"} : \A id \in Entries(s[list]) :
        y.timers[id].left > -Window /\ y.timers[id].period \in Periods
  BY DEF Sound, Timed
<1>4. Timed(y, t)
  BY <1>1, <1>2, <1>3 DEF Timed
<1>. QED  BY <1>4 DEF t

\* timer_free puts an idle timer before the free ones.
LEMMA FreeSound ==
  ASSUME NEW z, NEW s, Sound(z, s), NEW tmr \in Ids, Idle(s, tmr),
         NEW y, y = timer_free(z, tmr)
  PROVE  \E t : /\ Sound(y, t) /\ Kept(y, t, z, s, tmr)
                /\ tmr \notin Entries(t["cpu"]) \cup Entries(t["rt"])
<1>. DEFINE f == s["free"]
            w == With(f, 1, tmr)
            t == [s EXCEPT !["free"] = w]
            head == z.heads["free"]
<1>0. /\ Linked(z, s) /\ IsState(z) /\ s \in [Lists -> Seq(Ids)]
      /\ f \in Seq(Ids) /\ Distinct(f) /\ tmr \notin Entries(f) /\ Onward(z, head, f)
      /\ z.timers[tmr].prev = 0 /\ head \in Links /\ 0 \in Links
  BY StateTypes DEF Sound, Linked, Idle, Lists
<1>. HIDE DEF head
<1>1. /\ IsState(y) /\ y.heads = [z.heads EXCEPT !["free"] = tmr]
      /\ y.timers = [z.timers EXCEPT ![tmr] = [z.timers[tmr] EXCEPT !.next = head, !.prev = 0]]
  <2>. DEFINE new == [z.timers[tmr] EXCEPT !.next = head, !.prev = 0]
              more == [z.timers EXCEPT ![tmr] = new]
              tops == [z.heads EXCEPT !["free"] = tmr]
  <2>1. y = [z EXCEPT !.timers[tmr].next = head, !.timers[tmr].prev = 0, !.heads["free"] = tmr]
    BY Zenon DEF timer_free, head
  <2>2. z \in [timers : [Ids -> Timer], heads : [Lists -> Links]] /\ z.timers[tmr] \in Timer
    BY <1>0, StateTypes DEF IsState
  <2>3. new \in Timer
    BY <1>0, <2>2 DEF Timer, Links
  <2>4. more \in [Ids -> Timer]
    <3>. HIDE DEF new
    <3>. QED  BY <2>2, <2>3
  <2>5. tops \in [Lists -> Links]
    BY <1>0, <2>2, StateTypes
  <2>6. y = [z EXCEPT !.timers = more, !.heads = tops]
    BY <2>1, <2>2
  <2>. HIDE DEF more, tops
  <2>7. y = [timers |-> more, heads |-> tops]
    BY <2>2, <2>6
  <2>. QED  BY <2>4, <2>5, <2>7 DEF IsState, more, tops
<1>2. /\ y.timers[tmr].next = head
      /\ \A id \in Ids : y.timers[id].prev = z.timers[id].prev
      /\ \A id \in Ids \ {tmr} : y.timers[id] = z.timers[id]
  <2>1. z.timers \in [Ids -> Timer]
    BY <1>0 DEF IsState
  <2>2. y.timers[tmr] = [z.timers[tmr] EXCEPT !.next = head, !.prev = 0]
    BY <1>1, <2>1
  <2>3. \A id \in Ids \ {tmr} : y.timers[id] = z.timers[id]
    BY <1>1, <2>1
  <2>4. z.timers[tmr] \in Timer
    BY <2>1
  <2>5. y.timers[tmr].next = head /\ y.timers[tmr].prev = 0
    BY <2>2, <2>4 DEF Timer
  <2>. QED  BY <1>0, <2>3, <2>5
<1>3. /\ y.heads["free"] = tmr
      /\ y.heads["cpu"] = z.heads["cpu"] /\ y.heads["rt"] = z.heads["rt"]
  BY <1>0, <1>1 DEF IsState, Lists
<1>4. /\ w \in Seq(Ids) /\ Len(w) = Len(f) + 1
      /\ \A k \in 1..Len(f) + 1 : w[k] = IF k = 1 THEN tmr ELSE f[k - 1]
      /\ Distinct(w)
      /\ Entries(w) = Entries(f) \cup {tmr}
  <2>1. 1 \in 1..Len(f) + 1
    BY <1>0
  <2>2. /\ w \in Seq(Ids) /\ Len(w) = Len(f) + 1
        /\ \A k \in 1..Len(f) + 1 : w[k] = IF k < 1 THEN f[k] ELSE IF k = 1 THEN tmr ELSE f[k - 1]
        /\ Distinct(w)
        /\ Entries(w) = Entries(f) \cup {tmr}
    <3>1. f \in Seq(Ids) /\ Distinct(f) /\ tmr \notin Entries(f)
      BY <1>0
    <3>. HIDE DEF f
    <3>. QED  BY <2>1, <3>1, WithProperties
  <2>. QED  BY <2>2
<1>. HIDE DEF w, t, f
<1>5. Onward(y, y.heads["free"], w)
  <2>0. Len(f) \in Nat /\ head = First(f) /\ \A k \in 1..Len(f) : z.timers[f[k]].next = After(f, k)
    BY <1>0 DEF Onward
  <2>1. y.heads["free"] = First(w)
    BY <1>3, <1>4, <2>0 DEF First
  <2>2. ASSUME NEW k \in 1..Len(w) PROVE y.timers[w[k]].next = After(w, k)
    <3>1. CASE k = 1
      <4>1. y.timers[w[k]].next = First(f)
        BY <1>2, <1>4, <2>0, <3>1
      <4>2. After(w, 1) = First(f)
        BY <1>4, <2>0 DEF After, First
      <4>. QED  BY <3>1, <4>1, <4>2
    <3>2. CASE k # 1
      <4>1. k - 1 \in 1..Len(f) /\ w[k] = f[k - 1]
        BY <1>4, <2>0, <3>2
      <4>2. w[k] \in Ids \ {tmr}
        BY <1>0, <4>1, ElementOfSeq DEF Entries
      <4>3. y.timers[w[k]].next = After(f, k - 1)
        BY <1>2, <2>0, <4>1, <4>2
      <4>4. After(f, k - 1) = After(w, k)
        <5>1. k - 1 = Len(f) <=> k = Len(w)
          BY <1>4, <2>0, <4>1
        <5>2. k # Len(w) => k + 1 \in 1..Len(f) + 1 /\ k + 1 # 1 /\ (k + 1) - 1 = k /\ (k - 1) + 1 = k
          BY <1>4, <2>0
        <5>3. k # Len(w) => w[k + 1] = f[(k - 1) + 1]
          BY <1>4, <5>2
        <5>. QED  BY <5>1, <5>3 DEF After
      <4>. QED  BY <4>3, <4>4
    <3>. QED  BY <3>1, <3>2
  <2>. QED  BY <2>1, <2>2, Zenon DEF Onward
<1>6. \A id \in Entries(s["cpu"]) \cup Entries(s["rt"]) :
        id \in Ids \ {tmr} /\ id \notin Entries(w)
  <2>1. \A list \in Lists : Entries(s[list]) \subseteq Ids
    BY <1>0, ElementOfSeq DEF Entries
  <2>2. /\ Entries(s["cpu"]) \cap Entries(f) = {} /\ Entries(s["rt"]) \cap Entries(f) = {}
    BY <1>0 DEF Linked, Lists, f
  <2>. QED  BY <1>4, <2>1, <2>2 DEF Idle, Lists
<1>7. \A id \in Ids : id \notin Entries(s["cpu"]) \cup Entries(s["rt"]) \cup Entries(w)
                        => y.timers[id].next = 0
  <2>1. \A id \in Ids : id \notin Entries(s["cpu"]) \cup Entries(s["rt"]) \cup Entries(f)
                        => z.timers[id].next = 0
    BY <1>0 DEF Linked, f
  <2>. QED  BY <1>2, <1>4, <2>1
<1>8. Linked(y, t)
  <2>1. \A id \in Entries(s["cpu"]) \cup Entries(s["rt"]) :
          y.timers[id].next = z.timers[id].next /\ id \notin Entries(w)
    BY <1>2, <1>6
  <2>2. Linked(z, s) /\ IsState(y) /\ w \in Seq(Ids) /\ Distinct(w)
    BY <1>0, <1>1, <1>4
  <2>3. \A id \in Ids : y.timers[id].prev = z.timers[id].prev
    BY <1>2
  <2>4. Linked(y, [s EXCEPT !["free"] = w])
    BY <1>3, <1>5, <1>7, <2>1, <2>2, <2>3, FreeLinked
  <2>. QED  BY <2>4 DEF t
<1>9. Timed(y, t)
  BY <1>2, <1>6, FreeTimed DEF t
<1>10. t["free"] = w /\ t["cpu"] = s["cpu"] /\ t["rt"] = s["rt"]
  BY <1>0 DEF t, Lists
<1>11. Kept(y, t, z, s, tmr) /\ tmr \notin Entries(t["cpu"]) \cup Entries(t["rt"])
  BY <1>2, <1>4, <1>6, <1>10 DEF Kept, Lists, f
<1>. QED  BY <1>8, <1>9, <1>11 DEF Sound

Taken(z, id) == [z EXCEPT !.heads["free"] = z.timers[id].next, !.timers[id].next = 0]

\* timer_alloc takes the first of the free entries.
LEMMA TakeSound ==
  ASSUME NEW z, NEW s, Sound(z, s), NEW id, id = z.heads["free"], id # 0,
         NEW y, y = Taken(z, id)
  PROVE  /\ id \in Ids /\ id \in Entries(s["free"])
         /\ \E t : Sound(y, t) /\ Kept(y, t, z, s, id) /\ Idle(t, id)
<1>. DEFINE f == s["free"]
            w == Without(f, 1)
            t == [s EXCEPT !["free"] = w]
            next == z.timers[id].next
<1>0. /\ Linked(z, s) /\ IsState(z) /\ s \in [Lists -> Seq(Ids)]
      /\ f \in Seq(Ids) /\ Distinct(f) /\ id = First(f)
      /\ \A k \in 1..Len(f) : z.timers[f[k]].next = After(f, k)
  BY DEF Sound, Linked, Lists, Onward
<1>1. Len(f) # 0 /\ 1 \in 1..Len(f) /\ Len(f) \in Nat /\ f[1] = id /\ next = After(f, 1)
  BY <1>0 DEF First
<1>2. id \in Ids /\ id \in Entries(f) /\ next \in Links /\ 0 \in Links
  BY <1>0, <1>1, StateTypes, ElementOfSeq DEF Entries
<1>. HIDE DEF next, f
<1>3. /\ IsState(y) /\ y.heads = [z.heads EXCEPT !["free"] = next]
      /\ y.timers = [z.timers EXCEPT ![id] = [z.timers[id] EXCEPT !.next = 0]]
  <2>. DEFINE new == [z.timers[id] EXCEPT !.next = 0]
              more == [z.timers EXCEPT ![id] = new]
              tops == [z.heads EXCEPT !["free"] = next]
  <2>1. y = [z EXCEPT !.heads["free"] = next, !.timers[id].next = 0]
    BY Zenon DEF next, Taken
  <2>2. z \in [timers : [Ids -> Timer], heads : [Lists -> Links]] /\ z.timers[id] \in Timer
    BY <1>0, <1>2, StateTypes DEF IsState
  <2>3. new \in Timer
    BY <1>2, <2>2 DEF Timer, Links
  <2>4. more \in [Ids -> Timer]
    <3>. HIDE DEF new
    <3>. QED  BY <2>2, <2>3
  <2>5. tops \in [Lists -> Links]
    BY <1>2, <2>2
  <2>6. y = [z EXCEPT !.timers = more, !.heads = tops]
    BY <2>1, <2>2
  <2>. HIDE DEF more, tops
  <2>7. y = [timers |-> more, heads |-> tops]
    BY <2>2, <2>6
  <2>8. IsState(y) /\ y.heads = tops /\ y.timers = more
    BY <2>4, <2>5, <2>7 DEF IsState
  <2>. QED  BY <2>8 DEF more, tops
<1>4. /\ y.timers[id].next = 0
      /\ \A i \in Ids : /\ y.timers[i].prev = z.timers[i].prev
                        /\ y.timers[i].left = z.timers[i].left
                        /\ y.timers[i].period = z.timers[i].period
      /\ \A i \in Ids \ {id} : y.timers[i] = z.timers[i]
  <2>1. z.timers \in [Ids -> Timer]
    BY <1>0 DEF IsState
  <2>2. y.timers[id] = [z.timers[id] EXCEPT !.next = 0]
    BY <1>2, <1>3, <2>1
  <2>3. \A i \in Ids \ {id} : y.timers[i] = z.timers[i]
    BY <1>3, <2>1
  <2>4. z.timers[id] \in Timer
    BY <1>2, <2>1
  <2>5. /\ y.timers[id].next = 0 /\ y.timers[id].prev = z.timers[id].prev
        /\ y.timers[id].left = z.timers[id].left /\ y.timers[id].period = z.timers[id].period
    BY <2>2, <2>4 DEF Timer
  <2>. QED  BY <2>3, <2>5
<1>5. /\ y.heads["free"] = next
      /\ y.heads["cpu"] = z.heads["cpu"] /\ y.heads["rt"] = z.heads["rt"]
  BY <1>0, <1>3 DEF IsState, Lists
<1>6. /\ w \in Seq(Ids) /\ Len(w) = Len(f) - 1
      /\ \A k \in 1..Len(f) - 1 : w[k] = f[k + 1]
      /\ Distinct(w)
      /\ Entries(w) = Entries(f) \ {id}
  <2>1. /\ w \in Seq(Ids) /\ Len(w) = Len(f) - 1
        /\ \A k \in 1..Len(f) - 1 : w[k] = IF k < 1 THEN f[k] ELSE f[k + 1]
        /\ Distinct(w)
        /\ Entries(w) = Entries(f) \ {id}
    BY <1>0, <1>1, WithoutProperties
  <2>. QED  BY <2>1
<1>. HIDE DEF w, t
<1>7. Onward(y, y.heads["free"], w)
  <2>1. y.heads["free"] = First(w)
    BY <1>1, <1>5, <1>6 DEF First, After
  <2>2. ASSUME NEW k \in 1..Len(w) PROVE y.timers[w[k]].next = After(w, k)
    <3>1. k \in 1..Len(f) - 1 /\ k + 1 \in 1..Len(f) /\ w[k] = f[k + 1]
      BY <1>1, <1>6
    <3>2. w[k] \in Ids \ {id}
      <4>1. w[k] \in Entries(w) /\ w[k] \in Ids
        BY <1>6, ElementOfSeq DEF Entries
      <4>. QED  BY <1>6, <4>1
    <3>3. y.timers[w[k]].next = After(f, k + 1)
      BY <1>0, <1>4, <3>1, <3>2
    <3>4. After(f, k + 1) = After(w, k)
      <4>1. k + 1 = Len(f) <=> k = Len(w)
        BY <1>1, <1>6, <3>1
      <4>2. k # Len(w) => k + 1 \in 1..Len(f) - 1
        BY <1>1, <1>6
      <4>3. k # Len(w) => w[k + 1] = f[(k + 1) + 1]
        BY <1>6, <4>2
      <4>. QED  BY <4>1, <4>3 DEF After
    <3>. QED  BY <3>3, <3>4
  <2>. QED  BY <2>1, <2>2, Zenon DEF Onward
<1>8. \A i \in Entries(s["cpu"]) \cup Entries(s["rt"]) :
        i \in Ids \ {id} /\ i \notin Entries(w)
  <2>1. \A list \in Lists : Entries(s[list]) \subseteq Ids
    BY <1>0, ElementOfSeq DEF Entries
  <2>2. /\ Entries(s["cpu"]) \cap Entries(f) = {} /\ Entries(s["rt"]) \cap Entries(f) = {}
    BY <1>0 DEF Linked, Lists, f
  <2>. QED  BY <1>2, <1>6, <2>1, <2>2 DEF Lists
<1>9. \A i \in Ids : i \notin Entries(s["cpu"]) \cup Entries(s["rt"]) \cup Entries(w)
                        => y.timers[i].next = 0
  <2>1. \A i \in Ids : i \notin Entries(s["cpu"]) \cup Entries(s["rt"]) \cup Entries(f)
                        => z.timers[i].next = 0
    BY <1>0 DEF Linked, f
  <2>. QED  BY <1>4, <1>6, <2>1
<1>10. Linked(y, t)
  <2>1. \A i \in Entries(s["cpu"]) \cup Entries(s["rt"]) :
          y.timers[i].next = z.timers[i].next /\ i \notin Entries(w)
    BY <1>4, <1>8
  <2>2. Linked(z, s) /\ IsState(y) /\ w \in Seq(Ids) /\ Distinct(w)
    BY <1>0, <1>3, <1>6
  <2>3. \A i \in Ids : y.timers[i].prev = z.timers[i].prev
    BY <1>4
  <2>4. Linked(y, [s EXCEPT !["free"] = w])
    BY <1>5, <1>7, <1>9, <2>1, <2>2, <2>3, FreeLinked
  <2>. QED  BY <2>4 DEF t
<1>11. Timed(y, t)
  <2>1. \A i \in Entries(s["cpu"]) \cup Entries(s["rt"]) :
          /\ y.timers[i].left = z.timers[i].left
          /\ y.timers[i].period = z.timers[i].period
    BY <1>4, <1>8
  <2>. QED  BY <2>1, FreeTimed DEF t
<1>12. t["free"] = w /\ t["cpu"] = s["cpu"] /\ t["rt"] = s["rt"]
  BY <1>0 DEF t, Lists
<1>13. Kept(y, t, z, s, id) /\ Idle(t, id)
  <2>1. /\ \A i \in Ids \ {id} : /\ y.timers[i].left = z.timers[i].left
                                 /\ y.timers[i].period = z.timers[i].period
    BY <1>4
  <2>2. \A list \in Lists : Entries(t[list]) \ {id} = Entries(s[list]) \ {id}
    BY <1>6, <1>12 DEF Lists, f
  <2>. QED  BY <1>6, <1>8, <1>12, <2>1, <2>2 DEF Kept, Idle, Lists
<1>. QED  BY <1>2, <1>10, <1>11, <1>13 DEF Sound, f

\* When the array grows, what is new is free, and nothing else changes.
LEMMA GrowSound ==
  ASSUME NEW s, Sound(Z80, s), heads["free"] = 0, ntimers \in Ids, Grown <= MaxTimers,
         \A list \in Lists : \A id \in Entries(s[list]) : id < ntimers,
         NEW y, y = allFree(ntimers, Grown)
  PROVE  /\ y.heads["free"] = Grown /\ Grown # 0
         /\ \E t : /\ Sound(y, t) /\ t["cpu"] = s["cpu"] /\ t["rt"] = s["rt"]
                   /\ Entries(t["free"]) = ntimers..Grown
                   /\ \A id \in Ids : /\ y.timers[id].left = timers[id].left
                                      /\ y.timers[id].period = timers[id].period
<1>. DEFINE f == [k \in 1..ntimers + 1 |-> Grown + 1 - k]
            t == [s EXCEPT !["free"] = f]
            next(id) == IF id = ntimers THEN 0 ELSE id - 1
<1>0. /\ Linked(Z80, s) /\ IsState(Z80) /\ s \in [Lists -> Seq(Ids)]
      /\ MaxTimers \in Nat /\ ntimers \in 1..MaxTimers
      /\ Grown \in Int /\ Grown = ntimers + ntimers /\ Grown \in Links /\ Grown # 0 /\ 0 \in Links
      /\ ntimers + 1 \in Nat
  BY TimersAssumption DEF Sound, Linked, TimersAssumption, Ids, Links, Grown
<1>1. timers \in [Ids -> Timer] /\ heads \in [Lists -> Links]
  BY <1>0 DEF IsState, Z80
<1>2. y.timers = [id \in Ids |-> IF id \in ntimers..Grown
                                 THEN [timers[id] EXCEPT !.next = next(id), !.prev = 0]
                                 ELSE timers[id]]
      /\ y.heads = [heads EXCEPT !["free"] = Grown]
      /\ y = [timers |-> y.timers, heads |-> y.heads]
  BY DEF allFree
<1>3. \A id \in Ids :
        /\ y.timers[id] \in Timer
        /\ y.timers[id].left = timers[id].left /\ y.timers[id].period = timers[id].period
        /\ y.timers[id].next = IF id \in ntimers..Grown THEN next(id) ELSE timers[id].next
        /\ y.timers[id].prev = IF id \in ntimers..Grown THEN 0 ELSE timers[id].prev
  <2>. SUFFICES ASSUME NEW id \in Ids
       PROVE  /\ y.timers[id] \in Timer
              /\ y.timers[id].left = timers[id].left /\ y.timers[id].period = timers[id].period
              /\ y.timers[id].next = IF id \in ntimers..Grown THEN next(id) ELSE timers[id].next
              /\ y.timers[id].prev = IF id \in ntimers..Grown THEN 0 ELSE timers[id].prev
    OBVIOUS
  <2>1. timers[id] \in Timer
    BY <1>1
  <2>2. id \in ntimers..Grown => next(id) \in Links
    BY <1>0 DEF Ids, Links
  <2>. HIDE DEF next
  <2>3. y.timers[id] = IF id \in ntimers..Grown
                       THEN [timers[id] EXCEPT !.next = next(id), !.prev = 0] ELSE timers[id]
    BY <1>2
  <2>. QED  BY <1>0, <2>1, <2>2, <2>3 DEF Timer, Links
<1>4. IsState(y)
  <2>1. y.timers \in [Ids -> Timer]
    BY <1>2, <1>3
  <2>2. y.heads \in [Lists -> Links]
    BY <1>0, <1>1, <1>2
  <2>. QED  BY <1>2, <2>1, <2>2 DEF IsState
<1>5. /\ y.heads["free"] = Grown
      /\ y.heads["cpu"] = heads["cpu"] /\ y.heads["rt"] = heads["rt"]
  BY <1>1, <1>2 DEF Lists
<1>6. /\ f \in Seq(Ids) /\ Len(f) = ntimers + 1
      /\ \A k \in 1..ntimers + 1 : f[k] = Grown + 1 - k
  <2>1. \A k \in 1..ntimers + 1 : Grown + 1 - k \in Ids
    BY <1>0 DEF Ids
  <2>. QED  BY <1>0, <2>1
<1>. HIDE DEF f, t
<1>7. Distinct(f)
  BY <1>0, <1>6 DEF Distinct
<1>8. Entries(f) = ntimers..Grown
  <2>1. \A k \in 1..ntimers + 1 : f[k] \in ntimers..Grown
    BY <1>0, <1>6
  <2>2. ASSUME NEW id \in ntimers..Grown PROVE id \in Entries(f)
    <3>1. Grown + 1 - id \in 1..ntimers + 1 /\ Grown + 1 - (Grown + 1 - id) = id
      BY <1>0
    <3>2. f[Grown + 1 - id] = id
      BY <1>6, <3>1
    <3>. QED  BY <1>6, <3>1, <3>2 DEF Entries
  <2>. QED  BY <1>6, <2>1, <2>2 DEF Entries
<1>9. Onward(y, y.heads["free"], f)
  <2>1. y.heads["free"] = First(f)
    <3>1. 1 \in 1..ntimers + 1 /\ Grown + 1 - 1 = Grown /\ ntimers + 1 # 0
      BY <1>0
    <3>. QED  BY <1>5, <1>6, <3>1 DEF First
  <2>2. ASSUME NEW k \in 1..Len(f) PROVE y.timers[f[k]].next = After(f, k)
    <3>1. k \in 1..ntimers + 1 /\ f[k] = Grown + 1 - k /\ f[k] \in Entries(f) /\ f[k] \in Ids
      BY <1>6, ElementOfSeq DEF Entries
    <3>2. y.timers[f[k]].next = next(f[k])
      BY <1>3, <1>8, <3>1
    <3>3. CASE k = ntimers + 1
      BY <1>0, <1>6, <3>1, <3>2, <3>3 DEF After
    <3>4. CASE k # ntimers + 1
      <4>1. k + 1 \in 1..ntimers + 1 /\ Grown + 1 - (k + 1) = Grown + 1 - k - 1
            /\ Grown + 1 - k # ntimers
        BY <1>0, <3>1, <3>4
      <4>2. f[k + 1] = Grown + 1 - k - 1
        BY <1>6, <4>1
      <4>3. \A id \in Ids : id = Grown + 1 - k => next(id) = Grown + 1 - k - 1
        BY <1>0, <4>1
      <4>. HIDE DEF next
      <4>. QED  BY <1>6, <3>1, <3>2, <3>4, <4>2, <4>3 DEF After
    <3>. QED  BY <3>3, <3>4
  <2>. QED  BY <2>1, <2>2, Zenon DEF Onward
<1>10. \A list \in Lists : \A id \in Entries(s[list]) : id \in Ids /\ id \notin ntimers..Grown
  <2>1. \A list \in Lists : Entries(s[list]) \subseteq Ids
    BY <1>0, ElementOfSeq DEF Entries
  <2>2. \A id \in Ids : id < ntimers => id \notin ntimers..Grown
    BY <1>0 DEF Ids
  <2>. QED  BY <2>1, <2>2
<1>11. s["free"] = <<>>
  <2>1. s["free"] \in Seq(Ids) /\ heads["free"] = First(s["free"])
    BY <1>0 DEF Linked, Lists, Onward, Z80
  <2>2. 0 \notin Ids
    BY DEF Ids
  <2>3. Len(s["free"]) = 0
    BY <2>1, <2>2, ElementOfSeq DEF First
  <2>. QED  BY <2>1, <2>3
<1>12. Linked(y, t)
  <2>1. \A i \in Entries(s["cpu"]) \cup Entries(s["rt"]) :
          y.timers[i].next = Z80.timers[i].next /\ i \notin Entries(f)
    BY <1>3, <1>8, <1>10 DEF Lists, Z80
  <2>2. \A i \in Ids : y.timers[i].prev = Z80.timers[i].prev
    <3>1. \A i \in Ids : i \notin Entries(s["cpu"]) \cup Entries(s["rt"]) => timers[i].prev = 0
      BY <1>0 DEF Linked, Z80
    <3>. QED  BY <1>3, <1>10, <3>1 DEF Lists, Z80
  <2>3. \A i \in Ids : i \notin Entries(s["cpu"]) \cup Entries(s["rt"]) \cup Entries(f)
                        => y.timers[i].next = 0
    <3>1. \A i \in Ids : i \notin Entries(s["cpu"]) \cup Entries(s["rt"]) \cup Entries(s["free"])
                        => timers[i].next = 0
      BY <1>0 DEF Linked, Z80
    <3>2. Entries(s["free"]) = {}
      BY <1>11 DEF Entries
    <3>. QED  BY <1>3, <1>8, <3>1, <3>2
  <2>4. y.heads["cpu"] = Z80.heads["cpu"] /\ y.heads["rt"] = Z80.heads["rt"]
    BY <1>5 DEF Z80
  <2>5. Linked(Z80, s) /\ f \in Seq(Ids)
    BY <1>0, <1>6
  <2>6. Linked(y, [s EXCEPT !["free"] = f])
    BY <1>4, <1>7, <1>9, <2>1, <2>2, <2>3, <2>4, <2>5, FreeLinked
  <2>. QED  BY <2>6 DEF t
<1>13. Timed(y, t)
  <2>1. \A i \in Entries(s["cpu"]) \cup Entries(s["rt"]) :
          /\ y.timers[i].left = Z80.timers[i].left
          /\ y.timers[i].period = Z80.timers[i].period
    BY <1>3, <1>10 DEF Z80, Lists
  <2>. QED  BY <2>1, FreeTimed DEF t
<1>14. t["free"] = f /\ t["cpu"] = s["cpu"] /\ t["rt"] = s["rt"]
  BY <1>0 DEF t, Lists
<1>. QED  BY <1>0, <1>3, <1>5, <1>8, <1>12, <1>13, <1>14 DEF Sound

\* An idle timer may change its deadline and its period.
LEMMA IdleSound ==
  ASSUME NEW z, NEW s, Sound(z, s), NEW tmr \in Ids, Idle(s, tmr), NEW y, IsState(y),
         y.heads = z.heads,
         \A id \in Ids : /\ y.timers[id].next = z.timers[id].next
                         /\ y.timers[id].prev = z.timers[id].prev,
         \A id \in Ids \ {tmr} : /\ y.timers[id].left = z.timers[id].left
                                 /\ y.timers[id].period = z.timers[id].period
  PROVE  Sound(y, s) /\ Kept(y, s, z, s, tmr)
<1>1. Linked(z, s) /\ Timed(z, s) /\ s \in [Lists -> Seq(Ids)]
  BY DEF Sound, Linked
<1>2. Linked(y, s)
  BY <1>1, LinkedSame
<1>3. \A list \in {"cpu", "rt"} : \A id \in Entries(s[list]) : id \in Ids \ {tmr}
  BY <1>1, ElementOfSeq DEF Idle, Entries, Lists
<1>4. ASSUME NEW list \in {"cpu", "rt"} PROVE Sorted(y, s[list])
  <2>1. \A k \in 1..Len(s[list]) : s[list][k] \in Entries(s[list])
    BY DEF Entries
  <2>2. Sorted(z, s[list])
    BY <1>1 DEF Timed
  <2>. QED  BY <1>3, <2>1, <2>2 DEF Sorted
<1>5. Timed(y, s)
  BY <1>1, <1>3, <1>4 DEF Timed
<1>. QED  BY <1>2, <1>5 DEF Sound, Kept

\* The deadline that timer_set gives, in clocks.
ClocksOf(count, list, late) == (IF list = "rt" THEN count * clockspeed ELSE count) - late

\* timer_set puts an idle timer into a list, or leaves it idle.
LEMMA SetSound ==
  ASSUME NEW z, NEW s, Sound(z, s), NEW tmr \in Ids, Idle(s, tmr), NEW list \in {"cpu", "rt"},
         NEW count, NEW period, NEW late,
         count # 0 => /\ ClocksOf(count, list, late) \in Int
                      /\ ClocksOf(count, list, late) > -Window
                      /\ period \in Periods,
         NEW y, y = timer_set(z, tmr, count, period, list, late)
  PROVE  \E t : /\ Sound(y, t) /\ Kept(y, t, z, s, tmr)
                /\ count = 0 => Idle(t, tmr)
                /\ count # 0 => /\ tmr \in Entries(t[list])
                                /\ y.timers[tmr].left = ClocksOf(count, list, late)
<1>. DEFINE left == ClocksOf(count, list, late)
            fresh == [z EXCEPT !.timers[tmr].period = period, !.timers[tmr].left = left]
<1>0. /\ z \in [timers : [Ids -> Timer], heads : [Lists -> Links]] /\ z.timers[tmr] \in Timer
      /\ Stopped \in Timer /\ z.timers[tmr].next = 0 /\ z.timers[tmr].prev = 0
  <2>1. IsState(z) /\ Linked(z, s)
    BY DEF Sound, Linked
  <2>2. z.timers[tmr].next = 0 /\ z.timers[tmr].prev = 0
    BY <2>1, Unlisted DEF Idle
  <2>. QED  BY <2>1, <2>2, StateTypes DEF IsState, Stopped, Timer, Links
<1>1. y = IF count = 0 THEN [z EXCEPT !.timers[tmr] = Stopped] ELSE timer_insert(fresh, list, tmr)
  BY Zenon DEF timer_set, ClocksOf
<1>. HIDE DEF left
<1>2. CASE count = 0
  <2>. DEFINE more == [z.timers EXCEPT ![tmr] = Stopped]
  <2>1. y = [z EXCEPT !.timers[tmr] = Stopped]
    BY <1>1, <1>2
  <2>2. y = [timers |-> more, heads |-> z.heads] /\ more \in [Ids -> Timer]
    BY <1>0, <2>1
  <2>. HIDE DEF more
  <2>3. IsState(y) /\ y.heads = z.heads /\ y.timers = more
    BY <1>0, <2>2 DEF IsState
  <2>4. y.timers[tmr] = Stopped /\ \A id \in Ids \ {tmr} : y.timers[id] = z.timers[id]
    BY <1>0, <2>3 DEF more
  <2>5. \A id \in Ids : /\ y.timers[id].next = z.timers[id].next
                        /\ y.timers[id].prev = z.timers[id].prev
    BY <1>0, <2>4 DEF Stopped
  <2>6. Sound(y, s) /\ Kept(y, s, z, s, tmr)
    BY <2>3, <2>4, <2>5, IdleSound
  <2>. QED  BY <1>2, <2>6
<1>3. CASE count # 0
  <2>. DEFINE new == [z.timers[tmr] EXCEPT !.period = period, !.left = left]
              more == [z.timers EXCEPT ![tmr] = new]
  <2>0. left \in Int /\ left > -Window /\ period \in Periods /\ period \in Nat
    BY <1>3, TimersAssumption DEF TimersAssumption, left
  <2>1. fresh = [z EXCEPT !.timers = more]
    BY <1>0
  <2>2. /\ new \in Timer /\ new.next = z.timers[tmr].next /\ new.prev = z.timers[tmr].prev
        /\ new.left = left /\ new.period = period
    BY <1>0, <2>0 DEF Timer
  <2>. HIDE DEF new
  <2>3. more \in [Ids -> Timer]
    BY <1>0, <2>2
  <2>. HIDE DEF more
  <2>4. fresh = [timers |-> more, heads |-> z.heads]
    BY <1>0, <2>1
  <2>5. y = timer_insert(fresh, list, tmr)
    BY <1>1, <1>3
  <2>. HIDE DEF fresh
  <2>6. IsState(fresh) /\ fresh.heads = z.heads /\ fresh.timers = more
    BY <1>0, <2>3, <2>4 DEF IsState
  <2>7. fresh.timers[tmr] = new /\ \A id \in Ids \ {tmr} : fresh.timers[id] = z.timers[id]
    BY <1>0, <2>6 DEF more
  <2>8. \A id \in Ids : /\ fresh.timers[id].next = z.timers[id].next
                        /\ fresh.timers[id].prev = z.timers[id].prev
    BY <2>2, <2>7
  <2>9. Sound(fresh, s) /\ Kept(fresh, s, z, s, tmr)
    BY <2>6, <2>7, <2>8, IdleSound
  <2>10. fresh.timers[tmr].left > -Window /\ fresh.timers[tmr].period \in Periods
    BY <2>0, <2>2, <2>7
  <2>11. PICK t : /\ Sound(y, t) /\ Kept(y, t, fresh, s, tmr) /\ tmr \in Entries(t[list])
                  /\ y.timers[tmr].left = fresh.timers[tmr].left
    BY <2>5, <2>9, <2>10, InsertSound
  <2>12. Kept(y, t, z, s, tmr)
    BY <2>9, <2>11 DEF Kept
  <2>. QED  BY <1>3, <2>2, <2>7, <2>11, <2>12 DEF left
<1>. QED  BY <1>2, <1>3

\* timer_unset and timer_set in a row, as the callers use them.
LEMMA ResetSound ==
  ASSUME NEW z, NEW s, Sound(z, s), NEW tmr \in Ids, tmr \notin Entries(s["free"]),
         NEW list \in {"cpu", "rt"}, NEW count, NEW period, NEW late,
         count # 0 => /\ ClocksOf(count, list, late) \in Int
                      /\ ClocksOf(count, list, late) > -Window
                      /\ period \in Periods,
         NEW y, y = timer_set(timer_unset(z, tmr), tmr, count, period, list, late)
  PROVE  \E t : /\ Sound(y, t) /\ Kept(y, t, z, s, tmr)
                /\ count = 0 => Idle(t, tmr)
                /\ count # 0 => /\ tmr \in Entries(t[list])
                                /\ y.timers[tmr].left = ClocksOf(count, list, late)
<1>. DEFINE x == timer_unset(z, tmr)
<1>1. x = timer_unset(z, tmr) /\ y = timer_set(x, tmr, count, period, list, late)
  OBVIOUS
<1>. HIDE DEF x
<1>2. PICK r : Sound(x, r) /\ Kept(x, r, z, s, tmr) /\ Idle(r, tmr)
  BY <1>1, UnsetSound
<1>3. PICK t : /\ Sound(y, t) /\ Kept(y, t, x, r, tmr)
               /\ count = 0 => Idle(t, tmr)
               /\ count # 0 => /\ tmr \in Entries(t[list])
                               /\ y.timers[tmr].left = ClocksOf(count, list, late)
  BY <1>1, <1>2, SetSound
<1>4. Kept(y, t, z, s, tmr)
  BY <1>2, <1>3 DEF Kept
<1>. QED  BY <1>3, <1>4

-----------------------------------------------------------------------------
(* The invariant, and what it says of the lists.                           *)

Below(s, n) == \A list \in Lists : \A id \in Entries(s[list]) : id < n

\* What runs is due later, or has been rounded to now by a change of speed.
Waiting(z, s) ==
  \A list \in {"cpu", "rt"} : \A id \in Entries(s[list]) :
    z.timers[id].left > 0 \/ (z.timers[id].left = 0 /\ list = "rt")

Held(s) ==
  /\ Sound(Z80, s)
  /\ Below(s, ntimers)
  /\ ~checking => Waiting(Z80, s)

Z80Inv ==
  /\ ntimers \in Hardware + 1..MaxTimers + 1
  /\ clockspeed \in Speeds /\ checking \in BOOLEAN /\ rung \in BOOLEAN
  /\ \E s : Held(s)

AlarmsOf(z, s) ==
  [id \in Ids |->
     IF id \in Entries(s["cpu"]) \cup Entries(s["rt"])
     THEN [on |-> TRUE, left |-> z.timers[id].left, rt |-> id \in Entries(s["rt"])]
     ELSE [on |-> FALSE, left |-> 0, rt |-> FALSE]]

\* A timer is taken to run when it is in one of the two lists.
LEMMA Running ==
  ASSUME NEW z, NEW s, Linked(z, s), NEW id \in Ids
  PROVE  (id \in {z.heads["cpu"], z.heads["rt"]} \/ z.timers[id].prev # 0)
           <=> id \in Entries(s["cpu"]) \cup Entries(s["rt"])
<1>1. ASSUME NEW list \in {"cpu", "rt"}
      PROVE  /\ z.heads[list] = id => id \in Entries(s[list])
             /\ id \in Entries(s[list]) => z.heads[list] = id \/ z.timers[id].prev # 0
  <2>1. /\ s[list] \in Seq(Ids) /\ z.heads[list] = First(s[list])
        /\ \A k \in 1..Len(s[list]) : z.timers[s[list][k]].prev = Before(s[list], k)
    BY DEF Linked, Lists, Onward, Backward
  <2>2. 0 \notin Ids /\ \A k \in 1..Len(s[list]) : s[list][k] \in Ids
    BY <2>1, StateTypes, ElementOfSeq DEF Linked
  <2>3. ASSUME z.heads[list] = id PROVE id \in Entries(s[list])
    BY <2>1, <2>2, <2>3 DEF First, Entries
  <2>4. ASSUME id \in Entries(s[list]) PROVE z.heads[list] = id \/ z.timers[id].prev # 0
    <3>1. PICK k \in 1..Len(s[list]) : s[list][k] = id
      BY <2>4 DEF Entries
    <3>2. k = 1 => z.heads[list] = id
      BY <2>1, <3>1 DEF First
    <3>3. k # 1 => k - 1 \in 1..Len(s[list])
      BY <2>1
    <3>4. k # 1 => z.timers[id].prev = s[list][k - 1]
      BY <2>1, <3>1 DEF Before
    <3>. QED  BY <2>2, <3>2, <3>3, <3>4
  <2>. QED  BY <2>3, <2>4
<1>2. id \notin Entries(s["cpu"]) \cup Entries(s["rt"]) => z.timers[id].prev = 0
  BY DEF Linked
<1>. QED  BY <1>1, <1>2

\* Sound lists are what the checked property asks for, and what the emulator
\* promises of its timers can be read from them.
LEMMA ListsOf ==
  \A s : Sound(Z80, s) =>
    /\ ntimers \in 1..MaxTimers + 1 => ListsAreSound
    /\ AlarmsOfLists = AlarmsOf(Z80, s)
    /\ \A list \in Lists : Members(list) = Entries(s[list])
    /\ \A id \in Ids : timer_running(id) <=> id \in Entries(s["cpu"]) \cup Entries(s["rt"])
<1>. SUFFICES ASSUME NEW s, Sound(Z80, s)
     PROVE  /\ ntimers \in 1..MaxTimers + 1 => ListsAreSound
            /\ AlarmsOfLists = AlarmsOf(Z80, s)
            /\ \A list \in Lists : Members(list) = Entries(s[list])
            /\ \A id \in Ids : timer_running(id) <=> id \in Entries(s["cpu"]) \cup Entries(s["rt"])
  OBVIOUS
<1>0. Linked(Z80, s) /\ s \in [Lists -> Seq(Ids)]
  BY DEF Sound, Linked
<1>1. \A list \in Lists : Listed(Z80, list) = s[list]
  BY <1>0, LinkedListed
<1>2. \A list \in Lists : DOMAIN s[list] = 1..Len(s[list])
  BY <1>0
<1>3. \A list \in Lists : Members(list) = Entries(s[list])
  <2>1. \A list \in Lists : Members(list) = {s[list][n] : n \in DOMAIN s[list]}
    BY <1>1 DEF Members
  <2>. QED  BY <1>2, <2>1 DEF Entries
<1>4. \A id \in Ids : timer_running(id) <=> id \in Entries(s["cpu"]) \cup Entries(s["rt"])
  <2>1. \A id \in Ids : (id \in {Z80.heads["cpu"], Z80.heads["rt"]} \/ Z80.timers[id].prev # 0)
                          <=> id \in Entries(s["cpu"]) \cup Entries(s["rt"])
    BY <1>0, Running
  <2>. QED  BY <2>1 DEF timer_running, Z80
<1>5. "cpu" \in Lists /\ "rt" \in Lists /\ "free" \in Lists
  BY DEF Lists
<1>6. ASSUME ntimers \in 1..MaxTimers + 1 PROVE ListsAreSound
  <2>1. ASSUME NEW list \in {"cpu", "rt"}, NEW n \in DOMAIN Listed(Z80, list)
        PROVE  timers[Listed(Z80, list)[n]].prev = IF n = 1 THEN 0 ELSE Listed(Z80, list)[n - 1]
    <3>1. Listed(Z80, list) = s[list] /\ n \in 1..Len(s[list])
      BY <1>1, <1>2, <1>5, <2>1
    <3>2. Z80.timers[s[list][n]].prev = Before(s[list], n)
      BY <1>0, <3>1 DEF Linked, Backward
    <3>. QED  BY <3>1, <3>2 DEF Before, Z80
  <2>2. /\ Members("cpu") \cap Members("rt") = {}
        /\ (Members("cpu") \cup Members("rt")) \cap Members("free") = {}
    <3>1. \A l, m \in Lists : l # m => Entries(s[l]) \cap Entries(s[m]) = {}
      BY <1>0 DEF Linked
    <3>2. /\ Entries(s["cpu"]) \cap Entries(s["rt"]) = {}
          /\ Entries(s["cpu"]) \cap Entries(s["free"]) = {}
          /\ Entries(s["rt"]) \cap Entries(s["free"]) = {}
      BY <1>5, <3>1
    <3>. QED  BY <1>3, <1>5, <3>2
  <2>3. \A id \in 1..ntimers - 1 :
          timer_running(id) <=> id \in Members("cpu") \cup Members("rt")
    <3>1. \A id \in 1..ntimers - 1 : id \in Ids
      BY <1>6, TimersAssumption DEF TimersAssumption, Ids
    <3>. QED  BY <1>3, <1>4, <1>5, <3>1
  <2>. QED  BY <2>1, <2>2, <2>3 DEF ListsAreSound
<1>7. AlarmsOfLists = AlarmsOf(Z80, s)
  <2>1. Members("rt") = Entries(s["rt"])
    BY <1>3, <1>5
  <2>2. AlarmsOfLists = [id \in Ids |->
     IF timer_running(id)
     THEN [on |-> TRUE, left |-> timers[id].left, rt |-> id \in Members("rt")]
     ELSE [on |-> FALSE, left |-> 0, rt |-> FALSE]]
    BY DEF AlarmsOfLists
  <2>. QED  BY <1>4, <2>1, <2>2 DEF AlarmsOf, Z80
<1>. QED  BY <1>3, <1>4, <1>6, <1>7

-----------------------------------------------------------------------------
(* Each step keeps the invariant and is a step of the promise.             *)

\* The lists of a step's end.
LEMMA ListsNext ==
  ASSUME NEW t, Sound(Z80', t)
  PROVE  /\ AlarmsOfLists' = AlarmsOf(Z80', t)
         /\ \A id \in Ids : (timer_running(id))' <=> id \in Entries(t["cpu"]) \cup Entries(t["rt"])
<1>1. (\A s : Sound(Z80, s) =>
         /\ ntimers \in 1..MaxTimers + 1 => ListsAreSound
         /\ AlarmsOfLists = AlarmsOf(Z80, s)
         /\ \A list \in Lists : Members(list) = Entries(s[list])
         /\ \A id \in Ids :
              timer_running(id) <=> id \in Entries(s["cpu"]) \cup Entries(s["rt"]))'
  BY ListsOf, PTL
<1>. QED  BY <1>1

\* What becomes of the timers and the heads.
LEMMA Became ==
  ASSUME NEW y, IsState(y), become(y)
  PROVE  Z80' = y
<1>1. Z80' = [timers |-> timers', heads |-> heads']
  BY DEF Z80
<1>. QED  BY <1>1 DEF become, IsState

\* Nothing but tmr starts or stops, or has another deadline.
Others(y, t, z, s, tmr) ==
  /\ \A id \in Ids \ {tmr} : y.timers[id].left = z.timers[id].left
  /\ \A list \in {"cpu", "rt"} : Entries(t[list]) \ {tmr} = Entries(s[list]) \ {tmr}

\* What is kept of lists, deadlines and periods is kept of lists and deadlines.
LEMMA KeptOthers ==
  ASSUME NEW z, NEW s, NEW y, NEW t, NEW tmr, Kept(y, t, z, s, tmr)
  PROVE  Others(y, t, z, s, tmr)
BY DEF Kept, Others, Lists

\* The entries stay below the end of the array when the one that moves is.
LEMMA KeptBelow ==
  ASSUME NEW z, NEW s, NEW y, NEW t, NEW tmr, Kept(y, t, z, s, tmr), NEW n, Below(s, n), tmr < n
  PROVE  Below(t, n)
<1>1. \A list \in Lists : \A id \in Entries(t[list]) : id = tmr \/ id \in Entries(s[list])
  BY DEF Kept
<1>. QED  BY <1>1 DEF Below

\* A step that changes one timer.
LEMMA Changed ==
  ASSUME Z80Inv, NEW s, Held(s), NEW y, NEW t, Sound(y, t), become(y), NEW id \in Ids,
         Others(y, t, Z80, s, id), Below(t, ntimers'),
         ntimers' \in Hardware + 1..MaxTimers + 1,
         UNCHANGED <<clockspeed, checking>>, rung' \in BOOLEAN,
         ~checking => (id \in Entries(t["cpu"]) \cup Entries(t["rt"]) => y.timers[id].left > 0)
  PROVE  /\ Z80Inv'
         /\ AlarmsOfLists = AlarmsOf(Z80, s) /\ AlarmsOfLists' = AlarmsOf(y, t)
         /\ Promise!OthersStay(id)
<1>1. Sound(Z80, s) /\ Linked(y, t) /\ IsState(y) /\ t \in [Lists -> Seq(Ids)]
  BY DEF Held, Sound, Linked
<1>2. Z80' = y
  BY <1>1, Became
<1>3. AlarmsOfLists = AlarmsOf(Z80, s)
  BY <1>1, ListsOf
<1>4. AlarmsOfLists' = AlarmsOf(y, t)
  BY <1>2, ListsNext
<1>5. Promise!OthersStay(id)
  <2>1. ASSUME NEW other \in Ids \ {id}
        PROVE  AlarmsOf(y, t)[other] = AlarmsOf(Z80, s)[other]
    <3>1. /\ y.timers[other].left = Z80.timers[other].left
          /\ \A list \in {"cpu", "rt"} : other \in Entries(t[list]) <=> other \in Entries(s[list])
      BY DEF Others
    <3>2. /\ other \in Entries(t["cpu"]) <=> other \in Entries(s["cpu"])
          /\ other \in Entries(t["rt"]) <=> other \in Entries(s["rt"])
      BY <3>1
    <3>3. /\ other \in Entries(t["cpu"]) \cup Entries(t["rt"])
              <=> other \in Entries(s["cpu"]) \cup Entries(s["rt"])
          /\ (other \in Entries(t["rt"])) = (other \in Entries(s["rt"]))
      BY <3>2
    <3>4. /\ AlarmsOf(y, t)[other] =
               IF other \in Entries(t["cpu"]) \cup Entries(t["rt"])
               THEN [on |-> TRUE, left |-> y.timers[other].left, rt |-> other \in Entries(t["rt"])]
               ELSE [on |-> FALSE, left |-> 0, rt |-> FALSE]
          /\ AlarmsOf(Z80, s)[other] =
               IF other \in Entries(s["cpu"]) \cup Entries(s["rt"])
               THEN [on |-> TRUE, left |-> Z80.timers[other].left, rt |-> other \in Entries(s["rt"])]
               ELSE [on |-> FALSE, left |-> 0, rt |-> FALSE]
      BY Zenon DEF AlarmsOf
    <3>. QED  BY <3>1, <3>3, <3>4, Zenon
  <2>. QED  BY <1>3, <1>4, <2>1 DEF Promise!OthersStay
<1>6. ~checking => Waiting(y, t)
  <2>1. SUFFICES ASSUME ~checking, NEW list \in {"cpu", "rt"}, NEW o \in Entries(t[list])
                 PROVE  y.timers[o].left > 0 \/ (y.timers[o].left = 0 /\ list = "rt")
    BY DEF Waiting
  <2>2. CASE o = id
    BY <2>1, <2>2
  <2>3. CASE o # id
    <3>1. o \in Ids
      BY <1>1, ElementOfSeq DEF Lists, Entries
    <3>2. o \in Entries(s[list]) /\ y.timers[o].left = Z80.timers[o].left
      BY <2>3, <3>1 DEF Others
    <3>. QED  BY <2>1, <3>2 DEF Held, Waiting
  <2>. QED  BY <2>2, <2>3
<1>7. Held(t)'
  <2>1. Sound(Z80', t) /\ Below(t, ntimers') /\ (~checking' => Waiting(Z80', t))
    BY <1>2, <1>6
  <2>. QED  BY <2>1 DEF Held
<1>8. (\E r : Held(r))'
  BY <1>7
<1>9. ntimers' \in Hardware + 1..MaxTimers + 1 /\ clockspeed' \in Speeds /\ checking' \in BOOLEAN
      /\ rung' \in BOOLEAN
  BY DEF Z80Inv
<1>10. Z80Inv'
  BY <1>8, <1>9 DEF Z80Inv
<1>. QED  BY <1>3, <1>4, <1>5, <1>10

\* When the timer is idle then, or due later, it was set.
LEMMA SetStep ==
  ASSUME Z80Inv, NEW s, Held(s), NEW y, NEW t, Sound(y, t), become(y), NEW id \in Ids,
         Others(y, t, Z80, s, id), Below(t, ntimers'),
         ntimers' \in Hardware + 1..MaxTimers + 1,
         UNCHANGED <<clockspeed, checking, rung>>,
         id \in Entries(t["cpu"]) \cup Entries(t["rt"]) => y.timers[id].left > 0
  PROVE  Z80Inv' /\ Promise!AlarmsNext
<1>1. rung' \in BOOLEAN
  BY DEF Z80Inv
<1>2. Z80Inv' /\ AlarmsOfLists' = AlarmsOf(y, t) /\ Promise!OthersStay(id)
  BY <1>1, Changed
<1>3. AlarmsOf(y, t)[id] = Promise!Off \/ AlarmsOf(y, t)[id].left > 0
  BY DEF AlarmsOf, Promise!Off
<1>4. Promise!SetAlarm(id)
  BY <1>2, <1>3 DEF Promise!SetAlarm
<1>. QED  BY <1>2, <1>4 DEF Promise!AlarmsNext

\* A product of positive numbers is positive.
LEMMA ProductPositive ==
  ASSUME NEW a \in Nat \ {0}, NEW b \in Nat \ {0}
  PROVE  a * b \in Nat \ {0}
OBVIOUS

\* The deadline of a timer that is set anew is ahead.
LEMMA Ahead ==
  ASSUME Z80Inv, NEW count \in Counts, NEW list \in {"cpu", "rt"}
  PROVE  /\ ClocksOf(count, list, 0) \in Int
         /\ ClocksOf(count, list, 0) > 0 /\ ClocksOf(count, list, 0) > -Window
<1>1. count \in Nat \ {0} /\ clockspeed \in Nat \ {0} /\ Window \in Nat \ {0}
  BY TimersAssumption DEF TimersAssumption, Z80Inv
<1>. DEFINE product == count * clockspeed
<1>2. product \in Nat \ {0}
  BY <1>1, ProductPositive
<1>3. ClocksOf(count, list, 0) = (IF list = "rt" THEN product ELSE count) - 0
  BY Zenon DEF ClocksOf
<1>. HIDE DEF product
<1>. QED  BY <1>1, <1>2, <1>3

\* A timer in use exists and is not free.
LEMMA Used ==
  ASSUME Z80Inv, NEW s, Held(s), NEW id \in InUse
  PROVE  id \in Ids /\ id < ntimers /\ id \notin Entries(s["free"])
<1>1. Members("free") = Entries(s["free"])
  BY ListsOf DEF Held, Lists
<1>2. id \in 1..ntimers - 1 /\ ntimers \in Hardware + 1..MaxTimers + 1
      /\ MaxTimers \in Nat /\ Hardware \in Nat
  BY TimersAssumption DEF TimersAssumption, Ids, InUse, Z80Inv
<1>. QED  BY <1>1, <1>2 DEF InUse, Ids

\* tilem_z80_set_timer keeps the invariant, and sets an alarm or cancels it.
LEMMA SetTimer ==
  ASSUME Z80Inv, NEW id \in Ids, NEW count, NEW period, NEW list \in {"cpu", "rt"},
         count # 0 => count \in Counts /\ period \in Periods,
         set_timer(id, count, period, list)
  PROVE  Z80Inv' /\ Promise!AlarmsNext
<1>. DEFINE y == timer_set(timer_unset(Z80, id), id, count, period, list, 0)
<1>1. PICK s : Held(s)
  BY DEF Z80Inv
<1>2. id \in InUse /\ become(y) /\ UNCHANGED <<ntimers, clockspeed, checking, rung>>
  BY DEF set_timer
<1>3. id < ntimers /\ id \notin Entries(s["free"]) /\ Sound(Z80, s) /\ Below(s, ntimers)
  BY <1>1, <1>2, Used DEF Held
<1>4. count # 0 => /\ ClocksOf(count, list, 0) \in Int
                   /\ ClocksOf(count, list, 0) > -Window /\ ClocksOf(count, list, 0) > 0
                   /\ period \in Periods
  BY Ahead
<1>5. y = timer_set(timer_unset(Z80, id), id, count, period, list, 0)
  OBVIOUS
<1>. HIDE DEF y
<1>6. PICK t : /\ Sound(y, t) /\ Kept(y, t, Z80, s, id)
               /\ count = 0 => Idle(t, id)
               /\ count # 0 => /\ id \in Entries(t[list])
                               /\ y.timers[id].left = ClocksOf(count, list, 0)
  BY <1>3, <1>4, <1>5, ResetSound
<1>7. id \in Entries(t["cpu"]) \cup Entries(t["rt"]) => y.timers[id].left > 0
  BY <1>4, <1>6 DEF Idle, Lists
<1>8. Below(t, ntimers') /\ Others(y, t, Z80, s, id)
  BY <1>2, <1>3, <1>6, KeptBelow, KeptOthers
<1>9. ntimers' \in Hardware + 1..MaxTimers + 1
  BY <1>2 DEF Z80Inv
<1>. QED  BY <1>1, <1>2, <1>6, <1>7, <1>8, <1>9, SetStep

\* tilem_z80_remove_timer keeps the invariant, and cancels an alarm.
LEMMA RemoveTimer ==
  ASSUME Z80Inv, NEW id \in Ids, remove_timer(id)
  PROVE  Z80Inv' /\ Promise!AlarmsNext
<1>. DEFINE x == timer_unset(Z80, id)
            y == timer_free(x, id)
<1>1. PICK s : Held(s)
  BY DEF Z80Inv
<1>2. id \in InUse /\ become(y) /\ UNCHANGED <<ntimers, clockspeed, checking, rung>>
  BY DEF remove_timer
<1>3. id < ntimers /\ id \notin Entries(s["free"]) /\ Sound(Z80, s) /\ Below(s, ntimers)
  BY <1>1, <1>2, Used DEF Held
<1>4. x = timer_unset(Z80, id) /\ y = timer_free(x, id)
  OBVIOUS
<1>. HIDE DEF x, y
<1>5. PICK r : Sound(x, r) /\ Kept(x, r, Z80, s, id) /\ Idle(r, id)
  BY <1>3, <1>4, UnsetSound
<1>6. PICK t : /\ Sound(y, t) /\ Kept(y, t, x, r, id)
               /\ id \notin Entries(t["cpu"]) \cup Entries(t["rt"])
  BY <1>4, <1>5, FreeSound
<1>7. Kept(y, t, Z80, s, id)
  BY <1>5, <1>6 DEF Kept
<1>8. Below(t, ntimers') /\ Others(y, t, Z80, s, id)
  BY <1>2, <1>3, <1>7, KeptBelow, KeptOthers
<1>9. ntimers' \in Hardware + 1..MaxTimers + 1
  BY <1>2 DEF Z80Inv
<1>. QED  BY <1>1, <1>2, <1>6, <1>8, <1>9, SetStep

\* tilem_z80_add_timer keeps the invariant, grown array or not, and sets an alarm.
LEMMA AddTimer ==
  ASSUME Z80Inv, NEW count \in Counts, NEW period \in Periods, NEW list \in {"cpu", "rt"},
         add_timer(count, period, list)
  PROVE  Z80Inv' /\ Promise!AlarmsNext
<1>. DEFINE grow == heads["free"] = 0
            z == IF grow THEN allFree(ntimers, Grown) ELSE Z80
            id == z.heads["free"]
            x == Taken(z, id)
            y == timer_set(x, id, count, period, list, 0)
<1>1. PICK s : Held(s)
  BY DEF Z80Inv
<1>2. /\ grow => Grown <= MaxTimers
      /\ ntimers' = IF grow THEN Grown + 1 ELSE ntimers
      /\ become(y)
      /\ UNCHANGED <<clockspeed, checking, rung>>
  BY Zenon DEF add_timer, Taken
<1>3. /\ ntimers \in Hardware + 1..MaxTimers + 1 /\ MaxTimers \in Nat /\ Hardware \in Ids
      /\ Hardware \in Nat /\ ntimers \in Nat /\ Grown = ntimers + ntimers
  BY TimersAssumption DEF TimersAssumption, Ids, Z80Inv, Grown
<1>4. ntimers' \in Hardware + 1..MaxTimers + 1 /\ ntimers <= ntimers'
  BY <1>2, <1>3
<1>5. Sound(Z80, s) /\ Below(s, ntimers) /\ Linked(Z80, s) /\ s \in [Lists -> Seq(Ids)]
  BY <1>1 DEF Held, Sound, Linked
<1>6. \A l \in Lists : \A i \in Entries(s[l]) : i \in Ids
  BY <1>5, ElementOfSeq DEF Entries
<1>7. x = Taken(z, id) /\ y = timer_set(x, id, count, period, list, 0) /\ id = z.heads["free"]
      /\ z = IF grow THEN allFree(ntimers, Grown) ELSE Z80
  OBVIOUS
<1>. HIDE DEF z, id, x, y
<1>8. /\ id # 0
      /\ \E r : /\ Sound(z, r) /\ Below(r, ntimers')
                /\ r["cpu"] = s["cpu"] /\ r["rt"] = s["rt"]
                /\ \A i \in Ids : z.timers[i].left = timers[i].left
  <2>1. CASE grow
    <3>0. z = allFree(ntimers, Grown)
      BY <1>7, <2>1, Zenon
    <3>1. ntimers \in Ids /\ Grown <= MaxTimers /\ ntimers' = Grown + 1 /\ Grown \in Int
      BY <1>2, <1>3, <2>1 DEF Ids
    <3>2. \A l \in Lists : \A i \in Entries(s[l]) : i < ntimers
      BY <1>5 DEF Below
    <3>3. /\ z.heads["free"] = Grown /\ Grown # 0
          /\ \E t : /\ Sound(z, t) /\ t["cpu"] = s["cpu"] /\ t["rt"] = s["rt"]
                    /\ Entries(t["free"]) = ntimers..Grown
                    /\ \A i \in Ids : /\ z.timers[i].left = timers[i].left
                                      /\ z.timers[i].period = timers[i].period
      BY <1>5, <2>1, <3>0, <3>1, <3>2, GrowSound
    <3>4. PICK r : /\ Sound(z, r) /\ r["cpu"] = s["cpu"] /\ r["rt"] = s["rt"]
                   /\ Entries(r["free"]) = ntimers..Grown
                   /\ \A i \in Ids : z.timers[i].left = timers[i].left
      BY <3>3
    <3>5. \A i \in Ids : i < ntimers => i < Grown + 1
      BY <1>3 DEF Ids
    <3>6. \A i \in ntimers..Grown : i < Grown + 1
      BY <3>1
    <3>7. Below(r, Grown + 1)
      BY <1>6, <3>2, <3>4, <3>5, <3>6 DEF Below, Lists
    <3>8. id # 0
      BY <1>7, <3>3
    <3>. QED  BY <3>1, <3>4, <3>7, <3>8
  <2>2. CASE ~grow
    <3>1. z = Z80 /\ ntimers' = ntimers
      BY <1>2, <1>7, <2>2, Zenon
    <3>2. id # 0
      BY <1>7, <2>2, <3>1 DEF Z80
    <3>. QED  BY <1>5, <3>1, <3>2 DEF Z80
  <2>. QED  BY <2>1, <2>2
<1>9. PICK r : /\ Sound(z, r) /\ Below(r, ntimers')
               /\ r["cpu"] = s["cpu"] /\ r["rt"] = s["rt"]
               /\ \A i \in Ids : z.timers[i].left = timers[i].left
  BY <1>8
<1>10. /\ id \in Ids /\ id \in Entries(r["free"])
       /\ \E t : Sound(x, t) /\ Kept(x, t, z, r, id) /\ Idle(t, id)
  BY <1>7, <1>8, <1>9, TakeSound
<1>11. PICK q : Sound(x, q) /\ Kept(x, q, z, r, id) /\ Idle(q, id)
  BY <1>10
<1>12. id < ntimers'
  BY <1>9, <1>10 DEF Below, Lists
<1>13. /\ ClocksOf(count, list, 0) \in Int
       /\ ClocksOf(count, list, 0) > 0 /\ ClocksOf(count, list, 0) > -Window
       /\ count # 0
  BY Ahead, TimersAssumption DEF TimersAssumption
<1>14. PICK t : /\ Sound(y, t) /\ Kept(y, t, x, q, id)
                /\ y.timers[id].left = ClocksOf(count, list, 0)
  <2>1. count # 0 => /\ ClocksOf(count, list, 0) \in Int
                     /\ ClocksOf(count, list, 0) > -Window
                     /\ period \in Periods
    BY <1>13
  <2>2. \E t : /\ Sound(y, t) /\ Kept(y, t, x, q, id)
               /\ count = 0 => Idle(t, id)
               /\ count # 0 => /\ id \in Entries(t[list])
                               /\ y.timers[id].left = ClocksOf(count, list, 0)
    <3>1. y = timer_set(x, id, count, period, list, 0) /\ id \in Ids
      BY <1>7, <1>10
    <3>. QED  BY <1>11, <2>1, <3>1, SetSound
  <2>. QED  BY <1>13, <2>2
<1>15. Kept(y, t, z, r, id)
  BY <1>11, <1>14 DEF Kept
<1>16. Below(t, ntimers')
  BY <1>9, <1>12, <1>15, KeptBelow
<1>17. Others(y, t, Z80, s, id)
  <2>1. Others(y, t, z, r, id)
    BY <1>15, KeptOthers
  <2>. QED  BY <1>9, <2>1 DEF Others, Z80
<1>. QED  BY <1>1, <1>2, <1>4, <1>10, <1>13, <1>14, <1>16, <1>17, SetStep

\* Division with a remainder, and its order.
LEMMA QuotientBounds ==
  ASSUME NEW c \in Nat \ {0}, NEW a \in Nat
  PROVE  /\ a \div c \in Nat
         /\ c * (a \div c) <= a /\ a < c * (a \div c) + c
OBVIOUS

\* The multiple that a halted processor skips is no more than what it may skip.
LEMMA Multiple ==
  ASSUME NEW c \in Nat \ {0}, NEW a \in Nat
  PROVE  (a \div c) * c <= a /\ (a \div c) * c \in Nat
OBVIOUS

\* A product grows with its factor,
LEMMA ProductGrows ==
  ASSUME NEW c \in Nat \ {0}, NEW i \in Int, NEW j \in Int
  PROVE  /\ i > j => c * i >= c * j + c
         /\ i <= j => i * c <= j * c
OBVIOUS

\* and a quotient with its dividend.
LEMMA QuotientGrows ==
  ASSUME NEW c \in Nat \ {0}, NEW a \in Nat, NEW b \in Nat, a <= b
  PROVE  a \div c <= b \div c
<1>. DEFINE i == a \div c
            j == b \div c
<1>1. i \in Nat /\ j \in Nat /\ c * i <= a /\ b < c * j + c /\ c * i \in Int /\ c * j \in Int
  BY QuotientBounds
<1>. HIDE DEF i, j
<1>2. i > j => c * i >= c * j + c
  BY <1>1, ProductGrows
<1>3. ~(i > j)
  BY <1>1, <1>2
<1>4. i <= j
  BY <1>1, <1>3
<1>. QED  BY <1>4 DEF i, j

\* The head of a list is due first.
LEMMA HeadIsFirst ==
  ASSUME NEW z, NEW s, Sound(z, s), NEW list \in {"cpu", "rt"}
  PROVE  /\ z.heads[list] # 0 =>
              /\ z.heads[list] \in Ids /\ z.heads[list] \in Entries(s[list])
              /\ \A id \in Entries(s[list]) :
                   z.timers[z.heads[list]].left <= z.timers[id].left
         /\ z.heads[list] = 0 => Entries(s[list]) = {}
         /\ \A id \in Entries(s[list]) : id \in Ids /\ z.timers[id].left \in Int
<1>. DEFINE q == s[list]
            head == z.heads[list]
<1>1. q \in Seq(Ids) /\ head = First(q) /\ Sorted(z, q) /\ IsState(z)
  BY DEF Sound, Linked, Timed, Onward, Lists
<1>2. 0 \notin Ids /\ Len(q) \in Nat /\ \A k \in 1..Len(q) : q[k] \in Ids
  BY <1>1, StateTypes, ElementOfSeq
<1>. HIDE DEF q, head
<1>3. \A id \in Entries(q) : id \in Ids /\ z.timers[id].left \in Int
  BY <1>1, <1>2, StateTypes DEF Entries
<1>4. head = 0 => Entries(q) = {}
  <2>1. Len(q) # 0 => 1 \in 1..Len(q)
    BY <1>2
  <2>2. head = 0 => Len(q) = 0
    BY <1>1, <1>2, <2>1 DEF First
  <2>. QED  BY <2>2 DEF Entries
<1>5. ASSUME head # 0
      PROVE  /\ head \in Ids /\ head \in Entries(q)
             /\ \A id \in Entries(q) : z.timers[head].left <= z.timers[id].left
  <2>1. 1 \in 1..Len(q) /\ head = q[1]
    BY <1>1, <1>2, <1>5 DEF First
  <2>2. \A k \in 1..Len(q) : z.timers[q[1]].left <= z.timers[q[k]].left
    BY <1>1, <1>2, <2>1 DEF Sorted
  <2>. QED  BY <1>2, <2>1, <2>2 DEF Entries
<1>. QED  BY <1>3, <1>4, <1>5 DEF q, head

\* Lists whose entries keep their links and stay in order are sound.
LEMMA RetimedSound ==
  ASSUME NEW z, NEW s, Sound(z, s), NEW y, IsState(y), y.heads = z.heads,
         \A id \in Ids : /\ y.timers[id].next = z.timers[id].next
                         /\ y.timers[id].prev = z.timers[id].prev,
         \A list \in {"cpu", "rt"} : \A i, j \in Entries(s[list]) :
           z.timers[i].left <= z.timers[j].left => y.timers[i].left <= y.timers[j].left,
         \A list \in {"cpu", "rt"} : \A id \in Entries(s[list]) :
           y.timers[id].left > -Window /\ y.timers[id].period \in Periods
  PROVE  Sound(y, s)
<1>1. Linked(z, s) /\ Timed(z, s)
  BY DEF Sound
<1>2. Linked(y, s)
  BY <1>1, LinkedSame
<1>3. ASSUME NEW list \in {"cpu", "rt"} PROVE Sorted(y, s[list])
  <2>1. \A k \in 1..Len(s[list]) : s[list][k] \in Entries(s[list])
    BY DEF Entries
  <2>2. Sorted(z, s[list])
    BY <1>1 DEF Timed
  <2>. QED  BY <2>1, <2>2 DEF Sorted
<1>4. Timed(y, s)
  BY <1>3 DEF Timed
<1>. QED  BY <1>2, <1>4 DEF Sound

\* The same timers run on the same clocks after a step that sets none.
LEMMA SameAlarms ==
  ASSUME NEW s, Sound(Z80, s), Sound(Z80', s)
  PROVE  /\ AlarmsOfLists = AlarmsOf(Z80, s) /\ AlarmsOfLists' = AlarmsOf(Z80', s)
         /\ \A id \in Ids :
              IF id \in Entries(s["cpu"]) \cup Entries(s["rt"])
              THEN /\ AlarmsOfLists[id] = [on |-> TRUE, left |-> timers[id].left,
                                           rt |-> id \in Entries(s["rt"])]
                   /\ AlarmsOfLists'[id] = [on |-> TRUE, left |-> timers'[id].left,
                                            rt |-> id \in Entries(s["rt"])]
              ELSE /\ AlarmsOfLists[id] = [on |-> FALSE, left |-> 0, rt |-> FALSE]
                   /\ AlarmsOfLists'[id] = [on |-> FALSE, left |-> 0, rt |-> FALSE]
<1>1. AlarmsOfLists = AlarmsOf(Z80, s)
  BY ListsOf
<1>2. AlarmsOfLists' = AlarmsOf(Z80', s)
  BY ListsNext
<1>3. ASSUME NEW id \in Ids
      PROVE  IF id \in Entries(s["cpu"]) \cup Entries(s["rt"])
              THEN /\ AlarmsOf(Z80, s)[id] = [on |-> TRUE, left |-> timers[id].left,
                                           rt |-> id \in Entries(s["rt"])]
                   /\ AlarmsOf(Z80', s)[id] = [on |-> TRUE, left |-> timers'[id].left,
                                            rt |-> id \in Entries(s["rt"])]
              ELSE /\ AlarmsOf(Z80, s)[id] = [on |-> FALSE, left |-> 0, rt |-> FALSE]
                   /\ AlarmsOf(Z80', s)[id] = [on |-> FALSE, left |-> 0, rt |-> FALSE]
  <2>1. Z80.timers = timers /\ (Z80').timers = timers'
    BY DEF Z80
  <2>2. \A z : AlarmsOf(z, s)[id] =
           IF id \in Entries(s["cpu"]) \cup Entries(s["rt"])
           THEN [on |-> TRUE, left |-> z.timers[id].left, rt |-> id \in Entries(s["rt"])]
           ELSE [on |-> FALSE, left |-> 0, rt |-> FALSE]
    BY Zenon DEF AlarmsOf
  <2>. QED  BY <2>1, <2>2
<1>. QED  BY <1>1, <1>2, <1>3

\* A step that leaves the lists alone keeps the invariant.
LEMMA SameLists ==
  ASSUME Z80Inv, NEW s, Held(s), Sound(Z80', s), UNCHANGED ntimers,
         clockspeed' \in Speeds, checking' \in BOOLEAN, rung' \in BOOLEAN,
         ~checking' => Waiting(Z80', s)
  PROVE  Z80Inv'
<1>1. Held(s)'
  BY DEF Held
<1>2. (\E r : Held(r))'
  BY <1>1
<1>. QED  BY <1>2 DEF Z80Inv

\* tilem_z80_set_timer_period changes no deadline.
LEMMA SetPeriod ==
  ASSUME Z80Inv, NEW id \in Ids, NEW period \in Periods, set_timer_period(id, period)
  PROVE  Z80Inv' /\ UNCHANGED <<AlarmsOfLists, rung>>
<1>1. PICK s : Held(s)
  BY DEF Z80Inv
<1>2. /\ timers' = [timers EXCEPT ![id].period = period]
      /\ UNCHANGED <<heads, ntimers, clockspeed, checking, rung>>
  BY DEF set_timer_period
<1>3. /\ timers \in [Ids -> Timer] /\ heads \in [Lists -> Links] /\ Sound(Z80, s)
      /\ s \in [Lists -> Seq(Ids)] /\ Timed(Z80, s)
  BY <1>1 DEF Held, Sound, Linked, IsState, Z80
<1>. DEFINE new == [timers[id] EXCEPT !.period = period]
<1>4. /\ new \in Timer /\ new.next = timers[id].next /\ new.prev = timers[id].prev
      /\ new.left = timers[id].left /\ new.period = period
  <2>1. period \in Nat /\ timers[id] \in Timer
    BY <1>3, TimersAssumption DEF TimersAssumption
  <2>. QED  BY <2>1 DEF Timer
<1>5. timers' = [timers EXCEPT ![id] = new]
  BY <1>2, <1>3
<1>. HIDE DEF new
<1>6. timers' \in [Ids -> Timer]
  BY <1>3, <1>4, <1>5
<1>7. \A i \in Ids : /\ timers'[i].next = timers[i].next /\ timers'[i].prev = timers[i].prev
                     /\ timers'[i].left = timers[i].left
                     /\ timers'[i].period = timers[i].period \/ timers'[i].period \in Periods
  BY <1>3, <1>4, <1>5
<1>8. \A list \in {"cpu", "rt"} : \A i \in Entries(s[list]) :
        i \in Ids /\ timers[i].left > -Window /\ timers[i].period \in Periods
  <2>1. \A list \in {"cpu", "rt"} : \A i \in Entries(s[list]) : i \in Ids
    BY <1>3, ElementOfSeq DEF Entries, Lists
  <2>. QED  BY <1>3, <2>1 DEF Timed, Z80
<1>9. Z80.timers = timers /\ (Z80').timers = timers' /\ Z80.heads = heads /\ (Z80').heads = heads'
      /\ IsState(Z80')
  BY <1>2, <1>3, <1>6 DEF Z80, IsState
<1>10. Sound(Z80', s)
  <2>1. /\ (Z80').heads = Z80.heads
        /\ \A i \in Ids : /\ (Z80').timers[i].next = Z80.timers[i].next
                          /\ (Z80').timers[i].prev = Z80.timers[i].prev
    BY <1>2, <1>7, <1>9
  <2>2. \A list \in {"cpu", "rt"} : \A i, j \in Entries(s[list]) :
           Z80.timers[i].left <= Z80.timers[j].left
             => (Z80').timers[i].left <= (Z80').timers[j].left
    BY <1>7, <1>8, <1>9
  <2>3. \A list \in {"cpu", "rt"} : \A i \in Entries(s[list]) :
           (Z80').timers[i].left > -Window /\ (Z80').timers[i].period \in Periods
    BY <1>7, <1>8, <1>9
  <2>. QED  BY <1>3, <1>9, <2>1, <2>2, <2>3, RetimedSound
<1>11. ~checking' => Waiting(Z80', s)
  <2>1. ~checking => Waiting(Z80, s)
    BY <1>1 DEF Held
  <2>. QED  BY <1>2, <1>7, <1>8, <1>9, <2>1 DEF Waiting
<1>12. Z80Inv'
  <2>1. clockspeed' \in Speeds /\ checking' \in BOOLEAN /\ rung' \in BOOLEAN
    BY <1>2 DEF Z80Inv
  <2>. QED  BY <1>1, <1>2, <1>10, <1>11, <2>1, SameLists
<1>13. AlarmsOf(Z80', s) = AlarmsOf(Z80, s)
  <2>1. \A i \in Ids : (Z80').timers[i].left = Z80.timers[i].left
    BY <1>7, <1>9
  <2>. QED  BY <2>1, Zenon DEF AlarmsOf
<1>. QED  BY <1>2, <1>3, <1>10, <1>12, <1>13, SameAlarms
\* A timer with another deadline.
LEMMA NewLeft ==
  ASSUME NEW a \in Timer, NEW left \in Int
  PROVE  /\ [a EXCEPT !.left = left] \in Timer
         /\ [a EXCEPT !.left = left].next = a.next /\ [a EXCEPT !.left = left].prev = a.prev
         /\ [a EXCEPT !.left = left].period = a.period /\ [a EXCEPT !.left = left].left = left
BY DEF Timer

\* A step that moves the deadlines of some timers and keeps their order.
Moved(s, left) ==
  /\ \A id \in Ids : /\ timers'[id].next = timers[id].next /\ timers'[id].prev = timers[id].prev
                     /\ timers'[id].period = timers[id].period /\ timers'[id].left = left[id]
  /\ \A list \in {"cpu", "rt"} : \A i, j \in Entries(s[list]) :
       timers[i].left <= timers[j].left => left[i] <= left[j]
  /\ \A list \in {"cpu", "rt"} : \A id \in Entries(s[list]) : left[id] > -Window

\* Such a step keeps the lists.
LEMMA MovedSound ==
  ASSUME NEW s, Held(s), NEW left, Moved(s, left), timers' \in [Ids -> Timer], UNCHANGED heads
  PROVE  Sound(Z80', s)
<1>1. /\ Sound(Z80, s) /\ IsState(Z80) /\ Timed(Z80, s) /\ s \in [Lists -> Seq(Ids)]
  BY DEF Held, Sound, Linked
<1>2. /\ Z80.timers = timers /\ (Z80').timers = timers'
      /\ Z80.heads = heads /\ (Z80').heads = heads' /\ IsState(Z80')
  BY <1>1 DEF Z80, IsState
<1>3. \A list \in {"cpu", "rt"} : \A id \in Entries(s[list]) : id \in Ids
  BY <1>1, ElementOfSeq DEF Entries, Lists
<1>4. /\ (Z80').heads = Z80.heads
      /\ \A id \in Ids : /\ (Z80').timers[id].next = Z80.timers[id].next
                         /\ (Z80').timers[id].prev = Z80.timers[id].prev
  BY <1>2 DEF Moved
<1>5. \A list \in {"cpu", "rt"} : \A i, j \in Entries(s[list]) :
        Z80.timers[i].left <= Z80.timers[j].left
          => (Z80').timers[i].left <= (Z80').timers[j].left
  BY <1>2, <1>3 DEF Moved
<1>6. \A list \in {"cpu", "rt"} : \A id \in Entries(s[list]) :
        (Z80').timers[id].left > -Window /\ (Z80').timers[id].period \in Periods
  BY <1>1, <1>2, <1>3 DEF Moved, Timed
<1>. QED  BY <1>1, <1>2, <1>4, <1>5, <1>6, RetimedSound

\* The fields of an alarm that is set.
IsOn(alarm, left, rt) ==
  /\ alarm = [on |-> TRUE, left |-> left, rt |-> rt]
  /\ alarm.on /\ alarm.left = left /\ alarm.rt = rt

\* An alarm that is set has the fields it was set with.
LEMMA AlarmFields ==
  ASSUME NEW left, NEW rt, NEW alarm, alarm = [on |-> TRUE, left |-> left, rt |-> rt]
  PROVE  IsOn(alarm, left, rt)
BY DEF IsOn

\* Time passes: every timer that runs comes closer by as much.
LEMMA Passed ==
  ASSUME Z80Inv, NEW s, Held(s), NEW clocks \in Nat, PassTime(clocks), ~checking, checking' = TRUE,
         \A list \in {"cpu", "rt"} : \A id \in Entries(s[list]) : timers[id].left - clocks > -Window
  PROVE  Z80Inv' /\ Promise!AlarmsNext
<1>. DEFINE running == Entries(s["cpu"]) \cup Entries(s["rt"])
            left == [id \in Ids |-> IF id \in running THEN timers[id].left - clocks
                                    ELSE timers[id].left]
<1>1. /\ Sound(Z80, s) /\ IsState(Z80) /\ s \in [Lists -> Seq(Ids)] /\ Z80.timers = timers
      /\ Waiting(Z80, s)
  BY DEF Held, Sound, Linked, Z80
<1>2. Members("cpu") = Entries(s["cpu"]) /\ Members("rt") = Entries(s["rt"])
  BY <1>1, ListsOf DEF Lists
<1>3. /\ timers' = [id \in Ids |-> IF id \in running THEN [timers[id] EXCEPT !.left = @ - clocks]
                                   ELSE timers[id]]
      /\ UNCHANGED <<heads, ntimers, clockspeed, rung>>
  BY <1>2 DEF PassTime
<1>4. \A id \in Ids : timers[id] \in Timer /\ timers[id].left \in Int
  BY <1>1, StateTypes
<1>5. \A id \in Ids : left[id] = IF id \in running THEN timers[id].left - clocks
                                 ELSE timers[id].left
  OBVIOUS
<1>6. \A id \in running : id \in Ids
  BY <1>1, ElementOfSeq DEF Entries, Lists
<1>. HIDE DEF running, left
<1>7. \A id \in Ids : /\ timers'[id] \in Timer
                      /\ timers'[id].next = timers[id].next /\ timers'[id].prev = timers[id].prev
                      /\ timers'[id].period = timers[id].period /\ timers'[id].left = left[id]
  <2>1. ASSUME NEW id \in Ids
        PROVE  /\ timers'[id] \in Timer
               /\ timers'[id].next = timers[id].next /\ timers'[id].prev = timers[id].prev
               /\ timers'[id].period = timers[id].period /\ timers'[id].left = left[id]
    <3>1. CASE id \in running
      <4>1. timers'[id] = [timers[id] EXCEPT !.left = timers[id].left - clocks]
        BY <1>3, <3>1
      <4>2. timers[id].left - clocks \in Int /\ left[id] = timers[id].left - clocks
        BY <1>4, <1>5, <3>1
      <4>. QED  BY <1>4, <4>1, <4>2, NewLeft
    <3>2. CASE id \notin running
      <4>1. timers'[id] = timers[id]
        BY <1>3, <3>2
      <4>. QED  BY <1>4, <1>5, <3>2, <4>1
    <3>. QED  BY <3>1, <3>2
  <2>. QED  BY <2>1
<1>8. timers' \in [Ids -> Timer]
  <2>1. timers' = [id \in Ids |-> timers'[id]]
    BY <1>3
  <2>. QED  BY <1>7, <2>1
<1>9. \A list \in {"cpu", "rt"} : \A id \in Entries(s[list]) :
        id \in running /\ id \in Ids /\ left[id] = timers[id].left - clocks
  BY <1>5, <1>6 DEF running
<1>10. Moved(s, left)
  <2>1. \A list \in {"cpu", "rt"} : \A i, j \in Entries(s[list]) :
          timers[i].left <= timers[j].left => left[i] <= left[j]
    BY <1>4, <1>9
  <2>2. \A list \in {"cpu", "rt"} : \A id \in Entries(s[list]) : left[id] > -Window
    BY <1>9
  <2>. QED  BY <1>7, <2>1, <2>2 DEF Moved
<1>11. Sound(Z80', s)
  BY <1>3, <1>8, <1>10, MovedSound
<1>12. Z80Inv'
  <2>1. clockspeed' \in Speeds /\ checking' \in BOOLEAN /\ rung' \in BOOLEAN
    BY <1>3 DEF Z80Inv
  <2>. QED  BY <1>3, <1>11, <2>1, SameLists
<1>13. \A id \in Ids :
         IF id \in running
         THEN /\ AlarmsOfLists[id] = [on |-> TRUE, left |-> timers[id].left,
                                      rt |-> id \in Entries(s["rt"])]
              /\ AlarmsOfLists'[id] = [on |-> TRUE, left |-> timers'[id].left,
                                       rt |-> id \in Entries(s["rt"])]
         ELSE /\ AlarmsOfLists[id] = [on |-> FALSE, left |-> 0, rt |-> FALSE]
              /\ AlarmsOfLists'[id] = [on |-> FALSE, left |-> 0, rt |-> FALSE]
  BY <1>1, <1>11, SameAlarms DEF running
<1>14. \A id \in running : /\ AlarmsOfLists[id].on /\ AlarmsOfLists'[id].on
                           /\ AlarmsOfLists[id].left = timers[id].left
                           /\ AlarmsOfLists'[id].left = timers[id].left - clocks
                           /\ AlarmsOfLists'[id].rt = AlarmsOfLists[id].rt
                           /\ AlarmsOfLists[id].rt = (id \in Entries(s["rt"]))
  <2>1. ASSUME NEW id \in running
        PROVE  /\ AlarmsOfLists[id] = [on |-> TRUE, left |-> timers[id].left,
                                       rt |-> id \in Entries(s["rt"])]
               /\ AlarmsOfLists'[id] = [on |-> TRUE, left |-> timers'[id].left,
                                        rt |-> id \in Entries(s["rt"])]
    BY <1>6, <1>13, Zenon
  <2>2. ASSUME NEW id \in running
        PROVE  /\ AlarmsOfLists[id].on /\ AlarmsOfLists'[id].on
               /\ AlarmsOfLists[id].left = timers[id].left
               /\ AlarmsOfLists'[id].left = timers'[id].left
               /\ AlarmsOfLists[id].rt = (id \in Entries(s["rt"]))
               /\ AlarmsOfLists'[id].rt = (id \in Entries(s["rt"]))
    <3>. DEFINE old == AlarmsOfLists[id]
                new == AlarmsOfLists'[id]
                rt == id \in Entries(s["rt"])
    <3>1. /\ old = [on |-> TRUE, left |-> timers[id].left, rt |-> rt]
          /\ new = [on |-> TRUE, left |-> timers'[id].left, rt |-> rt]
      BY <2>1, Zenon
    <3>. HIDE DEF old, new, rt
    <3>2. old.on /\ old.left = timers[id].left /\ old.rt = rt
      BY <3>1, AlarmFields, Zenon DEF IsOn
    <3>3. new.on /\ new.left = timers'[id].left /\ new.rt = rt
      BY <3>1, AlarmFields, Zenon DEF IsOn
    <3>. QED  BY <3>2, <3>3 DEF old, new, rt
  <2>3. \A id \in running : timers'[id].left = timers[id].left - clocks
    BY <1>5, <1>6, <1>7
  <2>. QED  BY <2>2, <2>3
<1>15. Promise!Set = running /\ (Promise!Set)' = running
  <2>0. ASSUME NEW id \in Ids \ running
        PROVE  /\ AlarmsOfLists[id] = [on |-> FALSE, left |-> 0, rt |-> FALSE]
               /\ AlarmsOfLists'[id] = [on |-> FALSE, left |-> 0, rt |-> FALSE]
    BY <1>13, Zenon
  <2>1. \A id \in Ids : AlarmsOfLists[id].on <=> id \in running
    BY <1>14, <2>0
  <2>2. \A id \in Ids : AlarmsOfLists'[id].on <=> id \in running
    BY <1>14, <2>0
  <2>. QED  BY <1>6, <2>1, <2>2 DEF Promise!Set
<1>16. ASSUME NEW id \in running, NEW other \in running
       PROVE  Promise!Elapsed(id) = Promise!Elapsed(other)
  <2>1. timers[id].left \in Int /\ timers[other].left \in Int
    BY <1>4, <1>6
  <2>2. Promise!Elapsed(id) = clocks
    BY <1>14, <2>1 DEF Promise!Elapsed
  <2>3. Promise!Elapsed(other) = clocks
    BY <1>14, <2>1 DEF Promise!Elapsed
  <2>. QED  BY <2>2, <2>3
<1>17. ASSUME NEW id \in running PROVE Promise!Waits(AlarmsOfLists[id])
  <2>1. timers[id].left > 0 \/ (timers[id].left = 0 /\ id \in Entries(s["rt"]))
    BY <1>1 DEF Waiting, running
  <2>. QED  BY <1>14, <2>1 DEF Promise!Waits
<1>18. Promise!Run
  BY <1>14, <1>15, <1>16, <1>17 DEF Promise!Run
<1>. QED  BY <1>3, <1>12, <1>18 DEF Promise!AlarmsNext
\* A processor that is not checking its timers has none that is overdue.
LEMMA NotOverdue ==
  ASSUME NEW s, Held(s), ~checking
  PROVE  \A list \in {"cpu", "rt"} : \A id \in Entries(s[list]) :
           id \in Ids /\ timers[id].left \in Int /\ timers[id].left >= 0
<1>1. Sound(Z80, s) /\ Waiting(Z80, s) /\ Z80.timers = timers
  BY DEF Held, Z80
<1>2. \A list \in {"cpu", "rt"} : \A id \in Entries(s[list]) :
        id \in Ids /\ timers[id].left \in Int
  BY <1>1, HeadIsFirst
<1>. QED  BY <1>1, <1>2 DEF Waiting

\* An instruction.
LEMMA ExecuteStep ==
  ASSUME Z80Inv, NEW clocks \in Clocks, Execute(clocks)
  PROVE  Z80Inv' /\ Promise!AlarmsNext
<1>1. PICK s : Held(s)
  BY DEF Z80Inv
<1>2. ~checking /\ PassTime(clocks) /\ checking' = TRUE
  BY DEF Execute
<1>3. clocks \in 1..Window - 1 /\ Window \in Nat
  BY TimersAssumption DEF TimersAssumption
<1>4. \A list \in {"cpu", "rt"} : \A id \in Entries(s[list]) : timers[id].left - clocks > -Window
  BY <1>1, <1>2, <1>3, NotOverdue
<1>. QED  BY <1>1, <1>2, <1>3, <1>4, Passed

\* A halted processor goes on to the next deadline, at most.
LEMMA HaltStep ==
  ASSUME Z80Inv, HaltSkip
  PROVE  Z80Inv' /\ Promise!AlarmsNext
<1>. DEFINE ahead == {timers[heads[list]].left : list \in {l \in {"cpu", "rt"} : heads[l] # 0}}
            next == CHOOSE clocks \in ahead : \A other \in ahead : clocks <= other
            skipped == (next \div Quantum) * Quantum
<1>1. PICK s : Held(s)
  BY DEF Z80Inv
<1>2. ~checking /\ ahead # {} /\ PassTime(skipped) /\ checking' = TRUE
  BY DEF HaltSkip
<1>3. ASSUME NEW list \in {"cpu", "rt"}
      PROVE  /\ heads[list] # 0 => /\ heads[list] \in Entries(s[list])
                                   /\ \A id \in Entries(s[list]) :
                                        timers[heads[list]].left <= timers[id].left
             /\ heads[list] = 0 => Entries(s[list]) = {}
  <2>1. Sound(Z80, s) /\ Z80.heads = heads /\ Z80.timers = timers
    BY <1>1 DEF Held, Z80
  <2>. QED  BY <2>1, HeadIsFirst
<1>4. \A list \in {"cpu", "rt"} : \A id \in Entries(s[list]) :
        id \in Ids /\ timers[id].left \in Int /\ timers[id].left >= 0
  BY <1>1, <1>2, NotOverdue
<1>5. ahead \in SUBSET Nat
  BY <1>3, <1>4
<1>6. \E clocks \in ahead : \A other \in ahead : clocks <= other
  <2>. HIDE DEF ahead
  <2>. QED  BY <1>2, <1>5, Least
<1>7. next \in ahead /\ \A other \in ahead : next <= other
  <2>. HIDE DEF ahead
  <2>. QED  BY <1>6
<1>8. next \in Nat /\ Quantum \in Nat \ {0} /\ Window \in Nat \ {0}
  BY <1>5, <1>7, TimersAssumption DEF TimersAssumption
<1>9. skipped \in Nat /\ skipped <= next
  <2>. HIDE DEF next
  <2>. QED  BY <1>8, Multiple
<1>10. \A list \in {"cpu", "rt"} : \A id \in Entries(s[list]) : next <= timers[id].left
  <2>1. SUFFICES ASSUME NEW list \in {"cpu", "rt"}, NEW id \in Entries(s[list])
                 PROVE  next <= timers[id].left
    OBVIOUS
  <2>2. heads[list] # 0 /\ heads[list] \in Entries(s[list])
        /\ timers[heads[list]].left <= timers[id].left
    BY <1>3
  <2>3. timers[heads[list]].left \in ahead
    BY <2>2
  <2>. HIDE DEF next, ahead
  <2>. QED  BY <1>4, <1>7, <1>8, <2>2, <2>3
<1>. HIDE DEF skipped, next
<1>11. \A list \in {"cpu", "rt"} : \A id \in Entries(s[list]) : timers[id].left - skipped > -Window
  BY <1>4, <1>8, <1>9, <1>10
<1>. QED  BY <1>1, <1>2, <1>9, <1>11, Passed

\* The check ends when nothing is due: that changes no timer.
LEMMA EndStep ==
  ASSUME Z80Inv, EndCheck
  PROVE  Z80Inv' /\ UNCHANGED <<AlarmsOfLists, rung>>
<1>1. PICK s : Held(s)
  BY DEF Z80Inv
<1>2. /\ ~Due("cpu") /\ ~Due("rt") /\ checking' = FALSE
      /\ UNCHANGED <<timers, heads, ntimers, clockspeed, rung>>
  BY DEF EndCheck
<1>3. /\ Sound(Z80, s) /\ Timed(Z80, s) /\ Z80.heads = heads /\ Z80.timers = timers /\ Z80' = Z80
  BY <1>1, <1>2 DEF Held, Sound, Z80
<1>4. Waiting(Z80, s)
  <2>1. SUFFICES ASSUME NEW list \in {"cpu", "rt"}, NEW id \in Entries(s[list])
                 PROVE  timers[id].left > 0
    BY <1>3 DEF Waiting
  <2>2. /\ heads[list] # 0 /\ heads[list] \in Entries(s[list])
        /\ timers[heads[list]].left <= timers[id].left
        /\ timers[id].left \in Int /\ timers[heads[list]].left \in Int
    BY <1>3, HeadIsFirst
  <2>3. timers[heads[list]].left > -Window /\ Window \in Nat
    BY <1>3, <2>2, TimersAssumption DEF Timed, TimersAssumption
  <2>4. ~(timers[heads[list]].left \in -Window + 1..0)
    BY <1>2, <2>2 DEF Due
  <2>. QED  BY <2>2, <2>3, <2>4
<1>5. Sound(Z80', s) /\ (~checking' => Waiting(Z80', s))
  BY <1>3, <1>4
<1>6. Z80Inv'
  <2>1. clockspeed' \in Speeds /\ checking' \in BOOLEAN /\ rung' \in BOOLEAN
    BY <1>2 DEF Z80Inv
  <2>. QED  BY <1>1, <1>2, <1>5, <2>1, SameLists
<1>. QED  BY <1>2, <1>3, <1>5, <1>6, SameAlarms

\* The rounded product is a number of clocks, and keeps their order.
LEMMA Rounded ==
  ASSUME NEW speed \in Nat \ {0}, NEW old \in Nat \ {0}, NEW i \in Nat, NEW j \in Nat, i <= j
  PROVE  /\ (i * speed + old \div 2) \div old \in Nat
         /\ (i * speed + old \div 2) \div old <= (j * speed + old \div 2) \div old
<1>. DEFINE a == i * speed
            b == j * speed
            half == old \div 2
<1>1. a <= b /\ a \in Nat /\ b \in Nat
  BY ProductGrows
<1>2. half \in Nat
  BY QuotientBounds
<1>. HIDE DEF a, b, half
<1>3. a + half \in Nat /\ b + half \in Nat /\ a + half <= b + half
  BY <1>1, <1>2
<1>4. (a + half) \div old \in Nat /\ (a + half) \div old <= (b + half) \div old
  BY <1>3, QuotientGrows, QuotientBounds
<1>. QED  BY <1>4 DEF a, b, half
\* Another speed: what has time left in microseconds is counted anew.
LEMMA SetSpeed ==
  ASSUME Z80Inv, NEW speed \in Speeds, set_speed(speed)
  PROVE  Z80Inv' /\ Promise!AlarmsNext
<1>1. PICK s : Held(s)
  BY DEF Z80Inv
<1>. DEFINE realtime == Entries(s["rt"])
            anew(clocks) == (clocks * speed + clockspeed \div 2) \div clockspeed
            left == [id \in Ids |-> IF id \in realtime /\ timers[id].left > 0
                                    THEN anew(timers[id].left) ELSE timers[id].left]
<1>2. /\ Sound(Z80, s) /\ IsState(Z80) /\ s \in [Lists -> Seq(Ids)] /\ Z80.timers = timers
      /\ Linked(Z80, s) /\ Timed(Z80, s)
  BY <1>1 DEF Held, Sound, Linked, Z80
<1>3. Members("rt") = realtime
  BY <1>2, ListsOf DEF Lists
<1>4. /\ timers' = [id \in Ids |->
           IF id \in realtime /\ timers[id].left > 0
           THEN [timers[id] EXCEPT !.left = anew(timers[id].left)]
           ELSE timers[id]]
      /\ clockspeed' = speed
      /\ UNCHANGED <<heads, ntimers, checking, rung>>
  <2>1. \A id \in Ids :
          [timers[id] EXCEPT !.left = (@ * speed + clockspeed \div 2) \div clockspeed]
            = [timers[id] EXCEPT !.left = anew(timers[id].left)]
    OBVIOUS
  <2>. HIDE DEF realtime
  <2>. QED  BY <1>3, <2>1 DEF set_speed
<1>5. \A id \in Ids : timers[id] \in Timer /\ timers[id].left \in Int
  BY <1>2, StateTypes
<1>6. \A i, j \in Nat : i <= j => anew(i) \in Nat /\ anew(i) <= anew(j)
  <2>1. speed \in Nat \ {0} /\ clockspeed \in Nat \ {0}
    BY TimersAssumption DEF TimersAssumption, Z80Inv
  <2>. QED  BY <2>1, Rounded
<1>7. \A id \in Ids : left[id] = IF id \in realtime /\ timers[id].left > 0
                                 THEN anew(timers[id].left) ELSE timers[id].left
  BY Zenon
<1>8. \A list \in {"cpu", "rt"} : \A id \in Entries(s[list]) :
        /\ id \in Ids
        /\ list = "cpu" => id \notin realtime
        /\ list = "rt" => id \in realtime
        /\ timers[id].left > -Window
  <2>1. \A list \in {"cpu", "rt"} : \A id \in Entries(s[list]) : id \in Ids
    BY <1>2, ElementOfSeq DEF Entries, Lists
  <2>2. Entries(s["cpu"]) \cap Entries(s["rt"]) = {}
    BY <1>2 DEF Linked, Lists
  <2>3. \A list \in {"cpu", "rt"} : \A id \in Entries(s[list]) : timers[id].left > -Window
    BY <1>2 DEF Timed
  <2>. QED  BY <2>1, <2>2, <2>3
<1>. HIDE DEF anew, left, realtime
<1>9. \A id \in Ids : left[id] \in Int
  BY <1>5, <1>6, <1>7
<1>10. \A id \in Ids : /\ timers'[id] \in Timer
                       /\ timers'[id].next = timers[id].next /\ timers'[id].prev = timers[id].prev
                       /\ timers'[id].period = timers[id].period /\ timers'[id].left = left[id]
  <2>1. ASSUME NEW id \in Ids
        PROVE  /\ timers'[id] \in Timer
               /\ timers'[id].next = timers[id].next /\ timers'[id].prev = timers[id].prev
               /\ timers'[id].period = timers[id].period /\ timers'[id].left = left[id]
    <3>1. CASE id \in realtime /\ timers[id].left > 0
      <4>1. timers'[id] = [timers[id] EXCEPT !.left = anew(timers[id].left)]
        BY <1>4, <3>1
      <4>2. anew(timers[id].left) \in Int /\ left[id] = anew(timers[id].left)
        BY <1>7, <1>9, <3>1
      <4>. QED  BY <1>5, <4>1, <4>2, NewLeft
    <3>2. CASE ~(id \in realtime /\ timers[id].left > 0)
      <4>1. timers'[id] = timers[id]
        BY <1>4, <3>2
      <4>. QED  BY <1>5, <1>7, <3>2, <4>1
    <3>. QED  BY <3>1, <3>2
  <2>. QED  BY <2>1
<1>11. timers' \in [Ids -> Timer]
  <2>1. timers' = [id \in Ids |-> timers'[id]]
    BY <1>4
  <2>. QED  BY <1>10, <2>1
<1>12. \A id \in Ids : /\ timers[id].left > 0 => left[id] >= 0
                       /\ timers[id].left <= 0 => left[id] = timers[id].left
                       /\ id \notin realtime => left[id] = timers[id].left
  BY <1>5, <1>6, <1>7
<1>13. \A i, j \in realtime : timers[i].left <= timers[j].left => left[i] <= left[j]
  <2>1. SUFFICES ASSUME NEW i \in realtime, NEW j \in realtime, timers[i].left <= timers[j].left
                 PROVE  left[i] <= left[j]
    OBVIOUS
  <2>2. /\ i \in Ids /\ j \in Ids /\ timers[i].left \in Int /\ timers[j].left \in Int
        /\ left[i] \in Int /\ left[j] \in Int
    BY <1>5, <1>8, <1>9 DEF realtime
  <2>3. CASE timers[i].left <= 0
    BY <1>12, <2>1, <2>2, <2>3
  <2>4. CASE timers[i].left > 0
    <3>1. timers[i].left \in Nat /\ timers[j].left \in Nat /\ timers[j].left > 0
      BY <2>1, <2>2, <2>4
    <3>2. left[i] = anew(timers[i].left) /\ left[j] = anew(timers[j].left)
      BY <1>7, <2>2, <2>4, <3>1
    <3>. QED  BY <1>6, <2>1, <3>1, <3>2
  <2>. QED  BY <2>2, <2>3, <2>4
<1>14. Window \in Nat \ {0}
  BY TimersAssumption DEF TimersAssumption
<1>15. Moved(s, left)
  <2>1. \A list \in {"cpu", "rt"} : \A i, j \in Entries(s[list]) :
          timers[i].left <= timers[j].left => left[i] <= left[j]
    <3>1. \A i, j \in Entries(s["cpu"]) :
            timers[i].left <= timers[j].left => left[i] <= left[j]
      BY <1>8, <1>12
    <3>2. \A i, j \in Entries(s["rt"]) :
            timers[i].left <= timers[j].left => left[i] <= left[j]
      BY <1>13 DEF realtime
    <3>. QED  BY <3>1, <3>2
  <2>2. \A list \in {"cpu", "rt"} : \A id \in Entries(s[list]) : left[id] > -Window
    BY <1>5, <1>8, <1>9, <1>12, <1>14
  <2>. QED  BY <1>10, <2>1, <2>2 DEF Moved
<1>16. Sound(Z80', s)
  BY <1>1, <1>4, <1>11, <1>15, MovedSound
<1>17. ~checking' => Waiting(Z80', s)
  <2>1. SUFFICES ASSUME ~checking, NEW list \in {"cpu", "rt"}, NEW id \in Entries(s[list])
                 PROVE  timers'[id].left > 0 \/ (timers'[id].left = 0 /\ list = "rt")
    BY <1>4 DEF Waiting, Z80
  <2>2. timers[id].left > 0 \/ (timers[id].left = 0 /\ list = "rt")
    BY <1>1, <1>2, <2>1 DEF Held, Waiting
  <2>3. id \in Ids /\ timers'[id].left = left[id] /\ left[id] \in Int
    BY <1>8, <1>9, <1>10
  <2>. QED  BY <1>8, <1>12, <2>2, <2>3
<1>18. Z80Inv'
  <2>1. clockspeed' \in Speeds /\ checking' \in BOOLEAN /\ rung' \in BOOLEAN
    BY <1>4 DEF Z80Inv
  <2>. QED  BY <1>1, <1>4, <1>16, <1>17, <2>1, SameLists
<1>19. Promise!ChangeSpeed
  <2>1. ASSUME NEW id \in Ids
        PROVE  \/ AlarmsOfLists'[id] = AlarmsOfLists[id]
               \/ /\ id \in Promise!Set /\ AlarmsOfLists[id].rt /\ AlarmsOfLists[id].left > 0
                  /\ AlarmsOfLists'[id].on /\ AlarmsOfLists'[id].rt
                  /\ AlarmsOfLists'[id].left >= 0
    <3>. DEFINE running == Entries(s["cpu"]) \cup Entries(s["rt"])
                old == AlarmsOfLists[id]
                new == AlarmsOfLists'[id]
    <3>1. IF id \in running
          THEN /\ old = [on |-> TRUE, left |-> timers[id].left, rt |-> id \in Entries(s["rt"])]
               /\ new = [on |-> TRUE, left |-> timers'[id].left, rt |-> id \in Entries(s["rt"])]
          ELSE /\ old = [on |-> FALSE, left |-> 0, rt |-> FALSE]
               /\ new = [on |-> FALSE, left |-> 0, rt |-> FALSE]
      BY <1>2, <1>16, SameAlarms
    <3>2. timers'[id].left = left[id]
      BY <1>10
    <3>3. CASE id \in realtime /\ timers[id].left > 0
      <4>1. id \in running /\ (id \in Entries(s["rt"])) = TRUE
        BY <3>3 DEF realtime
      <4>. HIDE DEF running, old, new
      <4>2. /\ old = [on |-> TRUE, left |-> timers[id].left, rt |-> TRUE]
            /\ new = [on |-> TRUE, left |-> left[id], rt |-> TRUE]
        BY <3>1, <3>2, <4>1
      <4>3. left[id] >= 0
        BY <1>12, <3>3
      <4>4. old.on /\ old.rt /\ old.left > 0 /\ new.on /\ new.rt /\ new.left >= 0
        BY <3>3, <4>2, <4>3
      <4>. QED  BY <4>4 DEF Promise!Set, old, new
    <3>4. CASE ~(id \in realtime /\ timers[id].left > 0)
      <4>1. left[id] = timers[id].left
        BY <1>7, <3>4
      <4>. HIDE DEF running, old, new
      <4>2. old = new
        BY <3>1, <3>2, <4>1, Zenon
      <4>. QED  BY <4>2 DEF old, new
    <3>. QED  BY <3>3, <3>4
  <2>. QED  BY <2>1 DEF Promise!ChangeSpeed
<1>. QED  BY <1>4, <1>18, <1>19 DEF Promise!AlarmsNext
\* An alarm that is put off.
LEMMA AlarmLater ==
  ASSUME NEW on, NEW left, NEW rt, NEW alarm, alarm = [on |-> on, left |-> left, rt |-> rt],
         NEW later
  PROVE  [alarm EXCEPT !.left = later] = [on |-> on, left |-> later, rt |-> rt]
OBVIOUS

\* The alarm of a timer that runs, and of one that does not.
LEMMA AlarmOn ==
  ASSUME NEW z, NEW s, NEW id \in Ids, id \in Entries(s["cpu"]) \cup Entries(s["rt"]),
         NEW alarm, alarm = AlarmsOf(z, s)[id]
  PROVE  IsOn(alarm, z.timers[id].left, id \in Entries(s["rt"]))
<1>. DEFINE rt == id \in Entries(s["rt"])
            left == z.timers[id].left
<1>1. alarm = [on |-> TRUE, left |-> left, rt |-> rt]
  BY Zenon DEF AlarmsOf
<1>. HIDE DEF rt, left
<1>2. IsOn(alarm, left, rt)
  BY ONLY <1>1, AlarmFields, Zenon
<1>. QED  BY <1>2, Zenon DEF rt, left

\* The alarm of a timer that does not run is off.
LEMMA AlarmOff ==
  ASSUME NEW z, NEW s, NEW id \in Ids, id \notin Entries(s["cpu"]) \cup Entries(s["rt"]),
         NEW alarm, alarm = AlarmsOf(z, s)[id]
  PROVE  alarm = Promise!Off /\ ~alarm.on
<1>1. alarm = [on |-> FALSE, left |-> 0, rt |-> FALSE]
  BY Zenon DEF AlarmsOf
<1>. QED  BY <1>1 DEF Promise!Off

\* A timer that is due calls back: it stops, or is renewed a period after its deadline.
LEMMA FireStep ==
  ASSUME Z80Inv, NEW list \in {"cpu", "rt"}, Fire(list)
  PROVE  Z80Inv' /\ Promise!AlarmsNext
<1>. DEFINE tmr == heads[list]
            period == timers[tmr].period
            y == timer_set(timer_unset(Z80, tmr), tmr, period, period, list, -timers[tmr].left)
<1>1. PICK s : Held(s)
  BY DEF Z80Inv
<1>2. /\ checking /\ Due(list) /\ become(y) /\ rung' = ~rung
      /\ UNCHANGED <<ntimers, clockspeed, checking>>
  BY DEF Fire
<1>3. /\ Sound(Z80, s) /\ Linked(Z80, s) /\ Timed(Z80, s) /\ Z80.heads = heads
      /\ Z80.timers = timers /\ s \in [Lists -> Seq(Ids)]
  BY <1>1 DEF Held, Sound, Linked, Z80
<1>4. tmr # 0 /\ timers[tmr].left \in -Window + 1..0
  BY <1>2 DEF Due
<1>5. /\ tmr \in Ids /\ tmr \in Entries(s[list])
      /\ \A id \in Entries(s[list]) : id \in Ids /\ timers[tmr].left <= timers[id].left
  BY <1>3, <1>4, HeadIsFirst
<1>6. tmr \notin Entries(s["free"])
  BY <1>3, <1>5 DEF Linked, Lists
<1>7. tmr < ntimers
  BY <1>1, <1>5 DEF Held, Below, Lists
<1>8. /\ period \in Periods /\ period \in Nat /\ timers[tmr].left \in Int /\ timers[tmr].left <= 0
      /\ timers[tmr].left > -Window /\ clockspeed \in Speeds /\ clockspeed \in Nat \ {0}
      /\ Window \in Nat
  <2>1. period \in Periods /\ period \in Nat
    BY <1>3, <1>5, TimersAssumption DEF TimersAssumption, Timed
  <2>2. clockspeed \in Speeds /\ clockspeed \in Nat \ {0} /\ Window \in Nat
    BY TimersAssumption DEF TimersAssumption, Z80Inv
  <2>. QED  BY <1>4, <2>1, <2>2
<1>9. y = timer_set(timer_unset(Z80, tmr), tmr, period, period, list, -timers[tmr].left)
  OBVIOUS
<1>. HIDE DEF y, period, tmr
<1>. DEFINE clocks == IF list = "rt" THEN period * clockspeed ELSE period
<1>10. /\ clocks \in Nat /\ (period # 0 => clocks \in Nat \ {0})
       /\ clocks \in Periods \cup {p * speed : p \in Periods, speed \in Speeds}
  <2>1. period # 0 => period * clockspeed \in Nat \ {0}
    BY <1>8, ProductPositive
  <2>2. period = 0 => period * clockspeed = 0
    BY <1>8
  <2>. QED  BY <1>8, <2>1, <2>2
<1>11. ClocksOf(period, list, -timers[tmr].left) = timers[tmr].left + clocks
  <2>1. ClocksOf(period, list, -timers[tmr].left) = clocks - (-timers[tmr].left)
    BY Zenon DEF ClocksOf
  <2>. HIDE DEF clocks
  <2>. QED  BY <1>8, <1>10, <2>1
<1>. HIDE DEF clocks
<1>12. period # 0 => /\ ClocksOf(period, list, -timers[tmr].left) \in Int
                     /\ ClocksOf(period, list, -timers[tmr].left) > -Window
                     /\ period \in Periods
  BY <1>8, <1>10, <1>11
<1>13. PICK t : /\ Sound(y, t) /\ Kept(y, t, Z80, s, tmr)
                /\ period = 0 => Idle(t, tmr)
                /\ period # 0 => /\ tmr \in Entries(t[list])
                                 /\ y.timers[tmr].left = timers[tmr].left + clocks
  BY <1>3, <1>5, <1>6, <1>9, <1>11, <1>12, ResetSound
<1>14. Below(t, ntimers') /\ Others(y, t, Z80, s, tmr)
  BY <1>1, <1>2, <1>7, <1>13, KeptBelow, KeptOthers DEF Held
<1>15. ntimers' \in Hardware + 1..MaxTimers + 1 /\ rung' \in BOOLEAN
  BY <1>2 DEF Z80Inv
<1>16. /\ Z80Inv' /\ Promise!OthersStay(tmr)
       /\ AlarmsOfLists = AlarmsOf(Z80, s) /\ AlarmsOfLists' = AlarmsOf(y, t)
  BY <1>1, <1>2, <1>5, <1>13, <1>14, <1>15, Changed
<1>17. /\ \A l, m \in Lists : l # m => Entries(s[l]) \cap Entries(s[m]) = {}
       /\ \A l, m \in Lists : l # m => Entries(t[l]) \cap Entries(t[m]) = {}
  BY <1>3, <1>13 DEF Sound, Linked
<1>. DEFINE running == Entries(s["cpu"]) \cup Entries(s["rt"])
            old == AlarmsOfLists[tmr]
            new == AlarmsOfLists'[tmr]
<1>18. \A id \in Entries(s[list]) : (id \in Entries(s["rt"])) <=> list = "rt"
  BY <1>17 DEF Lists
<1>19. tmr \in running
  BY <1>5
<1>20. /\ old = [on |-> TRUE, left |-> timers[tmr].left, rt |-> list = "rt"]
       /\ old.on /\ old.left = timers[tmr].left /\ old.rt = (list = "rt")
  <2>1. (tmr \in Entries(s["rt"])) = (list = "rt")
    BY <1>5, <1>18
  <2>2. old = AlarmsOf(Z80, s)[tmr]
    BY <1>16
  <2>. HIDE DEF old
  <2>3. /\ old = [on |-> TRUE, left |-> timers[tmr].left, rt |-> tmr \in Entries(s["rt"])]
        /\ old.on /\ old.left = timers[tmr].left /\ old.rt = (tmr \in Entries(s["rt"]))
    <3>1. IsOn(old, Z80.timers[tmr].left, tmr \in Entries(s["rt"]))
      BY <1>5, <1>19, <2>2, AlarmOn, Zenon
    <3>. QED  BY <1>3, <3>1, Zenon DEF IsOn
  <2>. QED  BY <2>1, <2>3, Zenon
<1>21. tmr \in Promise!Set /\ old.left <= 0
  BY <1>5, <1>8, <1>20 DEF Promise!Set
<1>22. ASSUME NEW other \in Promise!Set, AlarmsOfLists[other].rt = old.rt
       PROVE  old.left <= AlarmsOfLists[other].left
  <2>. DEFINE it == AlarmsOfLists[other]
  <2>1. other \in Ids /\ it.on /\ it = AlarmsOf(Z80, s)[other] /\ it.rt = (list = "rt")
    BY <1>16, <1>20, <1>22 DEF Promise!Set
  <2>. HIDE DEF it
  <2>2. /\ other \in running
        /\ it.left = timers[other].left /\ it.rt = (other \in Entries(s["rt"]))
    <3>1. other \in running
      BY <2>1, AlarmOff
    <3>2. IsOn(it, Z80.timers[other].left, other \in Entries(s["rt"]))
      BY <2>1, <3>1, AlarmOn, Zenon
    <3>. QED  BY <1>3, <3>1, <3>2, Zenon DEF IsOn
  <2>3. (other \in Entries(s["rt"])) <=> list = "rt"
    BY <2>1, <2>2
  <2>4. other \in Entries(s[list])
    BY <2>2, <2>3
  <2>. QED  BY <1>5, <1>20, <2>2, <2>4 DEF it
<1>23. \/ new = Promise!Off
       \/ \E p \in (Periods \cup {p * speed : p \in Periods, speed \in Speeds}) \ {0} :
            new = [old EXCEPT !.left = @ + p]
  <2>1. new = AlarmsOf(y, t)[tmr]
    BY <1>16
  <2>2. CASE period = 0
    <3>1. tmr \notin Entries(t["cpu"]) \cup Entries(t["rt"])
      BY <1>13, <2>2 DEF Idle, Lists
    <3>. HIDE DEF new
    <3>. QED  BY <1>5, <2>1, <3>1, AlarmOff
  <2>3. CASE period # 0
    <3>1. tmr \in Entries(t[list]) /\ y.timers[tmr].left = timers[tmr].left + clocks
      BY <1>13, <2>3
    <3>2. (tmr \in Entries(t["rt"])) <=> list = "rt"
      BY <1>17, <3>1 DEF Lists
    <3>3. (tmr \in Entries(t["rt"])) = (list = "rt") /\ tmr \in Entries(t["cpu"]) \cup Entries(t["rt"])
      BY <3>1, <3>2
    <3>. HIDE DEF new, old
    <3>4. new = [on |-> TRUE, left |-> y.timers[tmr].left, rt |-> tmr \in Entries(t["rt"])]
      <4>1. IsOn(new, y.timers[tmr].left, tmr \in Entries(t["rt"]))
        BY <1>5, <2>1, <3>3, AlarmOn, Zenon
      <4>. QED  BY <4>1, Zenon DEF IsOn
    <3>5. new = [on |-> TRUE, left |-> timers[tmr].left + clocks, rt |-> list = "rt"]
      BY <3>1, <3>3, <3>4, Zenon
    <3>6. new = [old EXCEPT !.left = @ + clocks]
      <4>. DEFINE rt == list = "rt"
                  on == TRUE
                  later == timers[tmr].left + clocks
      <4>1. /\ new = [on |-> on, left |-> later, rt |-> rt]
            /\ old = [on |-> on, left |-> timers[tmr].left, rt |-> rt]
            /\ old.left + clocks = later
        BY <1>20, <3>5, Zenon
      <4>. HIDE DEF rt, on, later
      <4>2. [old EXCEPT !.left = later] = [on |-> on, left |-> later, rt |-> rt]
        BY <4>1, AlarmLater
      <4>. QED  BY <4>1, <4>2, Zenon
    <3>. QED  BY <1>10, <2>3, <3>6
  <2>. QED  BY <2>2, <2>3
<1>24. Promise!Ring(tmr)
  BY <1>16, <1>21, <1>22, <1>23 DEF Promise!Ring
<1>. QED  BY <1>2, <1>16, <1>21, <1>24 DEF Promise!AlarmsNext
\* The emulator starts with empty lists, and no alarm is set.
LEMMA InitStep ==
  ASSUME Z80Init
  PROVE  Z80Inv /\ Promise!AlarmsInit
<1>. DEFINE s == [list \in Lists |-> <<>>]
<1>1. /\ timers = [id \in Ids |-> Stopped] /\ heads = [list \in Lists |-> 0]
      /\ ntimers = Hardware + 1 /\ clockspeed \in Speeds /\ checking = FALSE /\ rung = FALSE
  BY DEF Z80Init, Lists
<1>2. /\ Hardware \in Nat /\ MaxTimers \in Nat /\ Hardware <= MaxTimers
  BY TimersAssumption DEF TimersAssumption, Ids
<1>3. /\ \A list \in Lists : s[list] = <<>> /\ Entries(s[list]) = {} /\ Len(s[list]) = 0
      /\ s \in [Lists -> Seq(Ids)]
  BY DEF Entries
<1>4. /\ Z80.timers = timers /\ Z80.heads = heads /\ IsState(Z80)
      /\ \A id \in Ids : Z80.timers[id].next = 0 /\ Z80.timers[id].prev = 0
  <2>1. Stopped \in Timer
    BY <1>2 DEF Stopped, Timer
  <2>2. timers \in [Ids -> Timer] /\ heads \in [Lists -> Links]
    BY <1>1, <1>2, <2>1 DEF Links
  <2>. QED  BY <1>1, <2>2 DEF Z80, IsState, Stopped
<1>. HIDE DEF s
<1>5. Linked(Z80, s)
  <2>1. \A list \in Lists : Distinct(s[list]) /\ Onward(Z80, Z80.heads[list], s[list])
    BY <1>1, <1>3, <1>4 DEF Distinct, Onward, First
  <2>2. \A list \in {"cpu", "rt"} : Backward(Z80, s[list])
    BY <1>3 DEF Backward, Lists
  <2>3. \A l, m \in Lists : l # m => Entries(s[l]) \cap Entries(s[m]) = {}
    BY <1>3
  <2>. QED  BY <1>3, <1>4, <2>1, <2>2, <2>3 DEF Linked
<1>6. Timed(Z80, s)
  BY <1>3 DEF Timed, Sorted, Lists
<1>7. Held(s)
  BY <1>3, <1>5, <1>6 DEF Held, Sound, Below, Waiting, Lists
<1>8. Z80Inv
  <2>1. ntimers \in Hardware + 1..MaxTimers + 1
    BY <1>1, <1>2
  <2>2. clockspeed \in Speeds /\ checking \in BOOLEAN /\ rung \in BOOLEAN
    BY <1>1
  <2>. QED  BY <1>7, <2>1, <2>2 DEF Z80Inv
<1>9. AlarmsOfLists = [id \in Ids |-> Promise!Off]
  <2>1. AlarmsOfLists = AlarmsOf(Z80, s)
    BY <1>7, ListsOf DEF Held
  <2>2. Entries(s["cpu"]) \cup Entries(s["rt"]) = {}
    BY <1>3 DEF Lists
  <2>. QED  BY <2>1, <2>2 DEF AlarmsOf, Promise!Off
<1>. QED  BY <1>1, <1>8, <1>9 DEF Promise!AlarmsInit

\* A step of something else.
LEMMA StutterStep ==
  ASSUME Z80Inv, UNCHANGED z80Vars
  PROVE  Z80Inv' /\ UNCHANGED <<AlarmsOfLists, rung>>
<1>1. PICK s : Held(s)
  BY DEF Z80Inv
<1>2. Z80' = Z80 /\ UNCHANGED <<timers, heads, ntimers, clockspeed, checking, rung>>
  BY DEF Z80, z80Vars
<1>3. Sound(Z80, s) /\ Sound(Z80', s) /\ (~checking' => Waiting(Z80', s))
  BY <1>1, <1>2 DEF Held
<1>4. Z80Inv'
  <2>1. clockspeed' \in Speeds /\ checking' \in BOOLEAN /\ rung' \in BOOLEAN
    BY <1>2 DEF Z80Inv
  <2>. QED  BY <1>1, <1>2, <1>3, <2>1, SameLists
<1>. QED  BY <1>2, <1>3, <1>4, SameAlarms

\* Every step keeps the invariant, and is one of the promise or no step of it.
LEMMA NextStep ==
  ASSUME Z80Inv, [Z80Next]_z80Vars
  PROVE  Z80Inv' /\ [Promise!AlarmsNext]_<<AlarmsOfLists, rung>>
<1>1. CASE UNCHANGED z80Vars
  BY <1>1, StutterStep
<1>2. ASSUME NEW list \in {"cpu", "rt"}, Fire(list)
      PROVE  Z80Inv' /\ Promise!AlarmsNext
  BY <1>2, FireStep
<1>3. ASSUME NEW list \in {"cpu", "rt"}, NEW count \in Counts, NEW period \in Periods,
             add_timer(count, period, list)
      PROVE  Z80Inv' /\ Promise!AlarmsNext
  BY <1>3, AddTimer
<1>4. ASSUME NEW list \in {"cpu", "rt"}, NEW count \in Counts, NEW period \in Periods,
             NEW id \in Ids, set_timer(id, count, period, list)
      PROVE  Z80Inv' /\ Promise!AlarmsNext
  BY <1>4, SetTimer
<1>5. ASSUME NEW id \in Ids, NEW period \in Periods, set_timer_period(id, period)
      PROVE  Z80Inv' /\ UNCHANGED <<AlarmsOfLists, rung>>
  BY <1>5, SetPeriod
<1>6. ASSUME NEW id \in Ids, set_timer(id, 0, 0, "cpu")
      PROVE  Z80Inv' /\ Promise!AlarmsNext
  BY <1>6, SetTimer
<1>7. ASSUME NEW id \in Ids, remove_timer(id)
      PROVE  Z80Inv' /\ Promise!AlarmsNext
  BY <1>7, RemoveTimer
<1>8. ASSUME NEW speed \in Speeds, set_speed(speed)
      PROVE  Z80Inv' /\ Promise!AlarmsNext
  BY <1>8, SetSpeed
<1>9. ASSUME NEW clocks \in Clocks, Execute(clocks)
      PROVE  Z80Inv' /\ Promise!AlarmsNext
  BY <1>9, ExecuteStep
<1>10. CASE EndCheck
  BY <1>10, EndStep
<1>11. CASE HaltSkip
  BY <1>11, HaltStep
<1>. QED  BY <1>1, <1>2, <1>3, <1>4, <1>5, <1>6, <1>7, <1>8, <1>9, <1>10, <1>11, Zenon DEF Z80Next

\* The invariant holds throughout, and implies that the lists are sound.
LEMMA Z80Invariant == Z80Spec => []Z80Inv
<1>1. Z80Init => Z80Inv
  BY InitStep
<1>2. Z80Inv /\ [Z80Next]_z80Vars => Z80Inv'
  BY NextStep
<1>. QED  BY <1>1, <1>2, PTL DEF Z80Spec

\* The lists stay lists through every order of insertions, removals, renewals and growth of the
\* array (apps/tilem/emu/z80.c: timer_insert, timer_unset, timer_set, timer_free, timer_alloc):
\* linked alike both ways, apart from each other, and a timer runs when it is in one of the two.
THEOREM ProcessorListsAreSound == Z80Spec => []ListsAreSound
<1>1. Z80Inv => ListsAreSound
  <2>. SUFFICES ASSUME Z80Inv PROVE ListsAreSound
    OBVIOUS
  <2>1. PICK s : Sound(Z80, s)
    BY DEF Z80Inv, Held
  <2>2. ntimers \in 1..MaxTimers + 1
    BY TimersAssumption DEF TimersAssumption, Ids, Z80Inv
  <2>. QED  BY <2>1, <2>2, ListsOf
<1>. QED  BY <1>1, Z80Invariant, PTL

\* The lists implement the alarms: no timer is forgotten, rings early or out of turn, or drifts
\* (apps/tilem/emu/z80.c: check_timers, tilem_z80_set_speed and the functions above).
THEOREM ProcessorTimersKeepTime == Z80Spec => TimersKeepTime
<1>1. Z80Init => Promise!AlarmsInit
  BY InitStep
<1>2. Z80Inv /\ [Z80Next]_z80Vars => [Promise!AlarmsNext]_<<AlarmsOfLists, rung>>
  BY NextStep
<1>. QED  BY <1>1, <1>2, Z80Invariant, PTL DEF Z80Spec, TimersKeepTime, Promise!AlarmsSafe

-----------------------------------------------------------------------------
(* The arithmetic: bits.                                                   *)

\* The weights of the bits that the flags are made of.
LEMMA Powers ==
  /\ 2^4 = 16 /\ 2^7 = 128 /\ 2^8 = 2 * 2^7 /\ 2^9 = 512
  /\ 2^15 \in Nat \ {0} /\ 2^16 = 2 * 2^15 /\ 2^17 = 4 * 2^15
OBVIOUS

\* A product with a number that is not 0 is no less than the other factor.
LEMMA Product == ASSUME NEW h \in Nat, NEW n \in Nat \ {0} PROVE h * n >= h
OBVIOUS

\* A number is its quotient, and what remains.
LEMMA Quotient ==
  ASSUME NEW h \in Nat \ {0}, NEW k \in Int, NEW n \in Int, k * h <= n, n < k * h + h
  PROVE  n \div h = k /\ n % h = n - k * h
<1>. DEFINE q == n \div h
<1>1. q \in Int /\ h * q <= n /\ n < h * q + h /\ n % h = n - h * q
  OBVIOUS
<1>. HIDE DEF q
<1>2. CASE q < k
  <2>1. k - q \in Nat \ {0} /\ h * (k - q) >= h
    BY <1>1, <1>2, Product
  <2>2. h * (k - q) = k * h - h * q
    BY <1>1
  <2>. QED  BY <1>1, <2>1, <2>2
<1>3. CASE q > k
  <2>1. q - k \in Nat \ {0} /\ h * (q - k) >= h
    BY <1>1, <1>3, Product
  <2>2. h * (q - k) = h * q - k * h
    BY <1>1
  <2>. QED  BY <1>1, <2>1, <2>2
<1>4. CASE q = k
  BY <1>1, <1>4 DEF q
<1>. QED  BY <1>1, <1>2, <1>3, <1>4

\* A difference of numbers below w wraps around to what is w, or 2 w, more.
LEMMA Wrap ==
  ASSUME NEW w \in Nat \ {0}, NEW d \in Int, -w <= d, d < w
  PROVE  /\ d % w = IF d < 0 THEN d + w ELSE d
         /\ d % (2 * w) = IF d < 0 THEN d + 2 * w ELSE d
<1>. DEFINE w2 == 2 * w
            none == 0
            back == -1
<1>1. w2 \in Nat \ {0} /\ w2 = 2 * w
  OBVIOUS
<1>2. none \in Int /\ back \in Int
  OBVIOUS
<1>3. /\ none * w = 0 /\ none * w2 = 0 /\ back * w = -w /\ back * w2 = -w2
  BY <1>1
<1>. HIDE DEF w2, none, back
<1>4. CASE d < 0
  <2>1. /\ back * w <= d /\ d < back * w + w
        /\ back * w2 <= d /\ d < back * w2 + w2
    BY <1>1, <1>3, <1>4
  <2>2. d % w = d - back * w /\ d % w2 = d - back * w2
    BY <1>1, <1>2, <2>1, Quotient
  <2>. QED  BY <1>1, <1>3, <1>4, <2>2
<1>5. CASE d >= 0
  <2>1. /\ none * w <= d /\ d < none * w + w
        /\ none * w2 <= d /\ d < none * w2 + w2
    BY <1>1, <1>3, <1>5
  <2>2. d % w = d - none * w /\ d % w2 = d - none * w2
    BY <1>1, <1>2, <2>1, Quotient
  <2>. QED  BY <1>1, <1>3, <1>5, <2>2
<1>. QED  BY <1>4, <1>5

\* The two highest bits of a sum, and the sum cut to the width of its operands.
LEMMA HighBits ==
  ASSUME NEW h \in Nat \ {0}, NEW n \in 0..4 * h - 1
  PROVE  /\ (n \div h) % 2 = IF n % (2 * h) >= h THEN 1 ELSE 0
         /\ (n \div (2 * h)) % 2 = IF n >= 2 * h THEN 1 ELSE 0
         /\ n % (2 * h) = IF n >= 2 * h THEN n - 2 * h ELSE n
<1>. DEFINE w == 2 * h
<1>0. w \in Nat \ {0} /\ w = 2 * h /\ n \in Int
  OBVIOUS
<1>. HIDE DEF w
<1>1. CASE n < h
  <2>1. n \div h = 0
    BY <1>1, Quotient
  <2>2. n \div w = 0 /\ n % w = n
    BY <1>0, <1>1, Quotient
  <2>. QED  BY <1>0, <1>1, <2>1, <2>2
<1>2. CASE h <= n /\ n < 2 * h
  <2>1. n \div h = 1
    BY <1>2, Quotient
  <2>2. n \div w = 0 /\ n % w = n
    BY <1>0, <1>2, Quotient
  <2>. QED  BY <1>0, <1>2, <2>1, <2>2
<1>3. CASE 2 * h <= n /\ n < 3 * h
  <2>1. n \div h = 2
    BY <1>3, Quotient
  <2>2. n \div w = 1 /\ n % w = n - w
    <3>. DEFINE one == 1
    <3>0. one \in Int
      OBVIOUS
    <3>1. one = 1 /\ one * w = w
      BY <1>0
    <3>. HIDE DEF one
    <3>2. one * w <= n /\ n < one * w + w
      BY <1>0, <1>3, <3>1
    <3>3. n \div w = one /\ n % w = n - one * w
      BY <1>0, <3>0, <3>2, Quotient
    <3>. QED  BY <3>1, <3>3
  <2>. QED  BY <1>0, <1>3, <2>1, <2>2
<1>4. CASE 3 * h <= n
  <2>1. n \div h = 3
    BY <1>4, Quotient
  <2>2. n \div w = 1 /\ n % w = n - w
    <3>. DEFINE one == 1
    <3>0. one \in Int
      OBVIOUS
    <3>1. one = 1 /\ one * w = w
      BY <1>0
    <3>. HIDE DEF one
    <3>2. one * w <= n /\ n < one * w + w
      BY <1>0, <1>4, <3>1
    <3>3. n \div w = one /\ n % w = n - one * w
      BY <1>0, <3>0, <3>2, Quotient
    <3>. QED  BY <3>1, <3>3
  <2>. QED  BY <1>0, <1>4, <2>1, <2>2
<1>. QED  BY <1>1, <1>2, <1>3, <1>4

-----------------------------------------------------------------------------
(* Flags.                                                                  *)

\* What the flags of a sum or difference tell of its operands and result, by
\* the weight h of the sign bit.
Tells(f, x, y, res, h, subtract) ==
  /\ f \in [s : BOOLEAN, z : BOOLEAN, h : BOOLEAN, p : BOOLEAN, n : BOOLEAN, c : BOOLEAN]
  /\ f.s <=> res % (2 * h) >= h
  /\ f.z <=> res % (2 * h) = 0
  /\ f.c <=> res >= 2 * h
  /\ f.n <=> subtract
  /\ f.p <=> /\ IF subtract THEN (x >= h) # (y >= h) ELSE (x >= h) <=> (y >= h)
             /\ (x >= h) # (res % (2 * h) >= h)

\* Those that the macros find.
LEMMA FlagsTell ==
  ASSUME NEW top \in {7, 15}, NEW subtract \in BOOLEAN, NEW h, h = 2^top,
         NEW x \in 0..2 * h - 1, NEW y \in 0..2 * h - 1, NEW res \in 0..4 * h - 1
  PROVE  Tells(flagsOf(x, y, res, top, subtract), x, y, res, h, subtract)
<1>. DEFINE f == flagsOf(x, y, res, top, subtract)
<1>1. /\ h \in Nat \ {0} /\ 2^(top + 1) = 2 * h
      /\ x \in 0..4 * h - 1 /\ y \in 0..4 * h - 1
  <2>1. CASE top = 7
    BY <2>1, Powers
  <2>2. CASE top = 15
    BY <2>2, Powers
  <2>. QED  BY <2>1, <2>2
<1>2. ASSUME NEW n \in 0..4 * h - 1
      PROVE  /\ bit(n, top) = IF n % (2 * h) >= h THEN 1 ELSE 0
             /\ bit(n, top + 1) = IF n >= 2 * h THEN 1 ELSE 0
             /\ n % (2 * h) = IF n >= 2 * h THEN n - 2 * h ELSE n
  <2>1. bit(n, top) = (n \div h) % 2 /\ bit(n, top + 1) = (n \div (2 * h)) % 2
    BY <1>1 DEF bit
  <2>. QED  BY <1>1, <2>1, HighBits
<1>3. /\ bit(x, top) = 1 <=> x >= h
      /\ bit(y, top) = 1 <=> y >= h
      /\ bit(x, top) = bit(y, top) <=> (x >= h <=> y >= h)
      /\ bit(x, top) # bit(y, top) <=> (x >= h) # (y >= h)
      /\ bit(res, top) = 1 <=> res % (2 * h) >= h
      /\ bit(x, top) # bit(res, top) <=> (x >= h) # (res % (2 * h) >= h)
      /\ bit(res, top + 1) = 1 <=> res >= 2 * h
  BY <1>1, <1>2
<1>4. /\ f.s <=> bit(res, top) = 1
      /\ f.z <=> res % (2 * h) = 0
      /\ f.p <=> /\ (bit(x, top) = bit(y, top)) # subtract
                 /\ bit(x, top) # bit(res, top)
      /\ f.n <=> subtract
      /\ f.c <=> bit(res, top + 1) = 1
  BY <1>1 DEF flagsOf
<1>5. f \in [s : BOOLEAN, z : BOOLEAN, h : BOOLEAN, p : BOOLEAN, n : BOOLEAN, c : BOOLEAN]
  BY DEF flagsOf, odd
<1>. HIDE DEF f
<1>6. f.p <=> /\ IF subtract THEN (x >= h) # (y >= h) ELSE (x >= h) <=> (y >= h)
              /\ (x >= h) # (res % (2 * h) >= h)
  <2>1. CASE subtract = TRUE
    <3>1. ((bit(x, top) = bit(y, top)) # subtract) <=> bit(x, top) # bit(y, top)
      BY <2>1, Zenon
    <3>. QED  BY <1>3, <1>4, <2>1, <3>1
  <2>2. CASE subtract = FALSE
    <3>1. ((bit(x, top) = bit(y, top)) # subtract) <=> bit(x, top) = bit(y, top)
      BY <2>2, Zenon
    <3>. QED  BY <1>3, <1>4, <2>2, <3>1
  <2>. QED  BY <2>1, <2>2
<1>7. (f.s <=> res % (2 * h) >= h) /\ (f.c <=> res >= 2 * h)
  BY <1>3, <1>4
<1>. QED  BY <1>4, <1>5, <1>6, <1>7 DEF Tells, f

\* The half carry of a sum of two bytes.
LEMMA HalfCarry ==
  ASSUME NEW x \in 0..255, NEW y \in 0..255, NEW c \in 0..1
  PROVE  odd(bit(x, 4) + bit(y, 4) + bit(x + y + c, 4)) <=> (x % 16) + (y % 16) + c >= 16
<1>. DEFINE X == x \div 16  Y == y \div 16  u == x % 16  v == y % 16
            carry == IF u + v + c >= 16 THEN 1 ELSE 0
<1>1. /\ X \in Nat /\ Y \in Nat /\ u \in 0..15 /\ v \in 0..15
      /\ x = 16 * X + u /\ y = 16 * Y + v
  OBVIOUS
<1>. HIDE DEF X, Y, u, v
<1>2. (x + y + c) \div 16 = X + Y + carry
  BY <1>1
<1>3. bit(x, 4) = X % 2 /\ bit(y, 4) = Y % 2 /\ bit(x + y + c, 4) = (X + Y + carry) % 2
  BY <1>2, Powers DEF bit, X, Y
<1>4. carry \in 0..1 /\ (carry = 1 <=> u + v + c >= 16)
  BY <1>1
<1>. HIDE DEF carry
<1>5. ((X % 2) + (Y % 2) + ((X + Y + carry) % 2)) % 2 = 1 <=> carry = 1
  BY <1>1, <1>4
<1>. QED  BY <1>3, <1>4, <1>5 DEF odd, u, v

\* The half borrow of a difference of two bytes, which is cut to nine bits.
Borrowed(x, y, c, res) ==
  odd(bit(x, 4) + bit(y, 4) + bit(res, 4)) <=> (x % 16) - (y % 16) - c < 0

\* The flag that is found from bit 4 says so.
LEMMA HalfBorrow ==
  ASSUME NEW x \in 0..255, NEW y \in 0..255, NEW c \in 0..1, NEW res, res = (x - y - c) % 512
  PROVE  Borrowed(x, y, c, res)
<1>. DEFINE X == x \div 16  Y == y \div 16  u == x % 16  v == y % 16
            carry == IF u - v - c < 0 THEN 1 ELSE 0
<1>1. /\ X \in Nat /\ Y \in Nat /\ u \in 0..15 /\ v \in 0..15
      /\ x = 16 * X + u /\ y = 16 * Y + v
  OBVIOUS
<1>2. (res = x - y - c \/ res = x - y - c + 512)
  OBVIOUS
<1>. HIDE DEF X, Y, u, v
<1>3. res \div 16 = X - Y - carry \/ res \div 16 = X - Y - carry + 32
  BY <1>1, <1>2
<1>4. bit(x, 4) = X % 2 /\ bit(y, 4) = Y % 2 /\ bit(res, 4) = (X - Y - carry) % 2
  BY <1>1, <1>3, Powers DEF bit, X, Y
<1>5. carry \in 0..1 /\ (carry = 1 <=> u - v - c < 0)
  BY <1>1
<1>. HIDE DEF carry
<1>6. ((X % 2) + (Y % 2) + ((X - Y - carry) % 2)) % 2 = 1 <=> carry = 1
  BY <1>1, <1>5
<1>. QED  BY <1>2, <1>4, <1>5, <1>6 DEF Borrowed, odd, u, v

-----------------------------------------------------------------------------
(* Sums and differences.                                                   *)

\* Flags and result as arithmetic has them, in numbers of the given width.
Right(f, r, sum, signedSum, width) ==
  /\ r = sum % width
  /\ f.c <=> sum \notin 0..width - 1
  /\ f.s <=> Signed(r, width) < 0
  /\ f.z <=> r = 0
  /\ f.p <=> Overflows(signedSum, width)

\* A sum with a carry.
LEMMA SumRight ==
  ASSUME NEW h \in Nat \ {0}, NEW w, w = 2 * h,
         NEW x \in 0..w - 1, NEW y \in 0..w - 1, NEW c \in 0..1,
         NEW res, res = x + y + c, NEW f, Tells(f, x, y, res, h, FALSE)
  PROVE  Right(f, res % w, res, Signed(x, w) + Signed(y, w) + c, w)
<1>. DEFINE r == res % w
<1>1. /\ res \in 0..4 * h - 1 /\ res = x + y + c /\ w \in Int
      /\ x \in Int /\ y \in Int /\ h \in Int
  OBVIOUS
<1>2. r = IF res >= w THEN res - w ELSE res
  BY <1>1, HighBits
<1>3. w \div 2 = h
  OBVIOUS
<1>. HIDE DEF r
<1>4. /\ f.s <=> r >= h
      /\ f.z <=> r = 0
      /\ f.c <=> res >= w
      /\ f.p <=> (x >= h <=> y >= h) /\ (x >= h) # (r >= h)
  BY DEF Tells, r
<1>5. r \in 0..w - 1
  BY <1>1, <1>2
<1>6. /\ Signed(r, w) < 0 <=> r >= h
      /\ Signed(x, w) = IF x >= h THEN x - w ELSE x
      /\ Signed(y, w) = IF y >= h THEN y - w ELSE y
  BY <1>1, <1>3, <1>5 DEF Signed
<1>7. f.p <=> Overflows(Signed(x, w) + Signed(y, w) + c, w)
  BY <1>1, <1>2, <1>3, <1>4, <1>6 DEF Overflows
<1>8. f.c <=> res \notin 0..w - 1
  BY <1>1, <1>4
<1>. QED  BY <1>4, <1>6, <1>7, <1>8 DEF Right, r

\* A difference with a borrow, cut to the width of the type of res.
LEMMA DifferenceRight ==
  ASSUME NEW h \in Nat \ {0}, NEW w, w = 2 * h,
         NEW x \in 0..w - 1, NEW y \in 0..w - 1, NEW c \in 0..1,
         NEW res, res = (x - y - c) % (2 * w), NEW f, Tells(f, x, y, res, h, TRUE)
  PROVE  /\ Right(f, res % w, x - y - c, Signed(x, w) - Signed(y, w) - c, w)
         /\ res \in 0..2 * w - 1
<1>. DEFINE d == x - y - c
            r == res % w
<1>1. /\ d \in Int /\ d = x - y - c /\ w \in Nat \ {0}
      /\ x \in Int /\ y \in Int /\ h \in Int /\ -w <= d /\ d < w
  OBVIOUS
<1>2. w \div 2 = h
  OBVIOUS
<1>3. /\ f.s <=> r >= h
      /\ f.z <=> r = 0
      /\ f.c <=> res >= w
      /\ f.p <=> (x >= h) # (y >= h) /\ (x >= h) # (r >= h)
  BY DEF Tells
<1>4. res = d % (2 * w)
  BY <1>1
<1>. HIDE DEF d
<1>5. /\ res = IF d < 0 THEN d + 2 * w ELSE d
      /\ d % w = IF d < 0 THEN d + w ELSE d
  BY <1>1, <1>4, Wrap
<1>6. r = (IF d < 0 THEN d + w ELSE d) /\ res \in 0..2 * w - 1
  <2>1. res \in 0..4 * h - 1
    BY <1>1, <1>5
  <2>2. r = IF res >= 2 * h THEN res - 2 * h ELSE res
    BY <1>1, <2>1, HighBits
  <2>. QED  BY <1>1, <1>5, <2>1, <2>2
<1>. HIDE DEF r
<1>7. r \in 0..w - 1 /\ r = d % w /\ (f.c <=> d < 0) /\ (d < 0 <=> d \notin 0..w - 1)
  BY <1>1, <1>3, <1>5, <1>6
<1>8. /\ Signed(r, w) < 0 <=> r >= h
      /\ Signed(x, w) = IF x >= h THEN x - w ELSE x
      /\ Signed(y, w) = IF y >= h THEN y - w ELSE y
  BY <1>1, <1>2, <1>7 DEF Signed
<1>9. f.p <=> Overflows(Signed(x, w) - Signed(y, w) - c, w)
  BY <1>1, <1>2, <1>3, <1>6, <1>8 DEF Overflows
<1>10. Right(f, r, d, Signed(x, w) - Signed(y, w) - c, w)
  BY <1>1, <1>3, <1>7, <1>8, <1>9 DEF Right
<1>. QED  BY <1>6, <1>10 DEF d, r

-----------------------------------------------------------------------------
(* Instructions.                                                           *)

Flags == [s : BOOLEAN, z : BOOLEAN, h : BOOLEAN, p : BOOLEAN, n : BOOLEAN, c : BOOLEAN]

\* What the decimal adjustment relies on: after a sum or difference of bytes
\* the flags tell its direction, its carry and its half carry.
FlagsKeepDigits ==
  LET a == did[3]
      c == did[2]
      sum == did[1] \in Sums
      res == IF sum THEN a + E + c ELSE a - E - c
      low == IF sum THEN (a % 16) + (E % 16) + c ELSE (a % 16) - (E % 16) - c
  IN  did[1] \in {"add", "adc", "sub", "sbc"} =>
        /\ a \in 0..255 /\ c \in 0..1
        /\ A = res % 256
        /\ F.c <=> res \notin 0..255
        /\ F.h <=> low \notin 0..15
        /\ F.n <=> ~sum

AluInv == AluTypeOK /\ FlagsKeepDigits

\* The bytes, and the carry.
LEMMA Bytes ==
  ASSUME AluTypeOK
  PROVE  /\ A \in 0..255 /\ E \in 0..255 /\ F \in Flags
         /\ \A op : carryOf(op) \in 0..1
<1>1. DE \in Int
  BY Powers DEF AluTypeOK, Word
<1>2. E \in 0..255
  BY <1>1 DEF E
<1>. QED  BY <1>2 DEF AluTypeOK, Flags, carryOf, num

\* The half carry, and the direction.
Halves(f, x, y, c, subtract) ==
  /\ f.h <=> (IF subtract THEN (x % 16) - (y % 16) - c
                          ELSE (x % 16) + (y % 16) + c) \notin 0..15
  /\ f.n <=> subtract

\* Flags that come from a sum or difference of two bytes.
FlagsOfBytes(f, x, y, c, subtract, res) ==
  /\ x \in 0..255 /\ y \in 0..255 /\ c \in 0..1 /\ subtract \in BOOLEAN
  /\ res = IF subtract THEN (x - y - c) % 512 ELSE x + y + c
  /\ f = flagsOf(x, y, res, 7, subtract)

\* They have the half carry of their lower digits.
LEMMA HalfFlags ==
  ASSUME NEW x, NEW y, NEW c, NEW subtract, NEW f, NEW res, FlagsOfBytes(f, x, y, c, subtract, res)
  PROVE  Halves(f, x, y, c, subtract)
<1>. /\ x \in 0..255 /\ y \in 0..255 /\ c \in 0..1 /\ subtract \in BOOLEAN
     /\ res = IF subtract THEN (x - y - c) % 512 ELSE x + y + c
     /\ f = flagsOf(x, y, res, 7, subtract)
  BY DEF FlagsOfBytes
<1>. DEFINE low == IF subtract THEN (x % 16) - (y % 16) - c ELSE (x % 16) + (y % 16) + c
<1>1. odd(bit(x, 4) + bit(y, 4) + bit(res, 4)) <=> low \notin 0..15
  <2>1. CASE ~subtract
    <3>1. odd(bit(x, 4) + bit(y, 4) + bit(res, 4)) <=> (x % 16) + (y % 16) + c >= 16
      BY <2>1, HalfCarry
    <3>. QED  BY <2>1, <3>1
  <2>2. CASE subtract
    <3>1. odd(bit(x, 4) + bit(y, 4) + bit(res, 4)) <=> (x % 16) - (y % 16) - c < 0
      <4>1. res = (x - y - c) % 512
        BY <2>2
      <4>2. Borrowed(x, y, c, res)
        BY <4>1, HalfBorrow
      <4>. QED  BY <4>2 DEF Borrowed
    <3>. QED  BY <2>2, <3>1
  <2>. QED  BY <2>1, <2>2
<1>. HIDE DEF low
<1>2. bit(x, 7 - 3) = bit(x, 4) /\ bit(y, 7 - 3) = bit(y, 4) /\ bit(res, 7 - 3) = bit(res, 4)
  OBVIOUS
<1>3. f.h <=> odd(bit(x, 4) + bit(y, 4) + bit(res, 4))
  <2>1. f.h = odd(bit(x, 7 - 3) + bit(y, 7 - 3) + bit(res, 7 - 3))
    BY DEF flagsOf
  <2>. QED  BY <1>2, <2>1
<1>4. f.n <=> subtract
  BY DEF flagsOf
<1>. QED  BY <1>1, <1>3, <1>4 DEF Halves, low

\* An 8 bit sum or difference.
Operation(op, f, r, x, y, c, width) ==
  /\ f \in Flags /\ r \in 0..width - 1
  /\ op \in Sums => Right(f, r, x + y + c, Signed(x, width) + Signed(y, width) + c, width)
  /\ op \notin Sums => Right(f, r, x - y - c, Signed(x, width) - Signed(y, width) - c, width)

\* The macros for bytes compute one.
LEMMA Arithmetic8Right ==
  ASSUME AluTypeOK, NEW op \in {"add", "adc", "sub", "sbc", "cp"}, Arithmetic8(op)
  PROVE  \E r : /\ Operation(op, F', r, A, E, carryOf(op), 256)
                /\ A' = (IF op = "cp" THEN A ELSE r) /\ HL' = HL /\ DE' = DE
                /\ Halves(F', A, E, carryOf(op), op \notin Sums)
<1>. DEFINE subtract == op \notin Sums
            c == carryOf(op)
            res == result(op, A, E, 7)
            f == flagsOf(A, E, res, 7, subtract)
            h == 128
            w == 256
<1>1. A \in 0..255 /\ E \in 0..255 /\ c \in 0..1 /\ subtract \in BOOLEAN
  BY Bytes
<1>2. /\ F' = f /\ A' = (IF op = "cp" THEN A ELSE res % w)
      /\ HL' = HL /\ DE' = DE
  BY DEF Arithmetic8
<1>3. /\ ~subtract => res = A + E + c
      /\ subtract => res = (A - E - c) % 512
  BY Powers DEF result, plus, minus
<1>. HIDE DEF res, subtract, c
<1>4. /\ h \in Nat \ {0} /\ w = 2 * h /\ h = 2^7 /\ 512 = 2 * w
      /\ A \in 0..w - 1 /\ E \in 0..w - 1 /\ A \in 0..2 * h - 1 /\ E \in 0..2 * h - 1
  BY <1>1, Powers
<1>5. res \in 0..511 /\ res \in 0..4 * h - 1 /\ res % w \in 0..w - 1
  <2>1. res \in 0..511
    <3>1. CASE subtract
      BY <1>1, <1>3, <3>1
    <3>2. CASE ~subtract
      BY <1>1, <1>3, <3>2
    <3>. QED  BY <3>1, <3>2
  <2>. QED  BY <2>1
<1>6. f = flagsOf(A, E, res, 7, subtract) /\ 7 \in {7, 15}
  OBVIOUS
<1>. HIDE DEF f, h
<1>7. Tells(f, A, E, res, h, subtract)
  <2>1. Tells(flagsOf(A, E, res, 7, subtract), A, E, res, h, subtract)
    BY <1>1, <1>4, <1>5, FlagsTell
  <2>. QED  BY <1>6, <2>1
<1>8. Halves(f, A, E, c, subtract)
  <2>1. res = IF subtract THEN (A - E - c) % 512 ELSE A + E + c
    BY <1>3
  <2>2. FlagsOfBytes(f, A, E, c, subtract, res)
    BY <1>1, <1>6, <2>1 DEF FlagsOfBytes
  <2>. QED  BY <2>2, HalfFlags
<1>9. f \in Flags
  BY <1>7 DEF Tells, Flags
<1>. HIDE DEF w
<1>10. Operation(op, f, res % w, A, E, c, w)
  <2>1. CASE ~subtract
    <3>0. subtract = FALSE
      BY <1>1, <2>1
    <3>1. Tells(f, A, E, res, h, FALSE)
      BY <1>7, <3>0, Zenon
    <3>2. res = A + E + c
      BY <1>3, <2>1
    <3>3. Right(f, res % w, res, Signed(A, w) + Signed(E, w) + c, w)
      BY <1>1, <1>4, <3>1, <3>2, SumRight
    <3>. QED  BY <1>5, <1>9, <2>1, <3>2, <3>3 DEF Operation, subtract
  <2>2. CASE subtract
    <3>1. Tells(f, A, E, res, h, TRUE) /\ res = (A - E - c) % (2 * w)
      BY <1>3, <1>4, <1>7, <2>2, Zenon
    <3>2. Right(f, res % w, A - E - c, Signed(A, w) - Signed(E, w) - c, w)
      BY <1>1, <1>4, <3>1, DifferenceRight
    <3>. QED  BY <1>5, <1>9, <2>2, <3>2 DEF Operation, subtract
  <2>. QED  BY <2>1, <2>2
<1>. QED  BY <1>2, <1>8, <1>10 DEF subtract, c, w

\* A 16 bit sum or difference; add16 takes only the carry, of what the
\* property is about, from it.
LEMMA Arithmetic16Right ==
  ASSUME AluTypeOK, NEW op \in {"add16", "adc16", "sbc16"}, Arithmetic16(op)
  PROVE  \E f : /\ Operation(op, f, HL', HL, DE, carryOf(op), Word)
                /\ A' = A /\ DE' = DE /\ F' \in Flags /\ F'.c = f.c
                /\ op # "add16" => F' = f
<1>. DEFINE subtract == op \notin Sums
            c == carryOf(op)
            res == result(op, HL, DE, 15)
            f == flagsOf(HL, DE, res, 15, subtract)
            h == 2^15
            w == Word
<1>1. HL \in 0..w - 1 /\ DE \in 0..w - 1 /\ c \in 0..1 /\ subtract \in BOOLEAN /\ F \in Flags
  BY Bytes DEF AluTypeOK
<1>2. /\ F' = IF op = "add16" THEN [F EXCEPT !.h = f.h, !.n = FALSE, !.c = f.c] ELSE f
      /\ HL' = res % w /\ A' = A /\ DE' = DE
  BY DEF Arithmetic16
<1>3. h \in Nat \ {0} /\ w = 2 * h /\ h = 2^15 /\ 2^17 = 2 * w /\ w \in Nat \ {0}
  BY Powers DEF Word
<1>4. /\ ~subtract => res = HL + DE + c
      /\ subtract => res = (HL - DE - c) % (2 * w)
  BY <1>3 DEF result, plus, minus
<1>5. f = flagsOf(HL, DE, res, 15, subtract) /\ 15 \in {7, 15}
  OBVIOUS
<1>. HIDE DEF res, subtract, c, w, f, h
<1>6. HL \in 0..2 * h - 1 /\ DE \in 0..2 * h - 1 /\ HL \in Int /\ DE \in Int
  BY <1>1, <1>3
<1>7. res \in 0..2 * w - 1 /\ res \in 0..4 * h - 1
  <2>1. CASE ~subtract
    BY <1>1, <1>3, <1>4, <2>1
  <2>2. CASE subtract
    <3>1. HL - DE - c \in Int /\ -w <= HL - DE - c /\ HL - DE - c < w
      BY <1>1, <1>3
    <3>2. (HL - DE - c) % (2 * w) = IF HL - DE - c < 0 THEN HL - DE - c + 2 * w ELSE HL - DE - c
      BY <1>3, <3>1, Wrap
    <3>. QED  BY <1>3, <1>4, <2>2, <3>1, <3>2
  <2>. QED  BY <2>1, <2>2
<1>8. res % w \in 0..w - 1
  <2>1. res % w = IF res >= w THEN res - w ELSE res
    BY <1>3, <1>7, HighBits
  <2>. QED  BY <1>3, <1>7, <2>1
<1>9. Tells(f, HL, DE, res, h, subtract)
  <2>1. Tells(flagsOf(HL, DE, res, 15, subtract), HL, DE, res, h, subtract)
    BY <1>1, <1>3, <1>6, <1>7, FlagsTell
  <2>. QED  BY <1>5, <2>1
<1>10. f \in Flags
  BY <1>9 DEF Tells, Flags
<1>11. Operation(op, f, res % w, HL, DE, c, w)
  <2>1. CASE ~subtract
    <3>0. subtract = FALSE
      BY <1>1, <2>1
    <3>1. Tells(f, HL, DE, res, h, FALSE)
      BY <1>9, <3>0, Zenon
    <3>2. res = HL + DE + c
      BY <1>4, <2>1
    <3>3. Right(f, res % w, res, Signed(HL, w) + Signed(DE, w) + c, w)
      BY <1>1, <1>3, <3>1, <3>2, SumRight
    <3>. QED  BY <1>8, <1>10, <2>1, <3>2, <3>3 DEF Operation, subtract
  <2>2. CASE subtract
    <3>1. Tells(f, HL, DE, res, h, TRUE) /\ res = (HL - DE - c) % (2 * w)
      BY <1>4, <1>9, <2>2, Zenon
    <3>2. Right(f, res % w, HL - DE - c, Signed(HL, w) - Signed(DE, w) - c, w)
      BY <1>1, <1>3, <3>1, DifferenceRight
    <3>. QED  BY <1>8, <1>10, <2>2, <3>2 DEF Operation, subtract
  <2>. QED  BY <2>1, <2>2
<1>12. F' \in Flags /\ F'.c = f.c
  <2>1. CASE op = "add16"
    <3>. DEFINE no == FALSE
    <3>1. no \in BOOLEAN /\ F' = [F EXCEPT !.h = f.h, !.n = no, !.c = f.c]
      BY <1>2, <2>1
    <3>. HIDE DEF no
    <3>. QED  BY <1>1, <1>10, <3>1 DEF Flags
  <2>2. CASE op # "add16"
    BY <1>2, <1>10, <2>2
  <2>. QED  BY <2>1, <2>2
<1>. QED  BY <1>2, <1>11, <1>12 DEF c, w

\* What that says of the property.
LEMMA OperationExact ==
  ASSUME NEW op, NEW r, NEW x, NEW y, NEW c, NEW width, Operation(op, F', r, x, y, c, width)
  PROVE  /\ op \in Sums =>
              Exact(x, y, r, x + y + c, Signed(x, width) + Signed(y, width) + c, width)
         /\ op \notin Sums =>
              Exact(x, y, r, x - y - c, Signed(x, width) - Signed(y, width) - c, width)
<1>1. F'.c \in BOOLEAN /\ F'.s \in BOOLEAN /\ F'.z \in BOOLEAN /\ F'.p \in BOOLEAN
  BY DEF Operation, Flags
<1>2. ASSUME NEW sum, NEW signedSum, Right(F', r, sum, signedSum, width)
      PROVE  Exact(x, y, r, sum, signedSum, width)
  BY <1>1, <1>2 DEF Right, Exact, Overflows
<1>. QED  BY <1>2 DEF Operation

\* Eight bits of a byte.
Shiftable(n) ==
  /\ bit(n, 0) \in 0..1 /\ n = 2 * (n \div 2) + bit(n, 0)
  /\ n \div 2 \in 0..127
  /\ bit(n, 7) \in 0..1 /\ n * 2 - 256 * bit(n, 7) \in 0..254
  /\ (n * 2) % 256 = n * 2 - 256 * bit(n, 7)
  /\ ((n * 2) + 1) % 256 = n * 2 - 256 * bit(n, 7) + 1

\* Every byte is made of them.
LEMMA EightBits == \A n \in 0..255 : Shiftable(n)
<1>1. 2^0 = 1
  OBVIOUS
<1>2. ASSUME NEW n \in 0..255 PROVE bit(n, 7) = IF n >= 128 THEN 1 ELSE 0
  BY Powers DEF bit
<1>3. ASSUME NEW n \in 0..255 PROVE bit(n, 0) = n % 2
  BY <1>1 DEF bit
<1>. QED  BY <1>2, <1>3 DEF Shiftable, bit

\* Shifts and rotations.
LEMMA ShiftedRight ==
  ASSUME AluTypeOK, NEW op \in Lefts \cup Rights
  PROVE  /\ bitIn(op) \in 0..1 /\ bitOut(op) \in 0..1 /\ shifted(op) \in 0..255
         /\ op \in Lefts => (A * 2) + bitIn(op) = (256 * bitOut(op)) + shifted(op)
         /\ op \in Rights => (256 * bitIn(op)) + A = (2 * shifted(op)) + bitOut(op)
<1>1. A \in 0..255
  BY Bytes
<1>2. bitIn(op) \in 0..1
  <2>1. bit(A, 7) \in 0..1 /\ bit(A, 0) \in 0..1 /\ num(F.c) \in 0..1
    <3>1. Shiftable(A)
      BY <1>1, EightBits
    <3>. QED  BY <3>1 DEF Shiftable, num
  <2>. QED  BY <2>1 DEF bitIn, Lefts, Rights
<1>3. bitOut(op) = IF op \in Lefts THEN bit(A, 7) ELSE bit(A, 0)
  BY DEF bitOut
<1>. DEFINE in == bitIn(op)
            seven == bit(A, 7)
            zero == bit(A, 0)
            half == A \div 2
<1>4. /\ in \in 0..1 /\ seven \in 0..1 /\ zero \in 0..1 /\ half \in 0..127
      /\ A = 2 * half + zero /\ A * 2 - 256 * seven \in 0..254
      /\ (A * 2) % 256 = A * 2 - 256 * seven
      /\ ((A * 2) + 1) % 256 = A * 2 - 256 * seven + 1
  <2>1. Shiftable(A)
    BY <1>1, EightBits
  <2>. QED  BY <1>2, <2>1 DEF Shiftable
<1>5. /\ op \in Lefts => op \notin Rights
      /\ shifted(op) = IF op \in Lefts THEN ((A * 2) + in) % 256 ELSE half + (128 * in)
      /\ bitOut(op) = IF op \in Lefts THEN seven ELSE zero
  BY <1>3 DEF shifted, Lefts, Rights
<1>. HIDE DEF in, seven, zero, half
<1>6. CASE op \in Lefts
  <2>1. CASE in = 0
    BY <1>1, <1>4, <1>5, <1>6, <2>1 DEF in
  <2>2. CASE in = 1
    BY <1>1, <1>4, <1>5, <1>6, <2>2 DEF in
  <2>. QED  BY <1>4, <2>1, <2>2
<1>7. CASE op \in Rights
  <2>1. op \notin Lefts
    BY <1>5, <1>7
  <2>2. shifted(op) = half + (128 * in) /\ bitOut(op) = zero
    BY <1>5, <2>1
  <2>. QED  BY <1>1, <1>4, <2>1, <2>2 DEF in
<1>. QED  BY <1>6, <1>7

-----------------------------------------------------------------------------
(* The decimal adjustment.                                                 *)

\* A decimal byte is its digits.
LEMMA DecimalParts ==
  /\ \A n \in 0..255 :
       Decimal(n) => \E p \in 0..9, q \in 0..9 : /\ n = 16 * p + q /\ n % 16 = q
                                                 /\ Value(n) = 10 * p + q
  /\ \A p \in 0..9, q \in 0..9 : /\ 16 * p + q \in 0..255
                                 /\ Decimal(16 * p + q) /\ Value(16 * p + q) = 10 * p + q
<1>1. ASSUME NEW n \in 0..255, Decimal(n)
      PROVE  \E p \in 0..9, q \in 0..9 : /\ n = 16 * p + q /\ n % 16 = q
                                         /\ Value(n) = 10 * p + q
  <2>1. /\ n \div 16 \in 0..9 /\ n % 16 \in 0..9
        /\ n = 16 * (n \div 16) + (n % 16) /\ Value(n) = 10 * (n \div 16) + (n % 16)
    BY <1>1 DEF Decimal, Value
  <2>. QED  BY <2>1
<1>2. ASSUME NEW p \in 0..9, NEW q \in 0..9
      PROVE  /\ 16 * p + q \in 0..255
             /\ Decimal(16 * p + q) /\ Value(16 * p + q) = 10 * p + q
  <2>1. (16 * p + q) \div 16 = p /\ (16 * p + q) % 16 = q
    OBVIOUS
  <2>. QED  BY <2>1 DEF Decimal, Value
<1>. QED  BY <1>1, <1>2

\* The accumulator, the flags and the correction after it, of decimal value v.
Adjusted(r, by, v) ==
  Decimal(r) /\ Value(r) = v % 100 /\ (by >= 96 <=> v \notin 0..99)

\* The carry and the half carry after a sum, and after a difference.
SumOf(b, fc, fh, a, e, c) ==
  /\ b = (a + e + c) % 256
  /\ fc <=> a + e + c \notin 0..255
  /\ fh <=> (a % 16) + (e % 16) + c \notin 0..15

DifferenceOf(b, fc, fh, a, e, c) ==
  /\ b = (a - e - c) % 256
  /\ fc <=> a - e - c \notin 0..255
  /\ fh <=> (a % 16) - (e % 16) - c \notin 0..15

\* What the accumulator is corrected by.
Corrects(by, b, fc, fh) ==
  by = (IF fh \/ b % 16 > 9 THEN 6 ELSE 0) + (IF fc \/ b > 153 THEN 96 ELSE 0)

Plus(r, b, by) == r = (b + by) % 256
Minus(r, b, by) == r = (b - by) % 256

\* Two decimal bytes, the carry into the operation and the flags after it.
Digits(a, e, c, fc, fh) ==
  /\ a \in 0..255 /\ e \in 0..255 /\ c \in 0..1 /\ Decimal(a) /\ Decimal(e)
  /\ fc \in BOOLEAN /\ fh \in BOOLEAN

\* After a sum.
LEMMA SumAdjusted ==
  ASSUME NEW a, NEW e, NEW c, NEW b, NEW fc, NEW fh, Digits(a, e, c, fc, fh),
         SumOf(b, fc, fh, a, e, c), NEW by, Corrects(by, b, fc, fh), NEW r, Plus(r, b, by)
  PROVE  Adjusted(r, by, Value(a) + Value(e) + c)
<1>. /\ a \in 0..255 /\ e \in 0..255 /\ c \in 0..1 /\ Decimal(a) /\ Decimal(e)
     /\ fc \in BOOLEAN /\ fh \in BOOLEAN
  BY DEF Digits
<1>. DEFINE six == IF fh \/ b % 16 > 9 THEN 6 ELSE 0
            sixty == IF fc \/ b > 153 THEN 96 ELSE 0
<1>0. /\ by = six + sixty
      /\ b = (a + e + c) % 256
      /\ fc <=> a + e + c \notin 0..255
      /\ fh <=> (a % 16) + (e % 16) + c \notin 0..15
      /\ r = (b + by) % 256
  BY DEF SumOf, Corrects, Plus
<1>1. PICK p \in 0..9, q \in 0..9 : a = 16 * p + q /\ a % 16 = q /\ Value(a) = 10 * p + q
  BY DecimalParts
<1>2. PICK u \in 0..9, v \in 0..9 : e = 16 * u + v /\ e % 16 = v /\ Value(e) = 10 * u + v
  BY DecimalParts
<1>. DEFINE low == q + v + c
            one == IF low > 9 THEN 1 ELSE 0
            high == p + u + one
            ten == IF high > 9 THEN 1 ELSE 0
            digit == low - 10 * one
            tens == high - 10 * ten
<1>3. low \in 0..19 /\ high \in 0..19 /\ digit \in 0..9 /\ tens \in 0..9 /\ one \in 0..1 /\ ten \in 0..1
  OBVIOUS
<1>4. /\ a + e + c = 16 * (p + u) + low /\ p + u \in 0..18
      /\ a + e + c = 16 * high - 16 * one + low
      /\ Value(a) + Value(e) + c = 100 * ten + 10 * tens + digit
  <2>1. a + e + c = 16 * (p + u) + low /\ p + u \in 0..18
    BY <1>1, <1>2
  <2>2. Value(a) + Value(e) + c = 10 * (p + u) + low
    BY <1>1, <1>2
  <2>. HIDE DEF low, ten
  <2>3. low \in Int /\ ten \in Int /\ one \in Int
    BY <1>3
  <2>4. a + e + c = 16 * high - 16 * one + low
    BY <2>1, <2>3
  <2>5. 100 * ten + 10 * tens + digit = 10 * high - 10 * one + low
    BY <2>3
  <2>6. 10 * high - 10 * one + low = 10 * (p + u) + low
    BY <2>3
  <2>. QED  BY <2>1, <2>2, <2>4, <2>5, <2>6
<1>5. b = IF a + e + c > 255 THEN a + e + c - 256 ELSE a + e + c
  BY <1>0, <1>3, <1>4
<1>6. b % 16 = IF low > 15 THEN low - 16 ELSE low
  <2>. HIDE DEF low, one, high
  <2>1. b = 16 * (p + u) + low \/ b = 16 * (p + u - 16) + low
    <3>1. 16 * (p + u - 16) = 16 * (p + u) - 256
      OBVIOUS
    <3>. QED  BY <1>3, <1>4, <1>5, <3>1
  <2>2. b % 16 = low % 16
    BY <1>3, <1>4, <2>1
  <2>. QED  BY <1>3, <2>2
<1>7. six = 6 * one
  <2>1. fh <=> low > 15
    BY <1>0, <1>1, <1>2, <1>3
  <2>. QED  BY <1>3, <1>6, <2>1
<1>8. sixty = 96 * ten
  <2>1. fc \/ b > 153 <=> a + e + c > 153
    BY <1>0, <1>3, <1>4, <1>5
  <2>2. a + e + c > 153 <=> high > 9
    BY <1>3, <1>4
  <2>. QED  BY <2>1, <2>2
<1>9. r = 16 * tens + digit
  <2>1. CASE ten = 0
    BY <1>0, <1>3, <1>4, <1>5, <1>7, <1>8, <2>1
  <2>2. CASE ten = 1
    BY <1>0, <1>3, <1>4, <1>5, <1>7, <1>8, <2>2
  <2>. QED  BY <1>3, <2>1, <2>2
<1>. HIDE DEF digit, tens, ten, one, high, low
<1>10. Decimal(r) /\ Value(r) = 10 * tens + digit
  BY <1>3, <1>9, DecimalParts
<1>11. (Value(a) + Value(e) + c) % 100 = 10 * tens + digit
  BY <1>3, <1>4
<1>12. by >= 96 <=> Value(a) + Value(e) + c \notin 0..99
  BY <1>0, <1>3, <1>4, <1>7, <1>8
<1>. QED  BY <1>10, <1>11, <1>12 DEF Adjusted

\* After a difference.
LEMMA DifferenceAdjusted ==
  ASSUME NEW a, NEW e, NEW c, NEW b, NEW fc, NEW fh, Digits(a, e, c, fc, fh),
         DifferenceOf(b, fc, fh, a, e, c), NEW by, Corrects(by, b, fc, fh), NEW r, Minus(r, b, by)
  PROVE  Adjusted(r, by, Value(a) - Value(e) - c)
<1>. /\ a \in 0..255 /\ e \in 0..255 /\ c \in 0..1 /\ Decimal(a) /\ Decimal(e)
     /\ fc \in BOOLEAN /\ fh \in BOOLEAN
  BY DEF Digits
<1>. DEFINE six == IF fh \/ b % 16 > 9 THEN 6 ELSE 0
            sixty == IF fc \/ b > 153 THEN 96 ELSE 0
<1>0. /\ by = six + sixty
      /\ b = (a - e - c) % 256
      /\ fc <=> a - e - c \notin 0..255
      /\ fh <=> (a % 16) - (e % 16) - c \notin 0..15
      /\ r = (b - by) % 256
  BY DEF DifferenceOf, Corrects, Minus
<1>1. PICK p \in 0..9, q \in 0..9 : a = 16 * p + q /\ a % 16 = q /\ Value(a) = 10 * p + q
  BY DecimalParts
<1>2. PICK u \in 0..9, v \in 0..9 : e = 16 * u + v /\ e % 16 = v /\ Value(e) = 10 * u + v
  BY DecimalParts
<1>. DEFINE low == q - v - c
            one == IF low < 0 THEN 1 ELSE 0
            high == p - u - one
            ten == IF high < 0 THEN 1 ELSE 0
            digit == low + 10 * one
            tens == high + 10 * ten
<1>3. low \in -10..9 /\ high \in -10..9 /\ digit \in 0..9 /\ tens \in 0..9 /\ one \in 0..1 /\ ten \in 0..1
  OBVIOUS
<1>4. /\ a - e - c = 16 * (p - u) + low /\ p - u \in -9..9
      /\ a - e - c = 16 * high + 16 * one + low
      /\ Value(a) - Value(e) - c = 10 * tens + digit - 100 * ten
  <2>1. a - e - c = 16 * (p - u) + low /\ p - u \in -9..9
    BY <1>1, <1>2
  <2>2. Value(a) - Value(e) - c = 10 * (p - u) + low
    BY <1>1, <1>2
  <2>. HIDE DEF low, ten
  <2>3. low \in Int /\ ten \in Int /\ one \in Int
    BY <1>3
  <2>4. a - e - c = 16 * high + 16 * one + low
    BY <2>1, <2>3
  <2>5. 10 * tens + digit - 100 * ten = 10 * high + 10 * one + low
    BY <2>3
  <2>6. 10 * high + 10 * one + low = 10 * (p - u) + low
    BY <2>3
  <2>. QED  BY <2>1, <2>2, <2>4, <2>5, <2>6
<1>5. b = IF a - e - c < 0 THEN a - e - c + 256 ELSE a - e - c
  BY <1>0, <1>3, <1>4
<1>6. b % 16 = IF low < 0 THEN low + 16 ELSE low
  <2>. HIDE DEF low, one, high
  <2>1. b = 16 * (p - u) + low \/ b = 16 * (p - u + 16) + low
    <3>1. 16 * (p - u + 16) = 16 * (p - u) + 256
      OBVIOUS
    <3>. QED  BY <1>3, <1>4, <1>5, <3>1
  <2>2. b % 16 = low % 16
    BY <1>3, <1>4, <2>1
  <2>. QED  BY <1>3, <2>2
<1>7. six = 6 * one
  <2>1. fh <=> low < 0
    BY <1>0, <1>1, <1>2, <1>3
  <2>. QED  BY <1>3, <1>6, <2>1
<1>8. sixty = 96 * ten
  <2>1. fc \/ b > 153 <=> a - e - c < 0
    BY <1>0, <1>3, <1>4, <1>5
  <2>2. a - e - c < 0 <=> high < 0
    BY <1>3, <1>4
  <2>. QED  BY <2>1, <2>2
<1>9. r = 16 * tens + digit
  <2>1. CASE ten = 0
    BY <1>0, <1>3, <1>4, <1>5, <1>7, <1>8, <2>1
  <2>2. CASE ten = 1
    BY <1>0, <1>3, <1>4, <1>5, <1>7, <1>8, <2>2
  <2>. QED  BY <1>3, <2>1, <2>2
<1>. HIDE DEF digit, tens, ten, one, high, low
<1>10. Decimal(r) /\ Value(r) = 10 * tens + digit
  BY <1>3, <1>9, DecimalParts
<1>11. (Value(a) - Value(e) - c) % 100 = 10 * tens + digit
  BY <1>3, <1>4
<1>12. by >= 96 <=> Value(a) - Value(e) - c \notin 0..99
  BY <1>0, <1>3, <1>4, <1>7, <1>8
<1>. QED  BY <1>10, <1>11, <1>12 DEF Adjusted

-----------------------------------------------------------------------------
(* Steps.                                                                  *)

Sub8 == {"sub", "sbc"}
Plain == {"none", "cp", "add16", "adc16", "sbc16", "inc", "dec", "neg", "daa"} \cup Lefts \cup Rights

\* An instruction that is no sum or difference of bytes keeps the invariant if
\* it keeps the types.
LEMMA OtherInstruction ==
  ASSUME AluInv, NEW op \in Plain, NEW carry, executeOpcode(op, carry),
         A' \in 0..255, F' \in Flags, UNCHANGED DE, HL' \in 0..Word - 1
  PROVE  AluInv'
<1>1. did'[1] = op
  BY DEF executeOpcode
<1>2. op \notin {"add", "adc", "sub", "sbc"}
  BY DEF Plain, Lefts, Rights
<1>3. FlagsKeepDigits'
  BY <1>1, <1>2 DEF FlagsKeepDigits
<1>4. AluTypeOK'
  BY DEF AluInv, AluTypeOK, Flags
<1>. QED  BY <1>3, <1>4 DEF AluInv

\* A sum or difference of bytes.
LEMMA Arithmetic8Step ==
  ASSUME AluInv, NEW op \in {"add", "adc", "sub", "sbc", "cp"},
         executeOpcode(op, carryOf(op)), Arithmetic8(op)
  PROVE  AluInv' /\ ArithmeticIsExact /\ DecimalIsExact
<1>. DEFINE c == carryOf(op)
<1>0. AluTypeOK
  BY DEF AluInv
<1>1. PICK r : /\ Operation(op, F', r, A, E, c, 256)
               /\ A' = (IF op = "cp" THEN A ELSE r) /\ HL' = HL /\ DE' = DE
               /\ Halves(F', A, E, c, op \notin Sums)
  BY <1>0, Arithmetic8Right
<1>2. A \in 0..255 /\ E \in 0..255 /\ c \in 0..1
  BY <1>0, Bytes
<1>3. did'[1] = op /\ did'[2] = c /\ did'[3] = A
  BY DEF executeOpcode
<1>. HIDE DEF c
<1>4. E' = E
  BY <1>1 DEF E
<1>5. F' \in Flags /\ r \in 0..255
  BY <1>1 DEF Operation
<1>6. AluTypeOK'
  BY <1>0, <1>1, <1>2, <1>5 DEF AluTypeOK, Flags
<1>7. FlagsKeepDigits'
  BY <1>1, <1>2, <1>3, <1>4 DEF FlagsKeepDigits, Operation, Right, Halves, Sums
<1>8. /\ op \in {"add", "adc"} =>
           Exact(A, E, A', A + E + c, Signed(A, 256) + Signed(E, 256) + c, 256)
      /\ op \in {"sub", "sbc"} =>
           Exact(A, E, A', A - E - c, Signed(A, 256) - Signed(E, 256) - c, 256)
  BY <1>1, OperationExact DEF Sums
<1>9. op = "cp" => /\ F'.c = (A < E) /\ F'.z = (A = E)
                   /\ (F'.s # F'.p) = (Signed(A, 256) < Signed(E, 256))
  <2>. SUFFICES ASSUME op = "cp" PROVE /\ F'.c = (A < E) /\ F'.z = (A = E)
                   /\ (F'.s # F'.p) = (Signed(A, 256) < Signed(E, 256))
    OBVIOUS
  <2>1. c = 0 /\ op \notin Sums
    BY DEF carryOf, Sums, c
  <2>2. Right(F', r, A - E, Signed(A, 256) - Signed(E, 256), 256)
    <3>1. Right(F', r, A - E - c, Signed(A, 256) - Signed(E, 256) - c, 256)
      BY <1>1, <2>1 DEF Operation
    <3>2. Signed(A, 256) \in Int /\ Signed(E, 256) \in Int
      BY <1>2 DEF Signed
    <3>3. A - E - c = A - E /\ Signed(A, 256) - Signed(E, 256) - c = Signed(A, 256) - Signed(E, 256)
      BY <1>2, <2>1, <3>2
    <3>. QED  BY <3>1, <3>3
  <2>3. /\ F'.c \in BOOLEAN /\ F'.s \in BOOLEAN /\ F'.z \in BOOLEAN /\ F'.p \in BOOLEAN
    BY <1>5 DEF Flags
  <2>4. (F'.c <=> A < E) /\ (F'.z <=> A = E)
    <3>1. (A - E) % 256 = IF A < E THEN A - E + 256 ELSE A - E
      BY <1>2
    <3>2. (A - E) \notin 0..256 - 1 <=> A < E
      BY <1>2
    <3>. QED  BY <1>2, <2>2, <3>1, <3>2 DEF Right
  <2>5. (F'.s # F'.p) <=> Signed(A, 256) < Signed(E, 256)
    BY <1>2, <2>2, <2>3 DEF Right, Signed, Overflows
  <2>. QED  BY <2>3, <2>4, <2>5
<1>10. ArithmeticIsExact
  BY <1>3, <1>8, <1>9 DEF ArithmeticIsExact, Lefts, Rights
<1>11. DecimalIsExact
  BY <1>3 DEF DecimalIsExact
<1>. QED  BY <1>6, <1>7, <1>10, <1>11 DEF AluInv

\* A sum or difference of pairs.
LEMMA Arithmetic16Step ==
  ASSUME AluInv, NEW op \in {"add16", "adc16", "sbc16"},
         executeOpcode(op, carryOf(op)), Arithmetic16(op)
  PROVE  AluInv' /\ ArithmeticIsExact /\ DecimalIsExact
<1>. DEFINE c == carryOf(op)
<1>0. AluTypeOK
  BY DEF AluInv
<1>1. PICK f : /\ Operation(op, f, HL', HL, DE, c, Word)
               /\ A' = A /\ DE' = DE /\ F' \in Flags /\ F'.c = f.c
               /\ op # "add16" => F' = f
  BY <1>0, Arithmetic16Right
<1>2. A \in 0..255 /\ c \in 0..1 /\ HL \in Int /\ DE \in Int /\ Word \in Nat \ {0}
      /\ HL \in 0..Word - 1 /\ DE \in 0..Word - 1
  BY <1>0, Bytes, Powers DEF AluTypeOK, Word
<1>3. did'[1] = op /\ did'[2] = c
  BY DEF executeOpcode
<1>. HIDE DEF c
<1>4. AluInv'
  <2>1. HL' \in 0..Word - 1
    BY <1>1 DEF Operation
  <2>. QED  BY <1>1, <1>2, <2>1, OtherInstruction DEF Plain
<1>5. op = "adc16" =>
        Exact(HL, DE, HL', HL + DE + c, Signed(HL, Word) + Signed(DE, Word) + c, Word)
  BY <1>1, OperationExact DEF Sums
<1>6. op = "sbc16" =>
        Exact(HL, DE, HL', HL - DE - c, Signed(HL, Word) - Signed(DE, Word) - c, Word)
  BY <1>1, OperationExact DEF Sums
<1>7. op = "add16" => HL' + (Word * num(F'.c)) = HL + DE
  <2>. SUFFICES ASSUME op = "add16" PROVE HL' + (Word * num(F'.c)) = HL + DE
    OBVIOUS
  <2>1. c = 0
    BY DEF carryOf, c
  <2>2. HL + DE + c = HL + DE /\ op \in Sums
    BY <1>2, <2>1 DEF Sums
  <2>3. HL' = (HL + DE) % Word /\ (F'.c <=> HL + DE \notin 0..Word - 1)
    BY <1>1, <2>2 DEF Operation, Right
  <2>4. HL' = IF HL + DE >= Word THEN HL + DE - Word ELSE HL + DE
    <3>. DEFINE h == 2^15
                sum == HL + DE
    <3>1. Word = 2 * h /\ h \in Nat \ {0} /\ sum = HL + DE
      BY Powers DEF Word
    <3>. HIDE DEF h, sum
    <3>2. sum \in 0..4 * h - 1
      BY <1>2, <3>1
    <3>. DEFINE r == sum % (2 * h)
    <3>3. r = IF sum >= 2 * h THEN sum - 2 * h ELSE sum
      BY <3>1, <3>2, HighBits
    <3>4. HL' = r
      BY <2>3, <3>1
    <3>. HIDE DEF r
    <3>. QED  BY <1>2, <3>1, <3>3, <3>4
  <2>. QED  BY <1>2, <2>3, <2>4 DEF num
<1>8. ArithmeticIsExact
  BY <1>3, <1>5, <1>6, <1>7 DEF ArithmeticIsExact, Lefts, Rights
<1>9. DecimalIsExact
  BY <1>3 DEF DecimalIsExact
<1>. QED  BY <1>4, <1>8, <1>9

\* Shifts and rotations.
LEMMA ShiftStep ==
  ASSUME AluInv, NEW op \in Lefts \cup Rights, executeOpcode(op, bitIn(op)),
         shift(op) \/ rotateA(op), UNCHANGED <<HL, DE>>
  PROVE  AluInv' /\ ArithmeticIsExact /\ DecimalIsExact
<1>0. AluTypeOK
  BY DEF AluInv
<1>1. A' = shifted(op) /\ (F'.c <=> bitOut(op) = 1) /\ F' \in Flags
  <2>. DEFINE no == FALSE
  <2>0. no \in BOOLEAN /\ F \in Flags
    BY <1>0, Bytes
  <2>1. CASE shift(op)
    BY <2>1 DEF shift, Flags, parity
  <2>2. CASE rotateA(op)
    <3>1. F' = [F EXCEPT !.h = no, !.n = no, !.c = bitOut(op) = 1] /\ A' = shifted(op)
      BY <2>2 DEF rotateA
    <3>. HIDE DEF no
    <3>. QED  BY <2>0, <3>1 DEF Flags
  <2>. QED  BY <2>1, <2>2
<1>2. /\ bitOut(op) \in 0..1 /\ shifted(op) \in 0..255
      /\ op \in Lefts => (A * 2) + bitIn(op) = (256 * bitOut(op)) + shifted(op)
      /\ op \in Rights => (256 * bitIn(op)) + A = (2 * shifted(op)) + bitOut(op)
  BY <1>0, ShiftedRight
<1>3. did'[1] = op /\ did'[2] = bitIn(op)
  BY DEF executeOpcode
<1>4. AluInv'
  <2>1. HL' \in 0..Word - 1
    BY <1>0 DEF AluTypeOK
  <2>. QED  BY <1>1, <1>2, <2>1, OtherInstruction DEF Plain
<1>5. num(F'.c) = bitOut(op)
  BY <1>1, <1>2 DEF num
<1>6. ArithmeticIsExact
  BY <1>1, <1>2, <1>3, <1>5 DEF ArithmeticIsExact, Lefts, Rights
<1>7. DecimalIsExact
  BY <1>3 DEF DecimalIsExact, Lefts, Rights
<1>. QED  BY <1>4, <1>6, <1>7

\* The accumulator alone.
LEMMA AccumulatorStep ==
  ASSUME AluInv, UNCHANGED <<HL, DE>>,
         NEW op \in {"inc", "dec", "neg"}, executeOpcode(op, 0),
         \/ op = "inc" /\ inc
         \/ op = "dec" /\ dec
         \/ op = "neg" /\ neg
  PROVE  AluInv' /\ ArithmeticIsExact /\ DecimalIsExact
<1>0. AluTypeOK /\ A \in 0..255 /\ F \in Flags
  BY Bytes DEF AluInv
<1>1. ASSUME NEW res, NEW subtract \in BOOLEAN, NEW h \in BOOLEAN, NEW p \in BOOLEAN, NEW c \in BOOLEAN
      PROVE  [flagsOf(A, 0, res, 7, subtract) EXCEPT !.h = h, !.p = p, !.c = c] \in Flags
  <2>1. flagsOf(A, 0, res, 7, subtract) \in Flags
    BY DEF flagsOf, odd, Flags
  <2>. HIDE DEF flagsOf
  <2>. QED  BY <2>1 DEF Flags
<1>2. A' \in 0..255 /\ F' \in Flags
  <2>0. F.c \in BOOLEAN
    BY <1>0 DEF Flags
  <2>1. CASE inc
    <3>. DEFINE res == (A + 1) % 256
                subtract == FALSE
                h == bit(A, 4) # bit(res, 4)
                p == res = 128
                c == F.c
    <3>1. /\ subtract \in BOOLEAN /\ h \in BOOLEAN /\ p \in BOOLEAN /\ c \in BOOLEAN
          /\ F' = [flagsOf(A, 0, res, 7, subtract) EXCEPT !.h = h, !.p = p, !.c = c]
          /\ A' = res
      BY <2>0, <2>1 DEF inc
    <3>2. res \in 0..255
      BY <1>0
    <3>. HIDE DEF res, subtract, h, p, c
    <3>. QED  BY <1>1, <3>1, <3>2
  <2>2. CASE dec
    <3>. DEFINE res == (A - 1) % 256
                subtract == TRUE
                h == bit(A, 4) # bit(res, 4)
                p == res = 127
                c == F.c
    <3>1. /\ subtract \in BOOLEAN /\ h \in BOOLEAN /\ p \in BOOLEAN /\ c \in BOOLEAN
          /\ F' = [flagsOf(A, 0, res, 7, subtract) EXCEPT !.h = h, !.p = p, !.c = c]
          /\ A' = res
      BY <2>0, <2>2 DEF dec
    <3>2. res \in 0..255
      BY <1>0
    <3>. HIDE DEF res, subtract, h, p, c
    <3>. QED  BY <1>1, <3>1, <3>2
  <2>3. CASE neg
    <3>. DEFINE res == (-A) % 256
                subtract == TRUE
                h == bit(A, 4) # bit(res, 4)
                p == A = 128
                c == A # 0
    <3>1. /\ subtract \in BOOLEAN /\ h \in BOOLEAN /\ p \in BOOLEAN /\ c \in BOOLEAN
          /\ F' = [flagsOf(A, 0, res, 7, subtract) EXCEPT !.h = h, !.p = p, !.c = c]
          /\ A' = res
      BY <2>0, <2>3 DEF neg
    <3>2. res \in 0..255
      BY <1>0
    <3>. HIDE DEF res, subtract, h, p, c
    <3>. QED  BY <1>1, <3>1, <3>2
  <2>. QED  BY <2>1, <2>2, <2>3
<1>3. did'[1] = op
  BY DEF executeOpcode
<1>4. AluInv'
  <2>1. HL' \in 0..Word - 1
    BY <1>0 DEF AluTypeOK
  <2>. QED  BY <1>2, <2>1, OtherInstruction DEF Plain
<1>5. ArithmeticIsExact /\ DecimalIsExact
  BY <1>3 DEF ArithmeticIsExact, DecimalIsExact, Lefts, Rights
<1>. QED  BY <1>4, <1>5

\* The decimal adjustment.
LEMMA DecimalStep ==
  ASSUME AluInv, UNCHANGED <<HL, DE>>, executeOpcode("daa", 0), daa
  PROVE  AluInv' /\ ArithmeticIsExact /\ DecimalIsExact
<1>0. AluTypeOK /\ A \in 0..255 /\ F \in Flags /\ E \in 0..255
  BY Bytes DEF AluInv
<1>1. Corrects(correction, A, F.c, F.h) /\ correction \in 0..102
  BY DEF correction, Corrects
<1>2. /\ A' = (IF F.n THEN A - correction ELSE A + correction) % 256
      /\ F'.c = (correction >= 96) /\ F' \in Flags
  BY <1>0 DEF daa, Flags, parity
<1>3. A' \in 0..255
  BY <1>0, <1>1, <1>2
<1>4. did'[1] = "daa"
  BY DEF executeOpcode
<1>5. AluInv'
  <2>1. HL' \in 0..Word - 1
    BY <1>0 DEF AluTypeOK
  <2>. QED  BY <1>2, <1>3, <2>1, OtherInstruction DEF Plain
<1>6. ArithmeticIsExact
  BY <1>4 DEF ArithmeticIsExact, Lefts, Rights
<1>7. DecimalIsExact
  <2>. DEFINE a == did[3]
              c == did[2]
              sum == did[1] \in {"add", "adc"}
              value == IF sum THEN Value(a) + Value(E) + c ELSE Value(a) - Value(E) - c
  <2>. SUFFICES ASSUME did[1] \in {"add", "adc", "sub", "sbc"}, Decimal(a), Decimal(E)
                PROVE  Decimal(A') /\ Value(A') = value % 100 /\ F'.c = (value \notin 0..99)
    BY DEF DecimalIsExact
  <2>1. /\ a \in 0..255 /\ c \in 0..1
        /\ A = (IF sum THEN a + E + c ELSE a - E - c) % 256
        /\ F.c <=> (IF sum THEN a + E + c ELSE a - E - c) \notin 0..255
        /\ F.h <=> (IF sum THEN (a % 16) + (E % 16) + c
                           ELSE (a % 16) - (E % 16) - c) \notin 0..15
        /\ F.n <=> ~sum
    BY DEF AluInv, FlagsKeepDigits, Sums
  <2>2. F.c \in BOOLEAN /\ F.h \in BOOLEAN /\ F'.c \in BOOLEAN
    BY <1>0, <1>2 DEF Flags
  <2>. HIDE DEF a, c, sum
  <2>0. PICK fc \in BOOLEAN, fh \in BOOLEAN : F.c = fc /\ F.h = fh
    BY <2>2
  <2>4. /\ Digits(a, E, c, fc, fh) /\ Corrects(correction, A, fc, fh)
    BY <1>0, <1>1, <2>0, <2>1 DEF Digits
  <2>3. Adjusted(A', correction, value)
    <3>1. CASE sum
      <4>1. SumOf(A, fc, fh, a, E, c)
        BY <2>0, <2>1, <3>1 DEF SumOf
      <4>2. Plus(A', A, correction)
        BY <1>2, <2>1, <3>1 DEF Plus
      <4>3. Adjusted(A', correction, Value(a) + Value(E) + c)
        BY <2>4, <4>1, <4>2, SumAdjusted
      <4>. QED  BY <3>1, <4>3
    <3>2. CASE ~sum
      <4>1. DifferenceOf(A, fc, fh, a, E, c)
        BY <2>0, <2>1, <3>2 DEF DifferenceOf
      <4>2. Minus(A', A, correction)
        BY <1>2, <2>1, <3>2 DEF Minus
      <4>3. Adjusted(A', correction, Value(a) - Value(E) - c)
        BY <2>4, <4>1, <4>2, DifferenceAdjusted
      <4>. QED  BY <3>2, <4>3
    <3>. QED  BY <3>1, <3>2
  <2>. HIDE DEF value
  <2>. QED  BY <1>2, <2>2, <2>3 DEF Adjusted
<1>. QED  BY <1>5, <1>6, <1>7

-----------------------------------------------------------------------------
\* Two bytes make a pair.
LEMMA PairOfBytes ==
  ASSUME NEW k \in Nat, NEW m \in 0..k - 1, NEW n \in 0..k - 1
  PROVE  (m * k) + n \in 0..k * k - 1
<1>1. m * k \in Nat /\ k * k \in Nat
  OBVIOUS
<1>2. (m * k) + k <= k * k
  <2>1. (m + 1) * k <= k * k
    OBVIOUS
  <2>2. (m + 1) * k = (m * k) + k
    OBVIOUS
  <2>. QED  BY <1>1, <2>1, <2>2
<1>. QED  BY <1>1, <1>2

\* The invariant holds at first.
LEMMA AluStart == AluInit => AluInv
<1>. SUFFICES ASSUME AluInit PROVE AluInv
  OBVIOUS
<1>1. PICK e \in Operands : DE = (A * 256) + e /\ HL = (e * 256) + A
  BY DEF AluInit
<1>2. A \in 0..255 /\ e \in 0..255 /\ Word = 256 * 256
  BY AluAssumption DEF AluInit, AluAssumption, Word
<1>3. HL \in 0..Word - 1 /\ DE \in 0..Word - 1
  <2>1. /\ DE \in 0..256 * 256 - 1
        /\ HL \in 0..256 * 256 - 1
    <3>. DEFINE k == 256
    <3>1. k \in Nat /\ A \in 0..k - 1 /\ e \in 0..k - 1
      BY <1>2
    <3>. HIDE DEF k
    <3>2. /\ (A * k) + e \in 0..k * k - 1
          /\ (e * k) + A \in 0..k * k - 1
      BY <3>1, PairOfBytes
    <3>. QED  BY <1>1, <3>2 DEF k
  <2>. QED  BY <1>2, <2>1
<1>4. AluTypeOK
  <2>. DEFINE no == FALSE
  <2>1. /\ no \in BOOLEAN
        /\ \E c \in BOOLEAN : F = [s |-> no, z |-> no, h |-> no, p |-> no, n |-> no, c |-> c]
    BY DEF AluInit
  <2>. HIDE DEF no
  <2>2. F \in Flags
    BY <2>1 DEF Flags
  <2>. QED  BY <1>2, <1>3, <2>2 DEF AluTypeOK, Flags
<1>5. FlagsKeepDigits
  BY DEF AluInit, FlagsKeepDigits
<1>. QED  BY <1>4, <1>5 DEF AluInv

\* Every instruction keeps it and computes what arithmetic says.
LEMMA AluStep ==
  ASSUME AluInv, AluNext
  PROVE  AluInv' /\ ArithmeticIsExact /\ DecimalIsExact
<1>1. ASSUME NEW op \in {"add", "adc", "sub", "sbc", "cp"}, executeOpcode(op, carryOf(op)), Arithmetic8(op)
      PROVE  AluInv' /\ ArithmeticIsExact /\ DecimalIsExact
  BY <1>1, Arithmetic8Step
<1>2. ASSUME NEW op \in {"add16", "adc16", "sbc16"}, executeOpcode(op, carryOf(op)), Arithmetic16(op)
      PROVE  AluInv' /\ ArithmeticIsExact /\ DecimalIsExact
  BY <1>2, Arithmetic16Step
<1>3. ASSUME NEW op \in Lefts \cup Rights, executeOpcode(op, bitIn(op)), shift(op) \/ rotateA(op),
             UNCHANGED <<HL, DE>>
      PROVE  AluInv' /\ ArithmeticIsExact /\ DecimalIsExact
  BY <1>3, ShiftStep
<1>4. ASSUME \/ executeOpcode("inc", 0) /\ inc
             \/ executeOpcode("dec", 0) /\ dec
             \/ executeOpcode("neg", 0) /\ neg,
             UNCHANGED <<HL, DE>>
      PROVE  AluInv' /\ ArithmeticIsExact /\ DecimalIsExact
  BY <1>4, AccumulatorStep
<1>5. ASSUME executeOpcode("daa", 0), daa, UNCHANGED <<HL, DE>>
      PROVE  AluInv' /\ ArithmeticIsExact /\ DecimalIsExact
  BY <1>5, DecimalStep
<1>6. CASE \E op \in {"rlc", "rl", "rrc", "rr"} :
             executeOpcode(op, bitIn(op)) /\ rotateA(op) /\ UNCHANGED <<HL, DE>>
  BY <1>3, <1>6 DEF Lefts, Rights
<1>. QED  BY <1>1, <1>2, <1>3, <1>4, <1>5, <1>6 DEF AluNext

\* The invariant is inductive.
LEMMA AluKept == AluInv /\ [AluNext]_aluVars => AluInv'
<1>. SUFFICES ASSUME AluInv, [AluNext]_aluVars PROVE AluInv'
  OBVIOUS
<1>1. CASE UNCHANGED aluVars
  <2>1. A' = A /\ F' = F /\ HL' = HL /\ DE' = DE /\ did' = did /\ E' = E
    BY <1>1 DEF aluVars, E
  <2>2. AluTypeOK'
    BY <2>1 DEF AluInv, AluTypeOK
  <2>3. FlagsKeepDigits'
    BY <2>1 DEF AluInv, FlagsKeepDigits
  <2>. QED  BY <2>2, <2>3 DEF AluInv
<1>. QED  BY <1>1, AluStep

\* Whatever bytes a program computes with, and however its instructions follow
\* each other: the results and the flags it branches on are those of
\* arithmetic, and the decimal adjustment gives the decimal result (z80cmds.h).
THEOREM NumbersComeOutRight == AluSpec => NumbersComeOut
<1>1. AluInv /\ [AluNext]_aluVars => [ArithmeticIsExact /\ DecimalIsExact]_aluVars
  BY AluStep
<1>. QED  BY <1>1, AluKept, AluStart, PTL DEF AluSpec, NumbersComeOut

\* The registers keep their widths.
THEOREM AluTypes == AluSpec => []AluTypeOK
<1>1. AluInv => AluTypeOK
  BY DEF AluInv
<1>. QED  BY <1>1, AluKept, AluStart, PTL DEF AluSpec
=============================================================================
