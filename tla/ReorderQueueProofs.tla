------------------------- MODULE ReorderQueueProofs -------------------------
(***************************************************************************)
(* Proofs about the input reorder queue of ReorderQueue.tla, for every     *)
(* number of sessions, every capacity and every timeout: every accepted    *)
(* item is held or was sent once, no send blocks under the lock, items     *)
(* leave in order but for those that came too late, and none is held       *)
(* beyond the timeout.                                                     *)
(***************************************************************************)
EXTENDS ReorderQueue, FiniteSetTheorems, SequenceTheorems, WellFoundedInduction, TLAPS

-----------------------------------------------------------------------------
(* Numbers and sequences                                                    *)

(* A set of numbers has a smallest.                                         *)
LEMMA SmallestNumber ==
  ASSUME NEW S \in SUBSET Nat, S # {}
  PROVE  \E m \in S : \A x \in S : m <= x
<1> DEFINE R == OpToRel(<, Nat)
<1>1. R = {ss \in Nat \X Nat : ss[1] < ss[2]}
  BY Zenon DEF OpToRel
<1>2. IsWellFoundedOn(R, Nat)
  BY NatLessThanWellFounded
<1> HIDE DEF R
<1>3. PICK m \in S : \A x \in S : <<x, m>> \notin R
  BY <1>2, WFMin
<1>4. \A x \in S : ~(x < m)
  BY <1>1, <1>3
<1> QED
  BY <1>4

(* Min is the smallest of a set that has a member.                          *)
LEMMA MinIs ==
  ASSUME NEW S \in SUBSET Nat, S # {}
  PROVE  Min(S) \in S /\ \A x \in S : Min(S) <= x
<1>1. \E m \in S : \A x \in S : m <= x
  BY SmallestNumber
<1> QED
  BY <1>1 DEF Min

(* Max is the greatest of a set that has a member and a bound.              *)
LEMMA MaxIs ==
  ASSUME NEW S \in SUBSET Nat, S # {}, NEW n \in Nat, \A x \in S : x <= n
  PROVE  Max(S) \in S /\ \A x \in S : x <= Max(S)
<1> DEFINE T == {n - x : x \in S}
<1>1. T \in SUBSET Nat /\ T # {}
  <2>1. \A x \in S : n - x \in Nat
    OBVIOUS
  <2> QED
    BY <2>1
<1>2. PICK t \in T : \A y \in T : t <= y
  BY <1>1, SmallestNumber
<1>3. PICK m \in S : t = n - m
  BY <1>2
<1>4. \A x \in S : m >= x
  BY <1>2, <1>3
<1> QED
  BY <1>4 DEF Max

(* What two sequences joined hold.                                          *)
LEMMA JoinedAt ==
  ASSUME NEW T, NEW q \in Seq(T), NEW r \in Seq(T)
  PROVE  /\ q \o r \in Seq(T) /\ Len(q \o r) = Len(q) + Len(r)
         /\ \A i \in 1 .. Len(q) + Len(r) : (q \o r)[i] = IF i <= Len(q) THEN q[i] ELSE r[i - Len(q)]
  BY ConcatProperties

(* Its length, and what it holds.                                           *)
LEMMA Joined ==
  ASSUME NEW T, NEW q \in Seq(T), NEW r \in Seq(T)
  PROVE  /\ q \o r \in Seq(T) /\ Len(q \o r) = Len(q) + Len(r)
         /\ ToSet(q \o r) = ToSet(q) \cup ToSet(r)
<1>1. /\ q \o r \in Seq(T) /\ Len(q \o r) = Len(q) + Len(r)
      /\ \A i \in 1 .. Len(q) + Len(r) : (q \o r)[i] = IF i <= Len(q) THEN q[i] ELSE r[i - Len(q)]
  BY JoinedAt
<1>2. /\ Len(q) \in Nat /\ Len(r) \in Nat /\ DOMAIN q = 1 .. Len(q) /\ DOMAIN r = 1 .. Len(r)
      /\ DOMAIN (q \o r) = 1 .. Len(q) + Len(r)
  BY <1>1, LenProperties
<1>3. ASSUME NEW i \in 1 .. Len(r) PROVE i + Len(q) \in 1 .. Len(q) + Len(r) /\ r[i] = (q \o r)[i + Len(q)]
  BY <1>1, <1>2
<1>4. ToSet(q) \cup ToSet(r) \subseteq ToSet(q \o r)
  <2>1. ASSUME NEW i \in 1 .. Len(q) PROVE i \in 1 .. Len(q) + Len(r) /\ q[i] = (q \o r)[i]
    BY <1>1, <1>2
  <2>2. ToSet(q) \subseteq ToSet(q \o r)
    BY <1>2, <2>1 DEF ToSet
  <2>3. ToSet(r) \subseteq ToSet(q \o r)
    BY <1>2, <1>3 DEF ToSet
  <2> QED
    BY <2>2, <2>3
<1>5. ToSet(q \o r) \subseteq ToSet(q) \cup ToSet(r)
  BY <1>1, <1>2 DEF ToSet
<1> QED
  BY <1>1, <1>4, <1>5

(* A sequence of one item.                                                  *)
LEMMA OneItem ==
  ASSUME NEW T, NEW x \in T
  PROVE  <<x>> \in Seq(T) /\ Len(<<x>>) = 1 /\ ToSet(<<x>>) = {x} /\ <<x>>[1] = x
  BY DEF ToSet

(* Append joins a sequence of one item.                                     *)
LEMMA Appended ==
  ASSUME NEW T, NEW q \in Seq(T), NEW x \in T
  PROVE  /\ Append(q, x) = q \o <<x>> /\ Append(q, x) \in Seq(T) /\ Len(Append(q, x)) = Len(q) + 1
         /\ ToSet(Append(q, x)) = ToSet(q) \cup {x}
<1> DEFINE r == <<x>>
<1>1. r \in Seq(T) /\ Len(r) = 1 /\ ToSet(r) = {x}
  BY OneItem
<1>2. Append(q, x) = q \o r
  BY AppendIsConcat
<1> HIDE DEF r
<1>3. r \in Seq(T)
  BY <1>1
<1>4. q \o r \in Seq(T) /\ Len(q \o r) = Len(q) + Len(r) /\ ToSet(q \o r) = ToSet(q) \cup ToSet(r)
  BY <1>3, Joined
<1>5. q \o r \in Seq(T) /\ Len(q \o r) = Len(q) + 1 /\ ToSet(q \o r) = ToSet(q) \cup {x}
  BY <1>1, <1>4
<1> QED
  BY <1>2, <1>5 DEF r

(* Whatever comes after something else is in R with it.                     *)
Pairs(q, R) == \A i, j \in 1 .. Len(q) : i < j => <<q[i], q[j]>> \in R

(* Two such sequences joined are one, if the second may follow the first.   *)
LEMMA PairsJoined ==
  ASSUME NEW T, NEW q \in Seq(T), NEW r \in Seq(T), NEW R, Pairs(q, R), Pairs(r, R),
         \A x \in ToSet(q), y \in ToSet(r) : <<x, y>> \in R
  PROVE  Pairs(q \o r, R)
<1>1. Len(q) \in Nat /\ Len(r) \in Nat /\ DOMAIN q = 1 .. Len(q) /\ DOMAIN r = 1 .. Len(r)
  BY LenProperties
<1>2. SUFFICES ASSUME NEW i \in 1 .. Len(q) + Len(r), NEW j \in 1 .. Len(q) + Len(r), i < j
               PROVE <<(q \o r)[i], (q \o r)[j]>> \in R
  BY JoinedAt DEF Pairs
<1>3. CASE j <= Len(q)
  BY <1>1, <1>2, <1>3, JoinedAt DEF Pairs
<1>4. CASE i > Len(q)
  <2>1. i - Len(q) \in 1 .. Len(r) /\ j - Len(q) \in 1 .. Len(r) /\ i - Len(q) < j - Len(q)
    BY <1>1, <1>2, <1>4
  <2>2. (q \o r)[i] = r[i - Len(q)] /\ (q \o r)[j] = r[j - Len(q)]
    BY <1>1, <1>2, <1>4, JoinedAt
  <2> QED
    BY <2>1, <2>2 DEF Pairs
<1>5. CASE i <= Len(q) /\ j > Len(q)
  <2>1. q[i] \in ToSet(q) /\ r[j - Len(q)] \in ToSet(r)
    BY <1>1, <1>2, <1>5 DEF ToSet
  <2>2. (q \o r)[i] = q[i] /\ (q \o r)[j] = r[j - Len(q)]
    BY <1>1, <1>2, <1>5, JoinedAt
  <2> QED
    BY <2>1, <2>2
<1>6. j <= Len(q) \/ (i <= Len(q) /\ j > Len(q)) \/ i > Len(q)
  BY <1>1
<1> QED
  BY <1>3, <1>4, <1>5, <1>6

-----------------------------------------------------------------------------
(* Sorting                                                                  *)

(* A finite set of items with different numbers can be sorted by them: an   *)
(* item's place is given by how many are smaller.                           *)
LEMMA Sortable ==
  ASSUME NEW S, IsFiniteSet(S), \A x \in S : x.seq \in Nat, \A x, y \in S : x.seq = y.seq => x = y
  PROVE  \E q \in SetToSeqs(S) : \A i, j \in 1 .. Len(q) : i < j => q[i].seq < q[j].seq
<1> DEFINE n == Cardinality(S)
           Smaller(x) == {y \in S : y.seq < x.seq}
           place == [x \in S |-> Cardinality(Smaller(x)) + 1]
<1>1. n \in Nat
  BY FS_CardinalityType
<1>2. ASSUME NEW x \in S PROVE IsFiniteSet(Smaller(x)) /\ Cardinality(Smaller(x)) \in Nat /\ place[x] \in 1 .. n
  <2>1. Smaller(x) \in SUBSET (S \ {x})
    OBVIOUS
  <2>2. IsFiniteSet(S \ {x}) /\ Cardinality(S \ {x}) = n - 1
    BY FS_RemoveElement
  <2>3. IsFiniteSet(Smaller(x)) /\ Cardinality(Smaller(x)) <= n - 1
    BY <2>1, <2>2, FS_Subset
  <2>4. Cardinality(Smaller(x)) \in Nat
    BY <2>3, FS_CardinalityType
  <2> QED
    BY <1>1, <2>3, <2>4
<1>3. ASSUME NEW x \in S, NEW y \in S, x.seq < y.seq PROVE place[x] < place[y]
  <2>1. Smaller(x) \cup {x} \in SUBSET Smaller(y) /\ x \notin Smaller(x)
    BY <1>3
  <2>2. Cardinality(Smaller(x) \cup {x}) = Cardinality(Smaller(x)) + 1
    BY <1>2, <2>1, FS_AddElement
  <2>3. Cardinality(Smaller(x) \cup {x}) <= Cardinality(Smaller(y))
    BY <1>2, <2>1, FS_Subset
  <2>4. place[x] = Cardinality(Smaller(x)) + 1 /\ place[y] = Cardinality(Smaller(y)) + 1
    OBVIOUS
  <2>5. Cardinality(Smaller(x)) \in Nat /\ Cardinality(Smaller(y)) \in Nat
    BY <1>2
  <2> HIDE DEF place, Smaller
  <2> QED
    BY <2>2, <2>3, <2>4, <2>5
<1> HIDE DEF place
<1>4. place \in [S -> 1 .. n]
  BY <1>2 DEF place
<1>5. place \in Surjection(S, 1 .. n)
  <2>1. place \in Injection(S, 1 .. n)
    <3>1. \A x, y \in S : place[x] = place[y] => x = y
      <4> SUFFICES ASSUME NEW x \in S, NEW y \in S, place[x] = place[y], x.seq # y.seq PROVE FALSE
        OBVIOUS
      <4>1. place[x] < place[y] \/ place[y] < place[x]
        BY <1>3
      <4> QED
        BY <4>1, <1>4
    <3> QED
      BY <3>1, <1>4 DEF Injection, IsInjective
  <2>2. IsFiniteSet(1 .. n) /\ Cardinality(1 .. n) = n
    BY <1>1, FS_Interval
  <2> QED
    BY <2>1, <2>2, FS_Injection
<1> DEFINE q == [i \in 1 .. n |-> CHOOSE x \in S : place[x] = i]
<1>6. \A i \in 1 .. n : q[i] \in S /\ place[q[i]] = i
  <2> SUFFICES ASSUME NEW i \in 1 .. n PROVE \E x \in S : place[x] = i
    OBVIOUS
  <2> QED
    BY <1>5 DEF Surjection
<1> HIDE DEF q
<1>7. q \in [1 .. n -> S]
  BY <1>6 DEF q
<1>8. q \in SetToSeqs(S)
  BY <1>6, <1>7 DEF SetToSeqs
<1>9. Len(q) = n
  <2>1. q \in Seq(S)
    BY <1>1, <1>7, SeqDef
  <2> QED
    BY <1>1, <1>7, <2>1, LenProperties
<1>10. ASSUME NEW i \in 1 .. n, NEW j \in 1 .. n, i < j PROVE q[i].seq < q[j].seq
  <2> SUFFICES ASSUME q[j].seq <= q[i].seq PROVE FALSE
    BY <1>6
  <2>1. q[j] # q[i]
    BY <1>6, <1>10
  <2>2. q[j].seq < q[i].seq
    BY <1>6, <2>1
  <2>3. place[q[j]] < place[q[i]]
    BY <1>3, <1>6, <2>2
  <2> QED
    BY <1>6, <1>10, <2>3
<1> QED
  BY <1>8, <1>9, <1>10

(* Sorted puts items of one session in the order of their numbers.          *)
LEMMA SortedIs ==
  ASSUME NEW S, IsFiniteSet(S), NEW T, S \subseteq T,
         \A x \in S : x.seq \in Nat, \A x, y \in S : x.seq = y.seq => x = y,
         \A x, y \in S : Before(x, y) <=> x.seq < y.seq
  PROVE  /\ Sorted(S) \in Seq(T) /\ Len(Sorted(S)) = Cardinality(S) /\ Cardinality(S) \in Nat
         /\ ToSet(Sorted(S)) = S
         /\ \A i \in 1 .. Cardinality(S) : Sorted(S)[i] \in S
         /\ \A i, j \in 1 .. Cardinality(S) : i < j => Sorted(S)[i].seq < Sorted(S)[j].seq
<1> DEFINE n == Cardinality(S)
           q == Sorted(S)
<1>1. n \in Nat
  BY FS_CardinalityType
<1>2. \A r \in SetToSeqs(S) : r \in [1 .. n -> S] /\ r \in Seq(T) /\ Len(r) = n
  <2> SUFFICES ASSUME NEW r \in SetToSeqs(S) PROVE r \in [1 .. n -> S] /\ r \in Seq(T) /\ Len(r) = n
    OBVIOUS
  <2>1. r \in [1 .. n -> S]
    BY DEF SetToSeqs
  <2>2. r \in [1 .. n -> T]
    BY <2>1
  <2>3. r \in Seq(T)
    BY <1>1, <2>2, SeqDef
  <2> QED
    BY <1>1, <2>1, <2>3, LenProperties
<1>3. \E r \in SetToSeqs(S) : \A i, j \in 1 .. Len(r) : i < j => Before(r[i], r[j])
  <2>1. PICK r \in SetToSeqs(S) : \A i, j \in 1 .. Len(r) : i < j => r[i].seq < r[j].seq
    BY Sortable
  <2>2. \A i, j \in 1 .. Len(r) : i < j => Before(r[i], r[j])
    BY <1>2, <2>1
  <2> QED
    BY <2>2
<1>4. q \in SetToSeqs(S) /\ \A i, j \in 1 .. Len(q) : i < j => Before(q[i], q[j])
  BY <1>3 DEF Sorted
<1>5. q \in [1 .. n -> S] /\ q \in Seq(T) /\ Len(q) = n
  BY <1>2, <1>4
<1>6. q \in Surjection(1 .. n, S)
  <2>1. q \in Injection(1 .. n, S)
    BY <1>4, <1>5 DEF SetToSeqs, Injection, IsInjective
  <2>2. IsFiniteSet(1 .. n) /\ Cardinality(1 .. n) = n
    BY <1>1, FS_Interval
  <2> QED
    BY <2>1, <2>2, FS_Injection
<1> HIDE DEF q
<1>7. ToSet(q) = S
  BY <1>5, <1>6 DEF ToSet, Surjection
<1>8. \A i, j \in 1 .. n : i < j => q[i].seq < q[j].seq
  BY <1>4, <1>5
<1> QED
  BY <1>1, <1>5, <1>7, <1>8 DEF q

-----------------------------------------------------------------------------
(* The inductive invariant                                                  *)

(* Every session that was seen has an order of its own, and the current one *)
(* is the last.                                                             *)
Seen ==
  /\ \A s, t \in Sessions : s # t /\ sessionOrder[s] # Unseen => sessionOrder[s] # sessionOrder[t]
  /\ \A s \in Sessions : sessionOrder[s] <= now
  /\ current = NoSession => nextSeq = 1 /\ \A s \in Sessions : sessionOrder[s] = Unseen
  /\ current # NoSession =>
       sessionOrder[current] # Unseen /\ \A s \in Sessions : sessionOrder[s] <= sessionOrder[current]

(* An accepted item came once, after its session was first seen.            *)
Admitted ==
  /\ IsFiniteSet(accepted)
  /\ \A x \in accepted :
       /\ [session |-> x.session, seq |-> x.seq] \in arrived
       /\ sessionOrder[x.session] # Unseen /\ sessionOrder[x.session] <= x.at /\ x.at <= now
  /\ \A x, y \in accepted : x.session = y.session /\ x.seq = y.seq => x = y

(* What is held is of the current session and not behind its turn; what of  *)
(* this session was sent is.                                                *)
Turns ==
  /\ nextSeq \in Nat /\ nextSeq >= 1
  /\ \A x \in buffer : x.session = current /\ x.seq >= nextSeq
  /\ \A x \in ToSet(log) : x.session = current => x.seq < nextSeq

(* A number the current session is past was accepted, or a later one has    *)
(* waited for the whole timeout.                                            *)
Skipped ==
  \A k \in 1 .. nextSeq - 1 : \E c \in accepted :
    c.session = current /\ (c.seq = k \/ (c.seq > k /\ now >= c.at + Timeout))

(* The timer the queue refers to is set while something is held, and early  *)
(* enough.                                                                  *)
Timers ==
  /\ \A d \in running : d <= now + Timeout
  /\ closed => timer = NoTimer
  /\ ~closed => \A x \in buffer : timer # NoTimer /\ (timer <= x.at + Timeout \/ timer <= now)

(* y may leave after x.                                                     *)
Follows(x, y) ==
  /\ x.session = y.session /\ y.seq > 0 /\ y.seq < x.seq => CameTooLate(y)
  /\ sessionOrder[y.session] < sessionOrder[x.session] => y.at >= sessionOrder[x.session]

Order == {p \in Item \X Item : Follows(p[1], p[2])}

Inv ==
  /\ TypeOK /\ Seen /\ Admitted /\ Turns /\ Skipped /\ Timers
  /\ Pairs(log, Order) /\ EachOnce /\ SendsNeverBlock

-----------------------------------------------------------------------------
(* Consequences                                                             *)

(* The parts of an item.                                                    *)
LEMMA ItemFacts ==
  ASSUME ReorderQueueAssumption, NEW x \in Item
  PROVE  /\ x.session \in Sessions /\ x.seq \in Nat /\ x.at \in 0 .. MaxTime /\ x.at \in Nat
         /\ [session |-> x.session, seq |-> x.seq] \in Inputs
<1>1. PICK i \in Inputs, t \in 0 .. MaxTime : x = [session |-> i.session, seq |-> i.seq, at |-> t]
  BY DEF Item
<1>2. i \in [session : Sessions, seq : Nat]
  BY DEF ReorderQueueAssumption
<1>3. [session |-> x.session, seq |-> x.seq] = i
  BY <1>1, <1>2
<1>4. x.at \in 0 .. MaxTime /\ x.at \in Nat
  BY <1>1 DEF ReorderQueueAssumption
<1> QED
  BY <1>1, <1>2, <1>3, <1>4

(* The numbers among the variables, and where items are found.              *)
LEMMA Numbers ==
  ASSUME ReorderQueueAssumption, Inv
  PROVE  /\ \A s \in Sessions : sessionOrder[s] \in Int /\ sessionOrder[s] >= -1
         /\ now \in Nat /\ now <= MaxTime /\ MaxTime \in Nat /\ Timeout \in Nat /\ Timeout > 0 /\ Cap \in Nat
         /\ nextSeq \in Nat /\ Len(log) \in Nat /\ taken \in Nat /\ log \in Seq(Item)
         /\ ToSet(log) \subseteq accepted /\ buffer \subseteq accepted /\ accepted \subseteq Item
         /\ running \subseteq Int /\ timer \in Int
<1>1. /\ now \in Nat /\ now <= MaxTime /\ MaxTime \in Nat /\ Timeout \in Nat /\ Timeout > 0 /\ Cap \in Nat
  BY DEF ReorderQueueAssumption, Inv, TypeOK
<1>2. \A s \in Sessions : sessionOrder[s] \in Int /\ sessionOrder[s] >= -1
  BY <1>1 DEF Inv, TypeOK, Unseen
<1>3. /\ nextSeq \in Nat /\ Len(log) \in Nat /\ taken \in Nat /\ log \in Seq(Item)
      /\ ToSet(log) \subseteq accepted /\ buffer \subseteq accepted /\ accepted \subseteq Item
  BY LenProperties DEF Inv, TypeOK, Turns, EachOnce
<1>4. running \subseteq Int /\ timer \in Int
  BY <1>1 DEF Inv, TypeOK, NoTimer
<1> QED
  BY <1>1, <1>2, <1>3, <1>4

(* An item whose session is no older and whose number is no smaller may     *)
(* follow.                                                                  *)
LEMMA LaterFollows ==
  ASSUME ReorderQueueAssumption, Inv, NEW x \in Item, NEW y \in Item,
         sessionOrder[x.session] <= sessionOrder[y.session], x.session = y.session => x.seq <= y.seq
  PROVE  <<x, y>> \in Order
<1>1. x.seq \in Nat /\ y.seq \in Nat /\ sessionOrder[x.session] \in Int /\ sessionOrder[y.session] \in Int
  BY ItemFacts, Numbers
<1> QED
  BY <1>1 DEF Order, Follows

(* What may follow may do so later, as the sessions seen keep their order.  *)
Stable ==
  /\ accepted \subseteq accepted'
  /\ \A s \in Sessions : sessionOrder[s] # Unseen => sessionOrder'[s] = sessionOrder[s]

LEMMA OrderKept ==
  ASSUME ReorderQueueAssumption, Inv, Stable, NEW x \in Item, NEW y \in Item,
         sessionOrder[x.session] # Unseen, sessionOrder[y.session] # Unseen, <<x, y>> \in Order
  PROVE  <<x, y>> \in Order'
<1>1. x.session \in Sessions /\ y.session \in Sessions
  BY ItemFacts
<1>2. sessionOrder'[x.session] = sessionOrder[x.session] /\ sessionOrder'[y.session] = sessionOrder[y.session]
  BY <1>1 DEF Stable
<1>3. CameTooLate(y) => CameTooLate(y)'
  <2>1. ASSUME NEW s \in Sessions, sessionOrder[s] > sessionOrder[y.session], y.at >= sessionOrder[s]
        PROVE  CameTooLate(y)'
    <3>1. sessionOrder[s] # Unseen
      BY <1>1, <2>1, Numbers DEF Unseen
    <3> QED
      BY <1>2, <2>1, <3>1 DEF CameTooLate, Stable
  <2>2. ASSUME NEW c \in accepted, c.session = y.session, c.seq > y.seq, y.at >= c.at + Timeout
        PROVE  CameTooLate(y)'
    BY <2>2 DEF CameTooLate, Stable
  <2> QED
    BY <2>1, <2>2 DEF CameTooLate
<1> QED
  BY <1>2, <1>3 DEF Order, Follows, Item

(* So what was sent remains in order.                                       *)
LEMMA LogKept ==
  ASSUME ReorderQueueAssumption, Inv, Stable
  PROVE  /\ Pairs(log, Order') /\ \A x, y \in accepted : <<x, y>> \in Order => <<x, y>> \in Order'
<1>1. \A x \in accepted : x \in Item /\ sessionOrder[x.session] # Unseen
  BY Numbers DEF Inv, Admitted
<1>2. \A x, y \in accepted : <<x, y>> \in Order => <<x, y>> \in Order'
  BY <1>1, OrderKept
<1>3. \A i \in 1 .. Len(log) : log[i] \in accepted
  BY Numbers, LenProperties DEF ToSet
<1> QED
  BY <1>2, <1>3 DEF Inv, Pairs

(* What is held can be sorted, and sent after all that was.                 *)
LEMMA HeldSorted ==
  ASSUME ReorderQueueAssumption, Inv, NEW S \in SUBSET buffer
  PROVE  /\ Sorted(S) \in Seq(Item) /\ Len(Sorted(S)) = Cardinality(S) /\ Cardinality(S) \in Nat
         /\ ToSet(Sorted(S)) = S /\ IsFiniteSet(S)
         /\ \A i \in 1 .. Cardinality(S) : Sorted(S)[i] \in S
         /\ \A i, j \in 1 .. Cardinality(S) : i < j => Sorted(S)[i].seq < Sorted(S)[j].seq
         /\ Pairs(Sorted(S), Order)
         /\ \A x \in ToSet(log), y \in S : <<x, y>> \in Order
<1>1. S \in SUBSET accepted /\ S \subseteq Item
  BY Numbers
<1>2. IsFiniteSet(S)
  BY <1>1, FS_Subset DEF Inv, Admitted
<1>3. \A x \in S : x.seq \in Nat /\ x.session \in Sessions /\ x.session = current /\ x.seq >= nextSeq
  BY <1>1, ItemFacts DEF Inv, Turns
<1>4. \A x, y \in S : x.seq = y.seq => x = y
  BY <1>1, <1>3 DEF Inv, Admitted
<1>5. \A x, y \in S : Before(x, y) <=> x.seq < y.seq
  BY <1>3, Numbers DEF Before
<1>6. /\ Sorted(S) \in Seq(Item) /\ Len(Sorted(S)) = Cardinality(S) /\ Cardinality(S) \in Nat
      /\ ToSet(Sorted(S)) = S
      /\ \A i \in 1 .. Cardinality(S) : Sorted(S)[i] \in S
      /\ \A i, j \in 1 .. Cardinality(S) : i < j => Sorted(S)[i].seq < Sorted(S)[j].seq
  BY <1>1, <1>2, <1>3, <1>4, <1>5, SortedIs
<1>7. Pairs(Sorted(S), Order)
  <2> SUFFICES ASSUME NEW i \in 1 .. Cardinality(S), NEW j \in 1 .. Cardinality(S), i < j
               PROVE  <<Sorted(S)[i], Sorted(S)[j]>> \in Order
    BY <1>6 DEF Pairs
  <2> DEFINE x == Sorted(S)[i]
             y == Sorted(S)[j]
  <2>1. x \in S /\ y \in S /\ x.seq < y.seq
    BY <1>6
  <2> HIDE DEF x, y
  <2>2. x \in Item /\ y \in Item /\ x.seq <= y.seq /\ sessionOrder[x.session] <= sessionOrder[y.session]
    <3>1. x \in Item /\ y \in Item /\ x.seq \in Nat /\ y.seq \in Nat /\ x.session = y.session /\ x.session \in Sessions
      BY <1>1, <1>3, <2>1
    <3>2. sessionOrder[x.session] \in Int
      BY <3>1, Numbers
    <3> QED
      BY <2>1, <3>1, <3>2
  <2>3. <<x, y>> \in Order
    BY <2>2, LaterFollows
  <2> QED
    BY <2>3 DEF x, y
<1>8. ASSUME NEW x \in ToSet(log), NEW y \in S PROVE <<x, y>> \in Order
  <2>1. x \in Item /\ y \in Item /\ x \in accepted /\ y.session = current /\ y.seq >= nextSeq
    BY <1>1, <1>3, Numbers
  <2>2. x.session \in Sessions /\ x.seq \in Nat /\ y.seq \in Nat /\ y.session \in Sessions /\ current # NoSession
    BY <2>1, ItemFacts DEF ReorderQueueAssumption
  <2>3. sessionOrder[x.session] <= sessionOrder[y.session]
    BY <2>1, <2>2 DEF Inv, Seen
  <2>4. x.session = y.session => x.seq <= y.seq
    BY <2>1, <2>2, Numbers DEF Inv, Turns
  <2> QED
    BY <2>1, <2>3, <2>4, LaterFollows
<1> QED
  BY <1>2, <1>6, <1>7, <1>8

-----------------------------------------------------------------------------
(* Items                                                                    *)

(* An RPC that arrives brings an item nobody has seen.                      *)
Brings(input, it) ==
  /\ it = [session |-> input.session, seq |-> input.seq, at |-> now]
  /\ arrived' = arrived \cup {input} /\ now' = now

LEMMA NewItem ==
  ASSUME ReorderQueueAssumption, Inv, NEW input \in Inputs \ arrived, NEW it, Brings(input, it)
  PROVE  /\ it \in Item /\ it.session \in Sessions /\ it.seq \in Nat /\ it.at = now
         /\ [session |-> it.session, seq |-> it.seq] = input
         /\ it \notin accepted /\ \A x \in accepted : ~(x.session = it.session /\ x.seq = it.seq)
         /\ arrived' \subseteq Inputs
<1>1. input \in [session : Sessions, seq : Nat]
  BY DEF ReorderQueueAssumption
<1>2. it.session \in Sessions /\ it.seq \in Nat /\ it.at = now /\ [session |-> it.session, seq |-> it.seq] = input
  BY <1>1 DEF Brings
<1>3. it \in Item
  BY <1>1 DEF Brings, Item, Inv, TypeOK
<1>4. \A x \in accepted : ~(x.session = it.session /\ x.seq = it.seq)
  BY <1>2 DEF Inv, Admitted
<1> QED
  BY <1>2, <1>3, <1>4 DEF Brings, Inv, TypeOK

(* It is accepted once its session was seen, and one more is then.          *)
LEMMA ItemAdmitted ==
  ASSUME ReorderQueueAssumption, Inv, NEW input \in Inputs \ arrived, NEW it, Brings(input, it),
         accepted' = accepted \cup {it}, Stable, sessionOrder'[it.session] \in 0 .. now
  PROVE  Admitted' /\ accepted' \subseteq Item /\ Cardinality(accepted') = Cardinality(accepted) + 1
<1>1. /\ it \in Item /\ it.session \in Sessions /\ it.seq \in Nat /\ it.at = now
      /\ [session |-> it.session, seq |-> it.seq] = input
      /\ it \notin accepted /\ \A x \in accepted : ~(x.session = it.session /\ x.seq = it.seq)
  BY NewItem
<1>2. IsFiniteSet(accepted') /\ Cardinality(accepted') = Cardinality(accepted) + 1
  BY <1>1, FS_AddElement DEF Inv, Admitted
<1>3. now' = now /\ arrived' = arrived \cup {input} /\ now \in Nat
  BY Numbers DEF Brings
<1>4. ASSUME NEW x \in accepted'
      PROVE  /\ [session |-> x.session, seq |-> x.seq] \in arrived'
             /\ sessionOrder'[x.session] # Unseen /\ sessionOrder'[x.session] <= x.at /\ x.at <= now'
  <2>1. CASE x = it
    BY <1>1, <1>3, <2>1 DEF Unseen
  <2>2. CASE x \in accepted
    <3>1. x.session \in Sessions
      BY <2>2, Numbers, ItemFacts
    <3> QED
      BY <1>3, <2>2, <3>1 DEF Inv, Admitted, Stable
  <2> QED
    BY <2>1, <2>2
<1>5. \A x, y \in accepted' : x.session = y.session /\ x.seq = y.seq => x = y
  BY <1>1 DEF Inv, Admitted
<1>6. accepted' \subseteq Item
  BY <1>1, Numbers
<1> QED
  BY <1>2, <1>4, <1>5, <1>6 DEF Admitted

(* There is room for one item more.                                         *)
LEMMA RoomForOne ==
  ASSUME ReorderQueueAssumption, Inv, HasRoom, taken' = taken,
         Cardinality(accepted') = Cardinality(accepted) + 1,
         ToSet(log') \cup buffer' = accepted', Len(log') \in Nat, Len(log') >= Len(log), Cardinality(buffer') \in Nat,
         Len(log') + Cardinality(buffer') = Len(log) + Cardinality(buffer) + 1
  PROVE  EachOnce' /\ SendsNeverBlock' /\ taken' \in 0 .. Len(log')
<1>1. Cardinality(accepted) = Len(log) + Cardinality(buffer) /\ taken \in 0 .. Len(log)
  BY DEF Inv, EachOnce, TypeOK
<1>2. Cardinality(buffer) \in Nat
  BY HeldSorted
<1>3. Cardinality(buffer) + Len(log) - taken < Cap
  BY <1>2, Numbers DEF HasRoom, Waiting
<1>4. EachOnce'
  BY <1>1 DEF EachOnce
<1>5. Cardinality(buffer') + (Len(log') - taken') <= Cap /\ taken' \in 0 .. Len(log')
  <2>1. Len(log) \in Nat /\ taken \in Nat /\ Cap \in Nat
    BY Numbers
  <2> QED
    BY <1>1, <1>2, <1>3, <2>1
<1> QED
  BY <1>4, <1>5 DEF SendsNeverBlock, Waiting

(* Timers that are stopped or set stay timers, and none is set for later    *)
(* than a whole timeout.                                                    *)
LEMMA TimerIsSet ==
  ASSUME ReorderQueueAssumption, Inv, NEW stop \in BOOLEAN, NEW hold \in BOOLEAN, SetTimer(stop, hold), now' = now
  PROVE  /\ running' \subseteq 0 .. MaxTime + Timeout /\ timer' \in running' \cup {NoTimer}
         /\ \A d \in running' : d <= now' + Timeout
         /\ ~stop /\ timer # NoTimer => timer' = timer
         /\ hold => timer' # NoTimer /\ timer' <= now + Timeout
         /\ stop /\ ~hold => timer' = NoTimer
<1> DEFINE kept == IF stop THEN NoTimer ELSE timer
           start == hold /\ kept = NoTimer
           new == now + Timeout
<1>1. PICK left \in (IF stop THEN Stopped ELSE {running}) :
        /\ timer' = (IF start THEN new ELSE kept)
        /\ running' = left \cup (IF start THEN {new} ELSE {})
  BY DEF SetTimer
<1>2. left \subseteq running /\ (~stop => left = running)
  BY <1>1 DEF Stopped
<1>3. new \in 0 .. MaxTime + Timeout /\ new # NoTimer
  BY Numbers DEF NoTimer
<1>4. timer \in running \cup {NoTimer} /\ running \subseteq 0 .. MaxTime + Timeout
      /\ \A d \in running : d <= now + Timeout
  BY DEF Inv, TypeOK, Timers
<1>5. new <= now + Timeout
  BY Numbers
<1> HIDE DEF new
<1>6. running' \subseteq 0 .. MaxTime + Timeout /\ timer' \in running' \cup {NoTimer}
  BY <1>1, <1>2, <1>3, <1>4
<1>7. \A d \in running' : d <= now' + Timeout
  BY <1>1, <1>2, <1>4, <1>5
<1>8. hold => timer' # NoTimer /\ timer' \in running'
  BY <1>1, <1>3, <1>6
<1> QED
  BY <1>1, <1>6, <1>7, <1>8

-----------------------------------------------------------------------------
(* The steps of the queue                                                   *)

(* The session of a known item is seen, and there is a current one.         *)
LEMMA KnownIs ==
  ASSUME ReorderQueueAssumption, Inv, NEW it, it.session \in Sessions, Known(it)
  PROVE  /\ ~closed /\ HasRoom /\ sessionOrder[it.session] # Unseen /\ sessionOrder[it.session] \in 0 .. now
         /\ current \in Sessions /\ current # NoSession /\ sessionOrder[current] \in 0 .. now
         /\ sessionOrder[it.session] <= sessionOrder[current]
         /\ (sessionOrder[it.session] = sessionOrder[current] => it.session = current)
<1>1. /\ ~closed /\ HasRoom /\ sessionOrder[it.session] # Unseen
  BY DEF Known
<1>2. current \in Sessions /\ current # NoSession /\ sessionOrder[current] # Unseen
  BY <1>1 DEF Inv, Seen, TypeOK
<1>3. sessionOrder[it.session] \in 0 .. now /\ sessionOrder[current] \in 0 .. now
  BY <1>1, <1>2, Numbers DEF Inv, Seen, Unseen
<1>4. sessionOrder[it.session] <= sessionOrder[current]
  BY <1>2 DEF Inv, Seen
<1>5. sessionOrder[it.session] = sessionOrder[current] => it.session = current
  BY <1>1, <1>2 DEF Inv, Seen
<1> QED
  BY <1>1, <1>2, <1>3, <1>4, <1>5

(* Nothing but the RPC's arrival is remembered of an item that is refused.  *)
LEMMA RefusedKept ==
  ASSUME ReorderQueueAssumption, Inv, NEW input \in Inputs \ arrived, NEW it, Brings(input, it), Refuse
  PROVE  Inv'
<1>1. /\ sessionOrder' = sessionOrder /\ current' = current /\ nextSeq' = nextSeq /\ buffer' = buffer /\ log' = log
      /\ taken' = taken /\ timer' = timer /\ running' = running /\ closed' = closed /\ accepted' = accepted
      /\ now' = now /\ arrived \subseteq arrived' /\ arrived' \subseteq Inputs
  BY NewItem DEF Refuse, Brings
<1>2. Pairs(log, Order)'
  BY <1>1, LogKept DEF Stable
<1>3. TypeOK' /\ Seen' /\ Turns' /\ Skipped' /\ Timers' /\ EachOnce' /\ SendsNeverBlock'
  BY <1>1 DEF Inv, TypeOK, Seen, Turns, Skipped, Timers, EachOnce, SendsNeverBlock, Waiting
<1>4. Admitted'
  BY <1>1 DEF Inv, Admitted
<1> QED
  BY <1>2, <1>3, <1>4 DEF Inv

(* An item behind its turn may leave after all that was sent: its number    *)
(* was given up, or its session is over.                                    *)
LEMMA LateFollows ==
  ASSUME ReorderQueueAssumption, Inv, NEW it \in Item, it.at = now, Known(it),
         it.seq = 0 \/ Before(it, Expected), \A x \in accepted : ~(x.session = it.session /\ x.seq = it.seq),
         NEW x \in accepted
  PROVE  <<x, it>> \in Order
<1>1. /\ it.session \in Sessions /\ it.seq \in Nat /\ x \in Item /\ x.session \in Sessions /\ x.seq \in Nat
  BY ItemFacts, Numbers
<1>2. /\ sessionOrder[it.session] \in 0 .. now /\ current \in Sessions /\ sessionOrder[current] \in 0 .. now
      /\ sessionOrder[it.session] <= sessionOrder[current]
      /\ (sessionOrder[it.session] = sessionOrder[current] => it.session = current)
  BY <1>1, KnownIs
<1>3. sessionOrder[x.session] <= now
  BY <1>1 DEF Inv, Seen
<1>4. ASSUME it.seq > 0 PROVE CameTooLate(it)
  <2>1. \/ sessionOrder[it.session] < sessionOrder[current]
        \/ sessionOrder[it.session] = sessionOrder[current] /\ it.seq < nextSeq
    BY <1>1, <1>4 DEF Before, Expected
  <2>2. CASE sessionOrder[it.session] < sessionOrder[current]
    BY <1>2, <2>2 DEF CameTooLate
  <2>3. CASE it.session = current /\ it.seq < nextSeq
    <3>1. it.seq \in 1 .. nextSeq - 1
      BY <1>1, <1>4, <2>3, Numbers
    <3>2. PICK c \in accepted : c.session = current /\ (c.seq = it.seq \/ (c.seq > it.seq /\ now >= c.at + Timeout))
      BY <3>1 DEF Inv, Skipped
    <3> QED
      BY <2>3, <3>2 DEF CameTooLate
  <2> QED
    BY <1>2, <2>1, <2>2, <2>3
<1> QED
  BY <1>1, <1>3, <1>4 DEF Order, Follows

(* The invariant holds after a late item.                                   *)
LEMMA LateKept ==
  ASSUME ReorderQueueAssumption, Inv, NEW input \in Inputs \ arrived, NEW it, Brings(input, it), LateItem(it)
  PROVE  Inv'
<1>1. /\ it \in Item /\ it.session \in Sessions /\ it.seq \in Nat /\ it.at = now
      /\ it \notin accepted /\ \A x \in accepted : ~(x.session = it.session /\ x.seq = it.seq)
      /\ arrived' \subseteq Inputs
  BY NewItem
<1>2. /\ Known(it) /\ (it.seq = 0 \/ Before(it, Expected)) /\ log' = Append(log, it)
      /\ accepted' = accepted \cup {it} /\ now' = now
      /\ sessionOrder' = sessionOrder /\ current' = current /\ nextSeq' = nextSeq /\ buffer' = buffer
      /\ taken' = taken /\ timer' = timer /\ running' = running /\ closed' = closed
  BY DEF LateItem, Brings
<1>3. Stable
  BY <1>2 DEF Stable
<1>4. /\ HasRoom /\ sessionOrder[it.session] # Unseen /\ sessionOrder[it.session] \in 0 .. now
  BY <1>1, <1>2, KnownIs
<1>5. Admitted' /\ accepted' \subseteq Item /\ Cardinality(accepted') = Cardinality(accepted) + 1
  BY <1>2, <1>3, <1>4, ItemAdmitted
<1>6. /\ log' = log \o <<it>> /\ log' \in Seq(Item) /\ Len(log') = Len(log) + 1 /\ ToSet(log') = ToSet(log) \cup {it}
  BY <1>1, <1>2, Numbers, Appended
<1>7. Pairs(log, Order)'
  <2>1. \A x \in ToSet(log) : <<x, it>> \in Order'
    <3> SUFFICES ASSUME NEW x \in ToSet(log) PROVE <<x, it>> \in Order'
      OBVIOUS
    <3>1. x \in accepted /\ x \in Item /\ sessionOrder[x.session] # Unseen
      BY Numbers DEF Inv, Admitted
    <3>2. <<x, it>> \in Order
      BY <1>1, <1>2, <3>1, LateFollows
    <3> QED
      BY <1>1, <1>3, <1>4, <3>1, <3>2, OrderKept
  <2>2. Pairs(log, Order') /\ Pairs(<<it>>, Order')
    BY <1>1, <1>3, LogKept DEF Pairs
  <2>3. Pairs(log \o <<it>>, Order')
    <3> HIDE DEF Order
    <3>1. <<it>> \in Seq(Item) /\ ToSet(<<it>>) = {it} /\ log \in Seq(Item)
      BY <1>1, OneItem, Numbers
    <3> QED
      BY <2>1, <2>2, <3>1, PairsJoined
  <2> QED
    BY <1>6, <2>3 DEF Pairs
<1>8. TypeOK' /\ EachOnce' /\ SendsNeverBlock'
  <2>1. Cardinality(buffer') \in Nat /\ Len(log) \in Nat
    BY <1>2, HeldSorted, Numbers
  <2>2. ToSet(log') \cup buffer' = accepted'
    BY <1>2, <1>6 DEF Inv, EachOnce
  <2>3. EachOnce' /\ SendsNeverBlock' /\ taken' \in 0 .. Len(log')
    <3>1. Len(log') \in Nat /\ Len(log') >= Len(log)
      BY <1>6, <2>1
    <3>2. Len(log') + Cardinality(buffer') = Len(log) + Cardinality(buffer) + 1
      BY <1>2, <1>6, <2>1
    <3> QED
      BY <1>2, <1>4, <1>5, <2>1, <2>2, <3>1, <3>2, RoomForOne
  <2> QED
    BY <1>1, <1>2, <1>5, <1>6, <2>3 DEF Inv, TypeOK
<1>9. Seen' /\ Skipped' /\ Timers'
  BY <1>2 DEF Inv, Seen, Skipped, Timers
<1>10. Turns'
  <2>1. it.session = current => it.seq < nextSeq
    BY <1>1, <1>2, <1>4, Numbers DEF Before, Expected, Inv, Turns
  <2> QED
    BY <1>2, <1>6, <2>1 DEF Inv, Turns
<1> QED
  BY <1>5, <1>7, <1>8, <1>9, <1>10 DEF Inv

(* What follows in turn is the front of what is held.                       *)
LEMMA FollowingIs ==
  ASSUME ReorderQueueAssumption, Inv, NEW n \in Nat, \A x \in buffer : x.seq >= n
  PROVE  \E m \in 0 .. Cardinality(buffer) :
           /\ Following(n) \in Seq(Item) /\ Len(Following(n)) = m
           /\ ToSet(Following(n)) \subseteq buffer /\ Cardinality(ToSet(Following(n))) = m
           /\ \A i \in 1 .. m : Following(n)[i] \in buffer /\ Following(n)[i].seq = n + i - 1
           /\ \A x \in buffer \ ToSet(Following(n)) : x.seq >= n + m
           /\ Pairs(Following(n), Order)
<1> DEFINE held == Sorted(buffer)
           c == Cardinality(buffer)
           InTurn(k) == \A i \in 1 .. k : held[i].session = current /\ held[i].seq = n + i - 1
           K == {k \in 0 .. Len(held) : InTurn(k)}
           m == Max(K)
           more == Following(n)
<1>1. /\ held \in Seq(Item) /\ Len(held) = c /\ c \in Nat /\ ToSet(held) = buffer /\ IsFiniteSet(buffer)
      /\ \A i \in 1 .. c : held[i] \in buffer
      /\ \A i, j \in 1 .. c : i < j => held[i].seq < held[j].seq
      /\ Pairs(held, Order)
  BY HeldSorted
<1>2. m \in K
  <2>1. 0 \in K /\ K \in SUBSET Nat /\ \A k \in K : k <= c
    BY <1>1
  <2> HIDE DEF K
  <2> QED
    BY <1>1, <2>1, MaxIs
<1>3. more = SubSeq(held, 1, m)
  BY Zenon DEF Following
<1> HIDE DEF m, held, more
<1>4. m \in 0 .. c /\ \A i \in 1 .. m : held[i].seq = n + i - 1
  BY <1>1, <1>2
<1>5. more \in Seq(Item) /\ Len(more) = m /\ \A i \in 1 .. m : more[i] = held[i]
  BY <1>1, <1>3, <1>4, SubSeqProperties
<1>6. DOMAIN more = 1 .. m /\ DOMAIN held = 1 .. c
  BY <1>1, <1>5, LenProperties
<1>7. \A i \in 1 .. m : more[i] \in buffer /\ more[i].seq = n + i - 1
  BY <1>1, <1>4, <1>5
<1>8. ToSet(more) \subseteq buffer
  BY <1>6, <1>7 DEF ToSet
<1>9. Cardinality(ToSet(more)) = m
  <2>1. more \in [1 .. m -> ToSet(more)]
    BY <1>5, <1>6, LenProperties DEF ToSet
  <2>2. more \in Surjection(1 .. m, ToSet(more))
    BY <1>6, <2>1 DEF Surjection, ToSet
  <2>3. \A i, j \in 1 .. m : more[i] = more[j] => i = j
    <3> SUFFICES ASSUME NEW i \in 1 .. m, NEW j \in 1 .. m, more[i] = more[j] PROVE i = j
      OBVIOUS
    <3>1. n + i - 1 = n + j - 1
      BY <1>7
    <3> QED
      BY <1>4, <3>1
  <2>4. more \in Injection(1 .. m, ToSet(more))
    BY <1>6, <2>1, <2>3 DEF Injection, IsInjective
  <2>5. IsFiniteSet(1 .. m) /\ Cardinality(1 .. m) = m
    BY <1>1, <1>4, FS_Interval
  <2> QED
    BY <2>2, <2>4, <2>5, FS_Surjection
<1>10. ASSUME NEW x \in buffer \ ToSet(more) PROVE x.seq >= n + m
  <2>1. PICK i \in 1 .. c : x = held[i]
    BY <1>1, <1>6 DEF ToSet
  <2>2. i > m
    BY <1>5, <1>6, <1>10, <2>1, <1>4 DEF ToSet
  <2>3. x.seq \in Nat
    BY <1>10, ItemFacts, Numbers
  <2>4. CASE m = 0
    BY <1>10, <2>4
  <2>5. CASE m > 0
    <3>1. m \in 1 .. c /\ held[m].seq < held[i].seq /\ held[m].seq = n + m - 1
      BY <1>1, <1>4, <2>1, <2>2, <2>5
    <3> QED
      BY <1>4, <2>1, <2>3, <3>1
  <2> QED
    BY <1>4, <2>4, <2>5
<1>11. Pairs(more, Order)
  <2> SUFFICES ASSUME NEW i \in 1 .. m, NEW j \in 1 .. m, i < j PROVE <<more[i], more[j]>> \in Order
    BY <1>5 DEF Pairs
  <2>1. i \in 1 .. c /\ j \in 1 .. c
    BY <1>1, <1>4
  <2>2. <<held[i], held[j]>> \in Order
    BY <1>1, <2>1 DEF Pairs
  <2> QED
    BY <1>5, <2>2
<1> QED
  BY <1>4, <1>5, <1>7, <1>8, <1>9, <1>10, <1>11 DEF more

(* An item in turn, and those that follow it, leave after all that was      *)
(* sent, and the next number is past them.                                  *)
LEMMA InTurnKept ==
  ASSUME ReorderQueueAssumption, Inv, NEW input \in Inputs \ arrived, NEW it, Brings(input, it), ItemInTurn(it)
  PROVE  Inv'
<1> DEFINE more == Following(nextSeq + 1)
<1>1. /\ it \in Item /\ it.session \in Sessions /\ it.seq \in Nat /\ it.at = now
      /\ [session |-> it.session, seq |-> it.seq] = input
      /\ it \notin accepted /\ \A x \in accepted : ~(x.session = it.session /\ x.seq = it.seq)
      /\ arrived' \subseteq Inputs
  BY NewItem
<1>2. /\ Known(it) /\ ~Before(it, Expected) /\ ~Before(Expected, it)
      /\ log' = Append(log, it) \o more /\ nextSeq' = nextSeq + 1 + Len(more) /\ buffer' = buffer \ ToSet(more)
      /\ accepted' = accepted \cup {it} /\ now' = now /\ sessionOrder' = sessionOrder /\ current' = current
      /\ taken' = taken /\ timer' = timer /\ running' = running /\ closed' = closed
  BY Zenon DEF ItemInTurn, Brings
<1>3. Stable
  BY <1>2 DEF Stable
<1>4. /\ HasRoom /\ sessionOrder[it.session] # Unseen /\ sessionOrder[it.session] \in 0 .. now
      /\ current \in Sessions /\ current # NoSession /\ sessionOrder[current] \in 0 .. now
      /\ (sessionOrder[it.session] = sessionOrder[current] => it.session = current)
  BY <1>1, <1>2, KnownIs
<1>5. it.session = current /\ it.seq = nextSeq
  <2>1. /\ ~(sessionOrder[it.session] < sessionOrder[current])
        /\ ~(sessionOrder[current] < sessionOrder[it.session])
        /\ sessionOrder[it.session] = sessionOrder[current] => ~(it.seq < nextSeq) /\ ~(nextSeq < it.seq)
    BY <1>2 DEF Before, Expected
  <2>2. sessionOrder[it.session] = sessionOrder[current]
    BY <1>4, <2>1
  <2>3. nextSeq \in Nat
    BY Numbers
  <2> QED
    BY <1>1, <1>4, <2>1, <2>2, <2>3
<1>6. \A x \in buffer : x \in accepted /\ x \in Item /\ x.seq \in Nat /\ x.session = current /\ x.seq >= nextSeq + 1
  <2> SUFFICES ASSUME NEW x \in buffer
               PROVE  x \in accepted /\ x \in Item /\ x.seq \in Nat /\ x.session = current /\ x.seq >= nextSeq + 1
    OBVIOUS
  <2>1. x \in accepted /\ x \in Item /\ x.seq \in Nat
    BY Numbers, ItemFacts
  <2>2. x.session = current /\ x.seq >= nextSeq /\ x.seq # nextSeq
    BY <1>1, <1>5, <2>1 DEF Inv, Turns
  <2> QED
    BY <2>1, <2>2, Numbers
<1> HIDE DEF more
<1>7. PICK m \in 0 .. Cardinality(buffer) :
        /\ more \in Seq(Item) /\ Len(more) = m
        /\ ToSet(more) \subseteq buffer /\ Cardinality(ToSet(more)) = m
        /\ \A i \in 1 .. m : more[i] \in buffer /\ more[i].seq = nextSeq + 1 + i - 1
        /\ \A x \in buffer \ ToSet(more) : x.seq >= nextSeq + 1 + m
        /\ Pairs(more, Order)
  <2>1. nextSeq + 1 \in Nat /\ \A x \in buffer : x.seq >= nextSeq + 1
    BY <1>6, Numbers
  <2> QED
    BY <2>1, FollowingIs DEF more
<1>8. nextSeq \in Nat /\ nextSeq >= 1 /\ m \in Nat /\ nextSeq' = nextSeq + 1 + m /\ Cardinality(buffer) \in Nat
      /\ Len(log) \in Nat /\ log \in Seq(Item)
  BY <1>2, <1>7, Numbers, HeldSorted DEF Inv, Turns
<1>9. /\ Append(log, it) = log \o <<it>> /\ Append(log, it) \in Seq(Item)
      /\ log' \in Seq(Item) /\ Len(log') = Len(log) + 1 + m
      /\ ToSet(Append(log, it)) = ToSet(log) \cup {it} /\ ToSet(log') = ToSet(log) \cup {it} \cup ToSet(more)
  <2>1. /\ Append(log, it) = log \o <<it>> /\ Append(log, it) \in Seq(Item) /\ Len(Append(log, it)) = Len(log) + 1
        /\ ToSet(Append(log, it)) = ToSet(log) \cup {it}
    BY <1>1, <1>8, Appended
  <2> DEFINE q == Append(log, it)
  <2>2. q \in Seq(Item) /\ Len(q) = Len(log) + 1
    BY <2>1
  <2> HIDE DEF q
  <2>3. q \o more \in Seq(Item) /\ Len(q \o more) = Len(q) + m /\ ToSet(q \o more) = ToSet(q) \cup ToSet(more)
    <3>1. more \in Seq(Item) /\ Len(more) = m
      BY <1>7
    <3>2. /\ q \o more \in Seq(Item) /\ Len(q \o more) = Len(q) + Len(more)
          /\ ToSet(q \o more) = ToSet(q) \cup ToSet(more)
      BY <2>2, <3>1, Joined
    <3> QED
      BY <3>1, <3>2
  <2> QED
    BY <1>2, <2>1, <2>2, <2>3 DEF q
<1>10. Admitted' /\ accepted' \subseteq Item /\ Cardinality(accepted') = Cardinality(accepted) + 1
  BY <1>2, <1>3, <1>4, ItemAdmitted
<1>11. Pairs(log, Order)'
  <2>1. \A x \in accepted : x \in Item /\ sessionOrder[x.session] # Unseen /\ x.session \in Sessions /\ x.seq \in Nat
    BY Numbers, ItemFacts DEF Inv, Admitted
  <2>2. \A x \in ToSet(log) : <<x, it>> \in Order'
    <3> SUFFICES ASSUME NEW x \in ToSet(log) PROVE <<x, it>> \in Order'
      OBVIOUS
    <3>1. x \in accepted /\ (x.session = current => x.seq < nextSeq)
      BY Numbers DEF Inv, Turns
    <3>2. sessionOrder[x.session] <= sessionOrder[it.session]
      BY <1>4, <1>5, <2>1, <3>1 DEF Inv, Seen
    <3>3. x.session = it.session => x.seq <= it.seq
      BY <1>5, <1>8, <2>1, <3>1
    <3>4. <<x, it>> \in Order
      BY <1>1, <2>1, <3>1, <3>2, <3>3, LaterFollows
    <3> QED
      BY <1>1, <1>3, <1>4, <2>1, <3>1, <3>4, OrderKept
  <2>3. \A y \in ToSet(more) : <<it, y>> \in Order'
    <3> SUFFICES ASSUME NEW y \in ToSet(more) PROVE <<it, y>> \in Order'
      OBVIOUS
    <3>1. y \in accepted /\ y \in Item /\ y.seq \in Nat /\ y.session = it.session /\ y.seq >= nextSeq + 1
      BY <1>5, <1>6, <1>7
    <3>2. sessionOrder[it.session] <= sessionOrder[y.session] /\ it.seq <= y.seq
      BY <1>4, <1>5, <1>8, <3>1
    <3>3. <<it, y>> \in Order
      BY <1>1, <3>1, <3>2, LaterFollows
    <3> QED
      BY <1>1, <1>3, <1>4, <2>1, <3>1, <3>3, OrderKept
  <2>4. \A x \in ToSet(log), y \in ToSet(more) : <<x, y>> \in Order'
    <3>1. \A x \in ToSet(log), y \in buffer : <<x, y>> \in Order
      BY HeldSorted
    <3> QED
      BY <1>3, <1>7, <3>1, LogKept, Numbers
  <2>5. Pairs(log, Order')
    BY <1>3, LogKept
  <2>6. Pairs(more, Order')
    <3>1. \A i \in 1 .. m : more[i] \in accepted
      BY <1>6, <1>7
    <3> QED
      BY <1>3, <1>7, <3>1, LogKept DEF Pairs
  <2> HIDE DEF Order
  <2>7. Pairs(Append(log, it), Order')
    <3> DEFINE r == <<it>>
    <3>1. r \in Seq(Item) /\ ToSet(r) = {it} /\ Pairs(r, Order')
      BY <1>1, OneItem DEF Pairs
    <3> HIDE DEF r
    <3>2. Pairs(log \o r, Order')
      BY <1>8, <2>2, <2>5, <3>1, PairsJoined
    <3> QED
      BY <1>9, <3>2 DEF r
  <2>8. \A x \in ToSet(Append(log, it)), y \in ToSet(more) : <<x, y>> \in Order'
    BY <1>9, <2>3, <2>4
  <2>9. Pairs(Append(log, it) \o more, Order')
    <3> DEFINE q == Append(log, it)
    <3>1. q \in Seq(Item) /\ Pairs(q, Order') /\ \A x \in ToSet(q), y \in ToSet(more) : <<x, y>> \in Order'
      BY <1>9, <2>7, <2>8
    <3> HIDE DEF q
    <3>2. Pairs(q \o more, Order')
      BY <1>7, <2>6, <3>1, PairsJoined
    <3> QED
      BY <3>2 DEF q
  <2> QED
    BY <1>2, <2>9 DEF Pairs
<1>12. TypeOK' /\ EachOnce' /\ SendsNeverBlock'
  <2>1. Cardinality(buffer') = Cardinality(buffer) - m
    <3>1. buffer \cap ToSet(more) = ToSet(more) /\ IsFiniteSet(buffer)
      BY <1>7, HeldSorted
    <3>2. Cardinality(buffer \ ToSet(more)) = Cardinality(buffer) - Cardinality(buffer \cap ToSet(more))
      BY <3>1, FS_Difference
    <3> QED
      BY <1>2, <1>7, <3>1, <3>2
  <2>2. ToSet(log') \cup buffer' = accepted'
    <3>1. ToSet(log) \cup buffer = accepted
      BY DEF Inv, EachOnce
    <3> QED
      BY <1>2, <1>7, <1>9, <3>1
  <2>3. EachOnce' /\ SendsNeverBlock' /\ taken' \in 0 .. Len(log')
    <3>1. Len(log') \in Nat /\ Len(log') >= Len(log) /\ Cardinality(buffer') \in Nat
      BY <1>7, <1>8, <1>9, <2>1
    <3>2. Len(log') + Cardinality(buffer') = Len(log) + Cardinality(buffer) + 1
      BY <1>8, <1>9, <2>1
    <3> QED
      BY <1>2, <1>4, <1>10, <2>2, <3>1, <3>2, RoomForOne
  <2>4. nextSeq' \in {i.seq + 1 : i \in Inputs}
    <3>1. CASE m = 0
      <4>1. input.seq = nextSeq
        BY <1>1, <1>5
      <4> QED
        BY <1>8, <3>1, <4>1
    <3>2. CASE m > 0
      <4>1. more[m] \in Item /\ more[m].seq = nextSeq + m
        BY <1>6, <1>7, <1>8, <3>2
      <4>2. [session |-> more[m].session, seq |-> more[m].seq] \in Inputs
        BY <4>1, ItemFacts
      <4>3. nextSeq' = [session |-> more[m].session, seq |-> more[m].seq].seq + 1
        BY <1>8, <4>1
      <4> QED
        BY <4>2, <4>3
    <3> QED
      BY <1>8, <3>1, <3>2
  <2>5. buffer' \subseteq Item
    BY <1>2, <1>6
  <2> QED
    BY <1>1, <1>2, <1>9, <1>10, <2>3, <2>4, <2>5 DEF Inv, TypeOK
<1>13. Seen' /\ Timers'
  BY <1>2, <1>4 DEF Inv, Seen, Timers
<1>14. Turns'
  <2>1. \A x \in buffer' : x.session = current /\ x.seq >= nextSeq'
    BY <1>2, <1>6, <1>7, <1>8
  <2>2. \A x \in ToSet(more) : x.seq < nextSeq'
    <3> SUFFICES ASSUME NEW x \in ToSet(more) PROVE x.seq < nextSeq'
      OBVIOUS
    <3>1. PICK i \in 1 .. m : x = more[i]
      BY <1>7, LenProperties DEF ToSet
    <3> QED
      BY <1>7, <1>8, <3>1
  <2>3. \A x \in ToSet(log) : x.session = current => x.seq < nextSeq'
    <3> SUFFICES ASSUME NEW x \in ToSet(log), x.session = current PROVE x.seq < nextSeq'
      OBVIOUS
    <3>1. x.seq < nextSeq /\ x.seq \in Nat
      BY Numbers, ItemFacts DEF Inv, Turns
    <3> QED
      BY <1>8, <3>1
  <2>4. it.seq < nextSeq' /\ nextSeq' \in Nat /\ nextSeq' >= 1
    BY <1>5, <1>8
  <2> QED
    BY <1>2, <1>9, <2>1, <2>2, <2>3, <2>4 DEF Turns
<1>15. Skipped'
  <2> SUFFICES ASSUME NEW k \in 1 .. nextSeq' - 1
               PROVE  \E c \in accepted' : c.session = current /\ (c.seq = k \/ (c.seq > k /\ now >= c.at + Timeout))
    BY <1>2 DEF Skipped
  <2>1. CASE k \in 1 .. nextSeq - 1
    BY <1>2, <2>1 DEF Inv, Skipped
  <2>2. CASE k = nextSeq
    BY <1>2, <1>5, <2>2
  <2>3. CASE k > nextSeq
    <3>1. k - nextSeq \in 1 .. m /\ nextSeq + 1 + (k - nextSeq) - 1 = k
      BY <1>8, <2>3
    <3>2. more[k - nextSeq] \in accepted /\ more[k - nextSeq].session = current /\ more[k - nextSeq].seq = k
      BY <1>6, <1>7, <3>1
    <3> QED
      BY <1>2, <3>2
  <2> QED
    BY <1>8, <2>1, <2>2, <2>3
<1> QED
  BY <1>10, <1>11, <1>12, <1>13, <1>14, <1>15 DEF Inv

(* The invariant holds after an item is held.                               *)
LEMMA AheadKept ==
  ASSUME ReorderQueueAssumption, Inv, NEW input \in Inputs \ arrived, NEW it, Brings(input, it), ItemAhead(it)
  PROVE  Inv'
<1>1. /\ it \in Item /\ it.session \in Sessions /\ it.seq \in Nat /\ it.at = now
      /\ [session |-> it.session, seq |-> it.seq] = input
      /\ it \notin accepted /\ \A x \in accepted : ~(x.session = it.session /\ x.seq = it.seq)
      /\ arrived' \subseteq Inputs
  BY NewItem
<1>2. /\ Known(it) /\ Before(Expected, it) /\ buffer' = buffer \cup {it} /\ SetTimer(FALSE, TRUE)
      /\ accepted' = accepted \cup {it} /\ now' = now /\ sessionOrder' = sessionOrder /\ current' = current
      /\ nextSeq' = nextSeq /\ log' = log /\ taken' = taken /\ closed' = closed
  BY Zenon DEF ItemAhead, Brings
<1>3. Stable
  BY <1>2 DEF Stable
<1>4. /\ HasRoom /\ ~closed /\ sessionOrder[it.session] # Unseen /\ sessionOrder[it.session] \in 0 .. now
      /\ current \in Sessions /\ sessionOrder[current] \in 0 .. now
      /\ sessionOrder[it.session] <= sessionOrder[current]
      /\ (sessionOrder[it.session] = sessionOrder[current] => it.session = current)
  BY <1>1, <1>2, KnownIs
<1>5. it.session = current /\ it.seq > nextSeq
  <2>1. \/ sessionOrder[current] < sessionOrder[it.session]
        \/ sessionOrder[current] = sessionOrder[it.session] /\ nextSeq < it.seq
    BY <1>2 DEF Before, Expected
  <2>2. nextSeq \in Nat
    BY Numbers
  <2> QED
    BY <1>1, <1>4, <2>1, <2>2
<1>6. Admitted' /\ accepted' \subseteq Item /\ Cardinality(accepted') = Cardinality(accepted) + 1
  BY <1>2, <1>3, <1>4, ItemAdmitted
<1>7. Pairs(log, Order)'
  BY <1>2, <1>3, LogKept DEF Pairs
<1>8. /\ running' \subseteq 0 .. MaxTime + Timeout /\ timer' \in running' \cup {NoTimer}
      /\ \A d \in running' : d <= now' + Timeout
      /\ timer # NoTimer => timer' = timer
      /\ timer' # NoTimer /\ timer' <= now + Timeout
  BY <1>2, TimerIsSet
<1>9. TypeOK' /\ EachOnce' /\ SendsNeverBlock'
  <2>1. Cardinality(buffer') = Cardinality(buffer) + 1 /\ Cardinality(buffer) \in Nat
    <3>1. IsFiniteSet(buffer) /\ it \notin buffer /\ Cardinality(buffer) \in Nat
      BY <1>1, HeldSorted, Numbers
    <3> QED
      BY <1>2, <3>1, FS_AddElement
  <2>2. ToSet(log') \cup buffer' = accepted'
    <3>1. ToSet(log) \cup buffer = accepted
      BY DEF Inv, EachOnce
    <3> QED
      BY <1>2, <3>1
  <2>3. EachOnce' /\ SendsNeverBlock' /\ taken' \in 0 .. Len(log')
    <3>1. Len(log') \in Nat /\ Len(log') >= Len(log) /\ Cardinality(buffer') \in Nat
      BY <1>2, <2>1, Numbers
    <3>2. Len(log') + Cardinality(buffer') = Len(log) + Cardinality(buffer) + 1
      BY <1>2, <2>1, Numbers
    <3> QED
      BY <1>2, <1>4, <1>6, <2>2, <3>1, <3>2, RoomForOne
  <2> QED
    BY <1>1, <1>2, <1>6, <1>8, <2>3 DEF Inv, TypeOK
<1>10. Seen' /\ Skipped'
  BY <1>2 DEF Inv, Seen, Skipped
<1>11. Turns'
  <2>1. nextSeq \in Nat
    BY Numbers
  <2> QED
    BY <1>1, <1>2, <1>5, <2>1 DEF Inv, Turns
<1>12. Timers'
  <2>1. \A x \in buffer : timer # NoTimer /\ (timer <= x.at + Timeout \/ timer <= now)
    BY <1>4 DEF Inv, Timers
  <2> QED
    BY <1>1, <1>2, <1>4, <1>8, <2>1 DEF Timers
<1> QED
  BY <1>6, <1>7, <1>9, <1>10, <1>11, <1>12 DEF Inv

(* All that was sent or held is of a session that began earlier.            *)
LEMMA FirstKept ==
  ASSUME ReorderQueueAssumption, Inv, NEW input \in Inputs \ arrived, NEW it, Brings(input, it),
         SessionsApart(it.session), FirstOfSession(it)
  PROVE  Inv'
<1> DEFINE last == IF it.seq <= 1 THEN <<it>> ELSE <<>>
           held == Sorted(buffer)
<1>1. /\ it \in Item /\ it.session \in Sessions /\ it.seq \in Nat /\ it.at = now
      /\ [session |-> it.session, seq |-> it.seq] = input
      /\ it \notin accepted /\ \A x \in accepted : ~(x.session = it.session /\ x.seq = it.seq)
      /\ arrived' \subseteq Inputs
  BY NewItem
<1>2. /\ ~closed /\ HasRoom /\ sessionOrder[it.session] = Unseen
      /\ sessionOrder' = [sessionOrder EXCEPT ![it.session] = now] /\ current' = it.session
      /\ nextSeq' = (IF it.seq = 1 THEN 2 ELSE 1) /\ log' = log \o held \o last
      /\ buffer' = (IF it.seq <= 1 THEN {} ELSE {it}) /\ SetTimer(buffer # {}, it.seq > 1)
      /\ accepted' = accepted \cup {it} /\ taken' = taken /\ closed' = closed /\ now' = now
  BY Zenon DEF FirstOfSession, Brings
<1>3. now \in 0 .. MaxTime /\ now # Unseen /\ now >= 0 /\ now \in Nat
  BY Numbers DEF Unseen
<1>4. \A s \in Sessions : sessionOrder[s] < now
  BY <1>2 DEF SessionsApart
<1>5. sessionOrder'[it.session] = now /\ \A s \in Sessions \ {it.session} : sessionOrder'[s] = sessionOrder[s]
  BY <1>1, <1>2 DEF Inv, TypeOK
<1>6. Stable
  BY <1>2, <1>5 DEF Stable
<1>7. Admitted' /\ accepted' \subseteq Item /\ Cardinality(accepted') = Cardinality(accepted) + 1
  <2>1. sessionOrder'[it.session] \in 0 .. now
    BY <1>3, <1>5
  <2> QED
    BY <1>2, <1>6, <2>1, ItemAdmitted
<1>8. \A x \in accepted : /\ x \in Item /\ x.session \in Sessions \ {it.session}
                          /\ sessionOrder[x.session] # Unseen
  BY <1>2, Numbers, ItemFacts DEF Inv, Admitted
<1>9. /\ held \in Seq(Item) /\ Len(held) = Cardinality(buffer) /\ Cardinality(buffer) \in Nat
      /\ ToSet(held) = buffer /\ Pairs(held, Order) /\ \A x \in ToSet(log), y \in buffer : <<x, y>> \in Order
      /\ \A i \in 1 .. Cardinality(buffer) : held[i] \in buffer
  BY HeldSorted
<1>10. /\ last \in Seq(Item) /\ Len(last) = (IF it.seq <= 1 THEN 1 ELSE 0)
       /\ ToSet(last) = (IF it.seq <= 1 THEN {it} ELSE {}) /\ Pairs(last, Order')
  <2>1. CASE it.seq <= 1
    BY <1>1, <2>1, OneItem DEF Pairs
  <2>2. CASE ~(it.seq <= 1)
    <3>1. last = <<>>
      BY <2>2
    <3>2. <<>> \in Seq(Item) /\ Len(<<>>) = 0 /\ ToSet(<<>>) = {}
      BY DEF ToSet
    <3> QED
      BY <2>2, <3>1, <3>2 DEF Pairs
  <2> QED
    BY <2>1, <2>2
<1>11. log \in Seq(Item) /\ Len(log) \in Nat /\ ToSet(log) \subseteq accepted /\ buffer \subseteq accepted
  BY Numbers
<1> HIDE DEF held, last
<1> DEFINE sent == log \o held
<1>12. sent \in Seq(Item) /\ Len(sent) = Len(log) + Cardinality(buffer) /\ ToSet(sent) = ToSet(log) \cup buffer
  BY <1>9, <1>11, Joined
<1>13. Pairs(sent, Order')
  <2>1. \A x, y \in accepted : <<x, y>> \in Order => <<x, y>> \in Order'
    BY <1>6, LogKept
  <2>2. Pairs(log, Order')
    BY <1>6, LogKept
  <2>3. Pairs(held, Order')
    BY <1>9, <1>11, <2>1 DEF Pairs
  <2>4. \A x \in ToSet(log), y \in ToSet(held) : <<x, y>> \in Order'
    BY <1>9, <1>11, <2>1
  <2> HIDE DEF Order
  <2> QED
    BY <1>9, <1>11, <2>2, <2>3, <2>4, PairsJoined
<1>14. log' = sent \o last
  BY <1>2
<1> HIDE DEF sent
<1>15. /\ log' \in Seq(Item) /\ Len(log') = Len(log) + Cardinality(buffer) + Len(last)
       /\ ToSet(log') = ToSet(log) \cup buffer \cup ToSet(last)
  <2>1. sent \in Seq(Item) /\ last \in Seq(Item)
    BY <1>10, <1>12
  <2>2. /\ sent \o last \in Seq(Item) /\ Len(sent \o last) = Len(sent) + Len(last)
        /\ ToSet(sent \o last) = ToSet(sent) \cup ToSet(last)
    BY <2>1, Joined
  <2> QED
    BY <1>12, <1>14, <2>2
<1>16. Pairs(log, Order)'
  <2>1. \A x \in accepted : <<x, it>> \in Order'
    <3> SUFFICES ASSUME NEW x \in accepted PROVE <<x, it>> \in Order'
      OBVIOUS
    <3>1. x \in Item /\ x.session \in Sessions /\ x.session # it.session
      BY <1>8
    <3>2. sessionOrder'[x.session] < now /\ sessionOrder'[x.session] \in Int
      BY <1>4, <1>5, <3>1, Numbers
    <3>3. Follows(x, it)'
      BY <1>3, <1>5, <3>1, <3>2 DEF Follows
    <3> QED
      BY <1>1, <3>1, <3>3 DEF Order, Item
  <2>2. \A x \in ToSet(sent), y \in ToSet(last) : <<x, y>> \in Order'
    BY <1>10, <1>11, <1>12, <2>1
  <2> HIDE DEF Order
  <2>3. Pairs(sent \o last, Order')
    BY <1>10, <1>12, <1>13, <2>2, PairsJoined
  <2> QED
    BY <1>14, <2>3 DEF Pairs
<1>17. /\ running' \subseteq 0 .. MaxTime + Timeout /\ timer' \in running' \cup {NoTimer}
       /\ \A d \in running' : d <= now' + Timeout
       /\ it.seq > 1 => timer' # NoTimer /\ timer' <= now + Timeout
  <2>1. (buffer # {}) \in BOOLEAN /\ (it.seq > 1) \in BOOLEAN
    OBVIOUS
  <2> QED
    BY <1>2, <2>1, TimerIsSet
<1>18. TypeOK' /\ EachOnce' /\ SendsNeverBlock'
  <2>1. Cardinality(buffer') = IF it.seq <= 1 THEN 0 ELSE 1
    BY <1>2, FS_EmptySet, FS_Singleton
  <2>2. ToSet(log') \cup buffer' = accepted'
    <3>1. ToSet(log) \cup buffer = accepted
      BY DEF Inv, EachOnce
    <3> QED
      BY <1>2, <1>10, <1>15, <3>1
  <2>3. EachOnce' /\ SendsNeverBlock' /\ taken' \in 0 .. Len(log')
    <3>1. Len(log') \in Nat /\ Len(log') >= Len(log) /\ Cardinality(buffer') \in Nat
      BY <1>9, <1>10, <1>11, <1>15, <2>1
    <3>2. Len(log') + Cardinality(buffer') = Len(log) + Cardinality(buffer) + 1
      BY <1>9, <1>10, <1>11, <1>15, <2>1
    <3> QED
      BY <1>2, <1>7, <2>2, <3>1, <3>2, RoomForOne
  <2>4. nextSeq' \in {1} \cup {i.seq + 1 : i \in Inputs}
    <3>1. CASE it.seq = 1
      <4>1. input.seq = 1
        BY <1>1, <3>1
      <4> QED
        BY <1>2, <3>1, <4>1
    <3> QED
      BY <1>2, <3>1
  <2>5. sessionOrder' \in [Sessions -> 0 .. MaxTime \cup {Unseen}]
    BY <1>2, <1>3 DEF Inv, TypeOK
  <2> QED
    BY <1>1, <1>2, <1>3, <1>7, <1>15, <1>17, <2>3, <2>4, <2>5 DEF Inv, TypeOK
<1>19. Seen'
  <2>1. \A s \in Sessions : sessionOrder'[s] <= now /\ (s # it.session => sessionOrder'[s] < now)
    BY <1>3, <1>4, <1>5, Numbers
  <2>2. \A s, t \in Sessions : s # t /\ sessionOrder'[s] # Unseen => sessionOrder'[s] # sessionOrder'[t]
    <3> SUFFICES ASSUME NEW s \in Sessions, NEW t \in Sessions, s # t, sessionOrder'[s] # Unseen
                 PROVE  sessionOrder'[s] # sessionOrder'[t]
      OBVIOUS
    <3>1. CASE s = it.session
      BY <1>5, <2>1, <3>1, <1>3
    <3>2. CASE t = it.session
      BY <1>5, <2>1, <3>2, <1>3
    <3>3. CASE s # it.session /\ t # it.session
      BY <1>5, <3>3 DEF Inv, Seen
    <3> QED
      BY <3>1, <3>2, <3>3
  <2>3. it.session # NoSession
    BY <1>1 DEF ReorderQueueAssumption
  <2> QED
    BY <1>2, <1>3, <1>5, <2>1, <2>2, <2>3 DEF Seen
<1>20. Turns'
  <2>1. nextSeq' \in Nat /\ nextSeq' >= 1
    BY <1>2
  <2>2. \A x \in buffer' : x.session = current' /\ x.seq >= nextSeq'
    BY <1>1, <1>2
  <2>3. \A x \in ToSet(log') : x.session = current' => x.seq < nextSeq'
    <3> SUFFICES ASSUME NEW x \in ToSet(log'), x.session = it.session PROVE x.seq < nextSeq'
      BY <1>2
    <3>1. x = it /\ it.seq <= 1
      BY <1>8, <1>10, <1>11, <1>15
    <3> QED
      BY <1>1, <1>2, <3>1
  <2> QED
    BY <2>1, <2>2, <2>3 DEF Turns
<1>21. Skipped'
  <2> SUFFICES ASSUME NEW k \in 1 .. nextSeq' - 1
               PROVE  \E c \in accepted' : c.session = current' /\ c.seq = k
    BY <1>2 DEF Skipped
  <2>1. it.seq = 1 /\ k = 1
    BY <1>2
  <2> QED
    BY <1>2, <2>1
<1>22. Timers'
  <2>1. \A x \in buffer' : x = it /\ it.seq > 1
    BY <1>1, <1>2
  <2> QED
    BY <1>1, <1>2, <1>17, <2>1 DEF Timers
<1> QED
  BY <1>7, <1>16, <1>18, <1>19, <1>20, <1>21, <1>22 DEF Inv

(* Items held are in the order of their numbers.                            *)
LEMMA HeldOrder ==
  ASSUME ReorderQueueAssumption, Inv
  PROVE  /\ \A x \in buffer : /\ x \in accepted /\ x \in Item /\ x.session \in Sessions /\ x.session = current
                              /\ x.seq \in Nat /\ x.seq >= nextSeq /\ x.at \in Nat /\ x.at <= now
         /\ \A x, y \in buffer : Before(x, y) <=> x.seq < y.seq
<1>1. \A x \in buffer : /\ x \in accepted /\ x \in Item /\ x.session \in Sessions /\ x.session = current
                        /\ x.seq \in Nat /\ x.seq >= nextSeq /\ x.at \in Nat /\ x.at <= now
  <2> SUFFICES ASSUME NEW x \in buffer
               PROVE  /\ x \in accepted /\ x \in Item /\ x.session \in Sessions /\ x.session = current
                      /\ x.seq \in Nat /\ x.seq >= nextSeq /\ x.at \in Nat /\ x.at <= now
    OBVIOUS
  <2>1. x \in accepted /\ x \in Item
    BY Numbers
  <2>2. x.session \in Sessions /\ x.seq \in Nat /\ x.at \in Nat
    BY <2>1, ItemFacts
  <2> QED
    BY <2>1, <2>2 DEF Inv, Turns, Admitted
<1>2. \A x, y \in buffer : Before(x, y) <=> x.seq < y.seq
  BY <1>1, Numbers DEF Before
<1> QED
  BY <1>1, <1>2

(* The next number after a flush is past all that was sent, and not past    *)
(* what is left.                                                            *)
LEMMA FlushNumbers ==
  ASSUME ReorderQueueAssumption, Inv, NEW d, OnTimeout(d)
  PROVE  /\ Flushed \in SUBSET buffer /\ Left = buffer \ Flushed
         /\ nextSeq' \in Nat /\ nextSeq' >= nextSeq
         /\ nextSeq' = nextSeq \/ \E f \in Flushed : nextSeq' = f.seq + 1
         /\ \A f \in Flushed : f.seq < nextSeq'
         /\ \A x \in Left : x.seq >= nextSeq'
         /\ \A f \in Flushed : \E c \in buffer : c.seq >= f.seq /\ now >= c.at + Timeout
<1> DEFINE F == Flushed
           N == {nextSeq} \cup {b.seq + 1 : b \in {f \in F : f.session = current}}
           held == Sorted(F)
           n == Cardinality(F)
<1>1. F \in SUBSET buffer /\ Left = buffer \ F /\ nextSeq' = Max(N) /\ nextSeq \in Nat
  BY Numbers DEF OnTimeout, Left, Flushed
<1>2. \A x \in buffer : x.session = current /\ x.seq \in Nat /\ x.seq >= nextSeq /\ x.at \in Nat
  BY HeldOrder
<1>3. \A f \in F : \E c \in buffer : c.seq >= f.seq /\ now >= c.at + Timeout /\ c \in TimedOut
  <2> SUFFICES ASSUME NEW f \in F PROVE \E c \in buffer : c.seq >= f.seq /\ now >= c.at + Timeout /\ c \in TimedOut
    OBVIOUS
  <2>1. PICK c \in TimedOut : ~Before(c, f)
    BY DEF Flushed
  <2>2. c \in buffer /\ f \in buffer /\ now - c.at >= Timeout
    BY <1>1, <2>1 DEF TimedOut
  <2>3. ~(c.seq < f.seq)
    BY <2>1, <2>2, HeldOrder
  <2>4. c.seq \in Nat /\ f.seq \in Nat /\ c.at \in Nat /\ now \in Nat /\ Timeout \in Nat
    BY <1>2, <2>2, Numbers
  <2>5. c.seq >= f.seq /\ now >= c.at + Timeout
    BY <2>2, <2>3, <2>4
  <2> QED
    BY <2>1, <2>2, <2>5
<1>4. \A x \in Left, c \in TimedOut : c.seq < x.seq
  <2> SUFFICES ASSUME NEW x \in Left, NEW c \in TimedOut PROVE c.seq < x.seq
    OBVIOUS
  <2>1. x \in buffer /\ c \in buffer /\ Before(c, x)
    BY DEF Left, Flushed, TimedOut
  <2> QED
    BY <2>1, HeldOrder
<1>5. /\ held \in Seq(Item) /\ n \in Nat /\ ToSet(held) = F /\ Len(held) = n
      /\ \A i \in 1 .. n : held[i] \in F
      /\ \A i, j \in 1 .. n : i < j => held[i].seq < held[j].seq
  BY <1>1, HeldSorted
<1> HIDE DEF F, held, n
<1>6. \E top \in Nat : \A f \in F : f.seq <= top
  <2>1. CASE n = 0
    <3>1. F = {}
      BY <1>5, <2>1, LenProperties DEF ToSet
    <3> QED
      BY <3>1
  <2>2. CASE n > 0
    <3>1. n \in 1 .. n /\ held[n].seq \in Nat
      BY <1>1, <1>2, <1>5, <2>2
    <3>2. ASSUME NEW f \in F PROVE f.seq <= held[n].seq
      <4>1. PICK i \in 1 .. n : f = held[i]
        BY <1>5, LenProperties DEF ToSet
      <4>2. i = n \/ i < n
        BY <1>5
      <4>3. f.seq \in Nat
        BY <1>1, <1>2
      <4>4. i < n => held[i].seq < held[n].seq
        BY <1>5, <3>1
      <4> QED
        BY <3>1, <4>1, <4>2, <4>3, <4>4
    <3> QED
      BY <3>1, <3>2
  <2> QED
    BY <1>5, <2>1, <2>2
<1>7. N \in SUBSET Nat /\ N # {} /\ nextSeq \in N /\ \A f \in F : f.seq + 1 \in N
  BY <1>1, <1>2
<1>8. \E top \in Nat : \A x \in N : x <= top
  <2>1. PICK top \in Nat : \A f \in F : f.seq <= top
    BY <1>6
  <2>2. \A x \in N : x = nextSeq \/ \E f \in F : x = f.seq + 1
    OBVIOUS
  <2>3. nextSeq + top + 1 \in Nat /\ \A f \in F : f.seq + 1 <= nextSeq + top + 1
    BY <1>1, <1>2, <2>1
  <2>4. nextSeq <= nextSeq + top + 1
    BY <1>1
  <2>5. \A x \in N : x <= nextSeq + top + 1
    BY <2>2, <2>3, <2>4
  <2> QED
    BY <2>3, <2>5
<1>9. \A x \in N : x = nextSeq \/ \E f \in F : x = f.seq + 1
  OBVIOUS
<1> HIDE DEF N
<1>10. nextSeq' \in N /\ \A x \in N : x <= nextSeq'
  BY <1>1, <1>7, <1>8, MaxIs
<1>11. nextSeq' \in Nat /\ nextSeq' >= nextSeq /\ \A f \in F : f.seq < nextSeq'
  <2>1. nextSeq' \in Nat /\ nextSeq' >= nextSeq
    BY <1>1, <1>7, <1>10
  <2>2. \A f \in F : f.seq + 1 <= nextSeq' /\ f.seq \in Nat
    BY <1>1, <1>2, <1>7, <1>10
  <2> QED
    BY <2>1, <2>2
<1>12. nextSeq' = nextSeq \/ \E f \in F : nextSeq' = f.seq + 1
  BY <1>9, <1>10
<1>13. \A x \in Left : x.seq >= nextSeq'
  <2> SUFFICES ASSUME NEW x \in Left PROVE x.seq >= nextSeq'
    OBVIOUS
  <2>1. x \in buffer /\ x.seq \in Nat
    BY <1>1, <1>2
  <2>2. CASE nextSeq' = nextSeq
    BY <1>2, <2>1, <2>2
  <2>3. ASSUME NEW f \in F, nextSeq' = f.seq + 1 PROVE x.seq >= nextSeq'
    <3>1. PICK c \in buffer : c.seq >= f.seq /\ c \in TimedOut
      BY <1>3
    <3>2. c.seq < x.seq /\ c.seq \in Nat /\ f.seq \in Nat
      BY <1>1, <1>2, <1>4, <3>1
    <3> QED
      BY <2>1, <2>3, <3>1, <3>2
  <2> QED
    BY <1>12, <2>2, <2>3
<1> QED
  BY <1>1, <1>3, <1>11, <1>12, <1>13 DEF F

(* The timer set for what is left runs no later than its items' timeouts.   *)
LEMMA NextDueIs ==
  ASSUME ReorderQueueAssumption, Inv, NEW S \in SUBSET buffer, S # {}, Left = S
  PROVE  /\ NextDue \in 0 .. MaxTime + Timeout /\ NextDue <= now + Timeout /\ NextDue # NoTimer
         /\ \A x \in S : NextDue <= x.at + Timeout \/ NextDue <= now
<1> DEFINE A == {b.at : b \in S}
           a == Min(A)
           D == {now, a + Timeout}
<1>1. /\ \A x \in S : x.at \in Nat /\ x.at <= now
      /\ now \in Nat /\ now <= MaxTime /\ MaxTime \in Nat /\ Timeout \in Nat
  BY HeldOrder, Numbers
<1>2. A \in SUBSET Nat /\ A # {} /\ \A x \in S : x.at \in A
  BY <1>1
<1>3. \A y \in A : y \in Nat /\ y <= now
  BY <1>1
<1>4. NextDue = Max(D)
  BY Zenon DEF NextDue
<1> HIDE DEF A
<1>5. a \in A /\ \A y \in A : a <= y
  BY <1>2, MinIs
<1> HIDE DEF a
<1>6. a \in Nat /\ a <= now /\ \A x \in S : a <= x.at
  BY <1>2, <1>3, <1>5
<1>7. D \in SUBSET Nat /\ D # {} /\ now + Timeout \in Nat /\ \A y \in D : y <= now + Timeout
  BY <1>1, <1>6
<1>8. \A y \in D : y = now \/ y = a + Timeout
  OBVIOUS
<1> HIDE DEF D
<1>9. NextDue \in D
  BY <1>4, <1>7, MaxIs
<1>10. NextDue \in Nat /\ NextDue <= now + Timeout
  BY <1>7, <1>9
<1>11. NextDue \in 0 .. MaxTime + Timeout /\ NextDue # NoTimer
  BY <1>1, <1>10 DEF NoTimer
<1>12. \A x \in S : NextDue <= x.at + Timeout \/ NextDue <= now
  BY <1>1, <1>6, <1>8, <1>9
<1> QED
  BY <1>10, <1>11, <1>12

(* The invariant holds after a flush.                                       *)
LEMMA TimeoutKept ==
  ASSUME ReorderQueueAssumption, Inv, NEW d \in running, OnTimeout(d)
  PROVE  Inv'
<1> DEFINE F == Flushed
           held == Sorted(F)
<1>1. /\ ~closed /\ log' = log \o held /\ buffer' = Left /\ timer' = NextTimer
      /\ running' = (running \ {d}) \cup (IF Left = {} THEN {} ELSE {NextDue})
      /\ sessionOrder' = sessionOrder /\ current' = current /\ taken' = taken /\ closed' = closed
      /\ accepted' = accepted /\ arrived' = arrived /\ now' = now
  BY Zenon DEF OnTimeout
<1>2. /\ F \in SUBSET buffer /\ Left = buffer \ F
      /\ nextSeq' \in Nat /\ nextSeq' >= nextSeq
      /\ nextSeq' = nextSeq \/ \E f \in F : nextSeq' = f.seq + 1
      /\ \A f \in F : f.seq < nextSeq'
      /\ \A x \in Left : x.seq >= nextSeq'
      /\ \A f \in F : \E c \in buffer : c.seq >= f.seq /\ now >= c.at + Timeout
  BY FlushNumbers
<1>3. /\ held \in Seq(Item) /\ Len(held) = Cardinality(F) /\ Cardinality(F) \in Nat /\ ToSet(held) = F
      /\ \A i \in 1 .. Cardinality(F) : held[i] \in F
      /\ Pairs(held, Order) /\ \A x \in ToSet(log), y \in F : <<x, y>> \in Order
  BY <1>2, HeldSorted
<1>4. \A x \in buffer : /\ x \in accepted /\ x \in Item /\ x.session \in Sessions /\ x.session = current
                        /\ x.seq \in Nat /\ x.seq >= nextSeq
  BY HeldOrder
<1> HIDE DEF F, held
<1>5. log \in Seq(Item) /\ Len(log) \in Nat /\ ToSet(log) \subseteq accepted /\ nextSeq \in Nat
  BY Numbers
<1>6. log' \in Seq(Item) /\ Len(log') = Len(log) + Cardinality(F) /\ ToSet(log') = ToSet(log) \cup F
  <2>1. log \in Seq(Item) /\ held \in Seq(Item)
    BY <1>3, <1>5
  <2>2. /\ log \o held \in Seq(Item) /\ Len(log \o held) = Len(log) + Len(held)
        /\ ToSet(log \o held) = ToSet(log) \cup ToSet(held)
    BY <2>1, Joined
  <2> QED
    BY <1>1, <1>3, <2>2
<1>7. Pairs(log, Order)'
  <2>1. Order' = Order
    BY <1>1 DEF Order, Follows, CameTooLate, Item
  <2>2. Pairs(log, Order) /\ \A x \in ToSet(log), y \in ToSet(held) : <<x, y>> \in Order
    BY <1>3 DEF Inv
  <2> HIDE DEF Order
  <2>3. Pairs(log \o held, Order)
    BY <1>3, <1>5, <2>2, PairsJoined
  <2> QED
    BY <1>1, <2>1, <2>3 DEF Pairs
<1>8. running' \subseteq 0 .. MaxTime + Timeout /\ timer' \in running' \cup {NoTimer} /\ Timers'
  <2>1. running \subseteq 0 .. MaxTime + Timeout /\ \A e \in running : e <= now + Timeout
    BY DEF Inv, TypeOK, Timers
  <2>2. CASE Left = {}
    BY <1>1, <2>1, <2>2 DEF NextTimer, Timers
  <2>3. CASE Left # {}
    <3>1. /\ NextDue \in 0 .. MaxTime + Timeout /\ NextDue <= now + Timeout /\ NextDue # NoTimer
          /\ \A x \in Left : NextDue <= x.at + Timeout \/ NextDue <= now
      BY <1>2, <2>3, NextDueIs
    <3>2. timer' = NextDue /\ running' = (running \ {d}) \cup {NextDue}
      BY <1>1, <2>3 DEF NextTimer
    <3> QED
      BY <1>1, <2>1, <3>1, <3>2 DEF Timers
  <2> QED
    BY <2>2, <2>3
<1>9. EachOnce' /\ SendsNeverBlock' /\ taken' \in 0 .. Len(log')
  <2>1. IsFiniteSet(buffer) /\ Cardinality(buffer) \in Nat
    BY HeldSorted
  <2>2. Cardinality(buffer') = Cardinality(buffer) - Cardinality(F)
    <3>1. buffer \cap F = F
      BY <1>2
    <3>2. Cardinality(buffer \ F) = Cardinality(buffer) - Cardinality(buffer \cap F)
      BY <2>1, FS_Difference
    <3> QED
      BY <1>1, <1>2, <3>1, <3>2
  <2>3. ToSet(log') \cup buffer' = accepted'
    <3>1. ToSet(log) \cup buffer = accepted
      BY DEF Inv, EachOnce
    <3> QED
      BY <1>1, <1>2, <1>6, <3>1
  <2>4. Cardinality(accepted) = Len(log) + Cardinality(buffer) /\ taken \in 0 .. Len(log)
        /\ Cardinality(buffer) + (Len(log) - taken) <= Cap
    BY DEF Inv, EachOnce, TypeOK, SendsNeverBlock, Waiting
  <2>5. Cardinality(accepted') = Len(log') + Cardinality(buffer')
    BY <1>1, <1>3, <1>5, <1>6, <2>1, <2>2, <2>4
  <2>6. Cardinality(buffer') + (Len(log') - taken') <= Cap /\ taken' \in 0 .. Len(log')
    <3>1. taken \in Nat /\ Cap \in Nat
      BY Numbers
    <3> QED
      BY <1>1, <1>3, <1>5, <1>6, <2>1, <2>2, <2>4, <3>1
  <2> QED
    BY <2>3, <2>5, <2>6 DEF EachOnce, SendsNeverBlock, Waiting
<1>10. TypeOK'
  <2>1. nextSeq' \in {1} \cup {i.seq + 1 : i \in Inputs}
    <3>1. CASE nextSeq' = nextSeq
      BY <3>1 DEF Inv, TypeOK
    <3>2. ASSUME NEW f \in F, nextSeq' = f.seq + 1 PROVE nextSeq' \in {i.seq + 1 : i \in Inputs}
      <4>1. [session |-> f.session, seq |-> f.seq] \in Inputs
        BY <1>2, <1>4, ItemFacts
      <4>2. nextSeq' = [session |-> f.session, seq |-> f.seq].seq + 1
        BY <3>2
      <4> QED
        BY <4>1, <4>2
    <3> QED
      BY <1>2, <3>1, <3>2
  <2>2. buffer' \subseteq Item
    BY <1>1, <1>2, <1>4
  <2> QED
    BY <1>1, <1>6, <1>8, <1>9, <2>1, <2>2 DEF Inv, TypeOK
<1>11. Seen'
  <2>1. current = NoSession => nextSeq' = nextSeq
    BY <1>2, <1>4 DEF ReorderQueueAssumption
  <2> QED
    BY <1>1, <2>1 DEF Inv, Seen
<1>12. Admitted'
  BY <1>1 DEF Inv, Admitted
<1>13. Turns'
  <2>1. \A x \in buffer' : x.session = current' /\ x.seq >= nextSeq'
    BY <1>1, <1>2, <1>4
  <2>2. \A x \in ToSet(log) : x.session = current => x.seq < nextSeq'
    <3> SUFFICES ASSUME NEW x \in ToSet(log), x.session = current PROVE x.seq < nextSeq'
      OBVIOUS
    <3>1. x.seq < nextSeq /\ x.seq \in Nat
      BY Numbers, ItemFacts DEF Inv, Turns
    <3> QED
      BY <1>2, <1>5, <3>1
  <2>3. nextSeq' >= 1
    BY <1>2, <1>5 DEF Inv, Turns
  <2> QED
    BY <1>1, <1>2, <1>6, <2>1, <2>2, <2>3 DEF Turns
<1>14. Skipped'
  <2> SUFFICES ASSUME NEW k \in 1 .. nextSeq' - 1
               PROVE  \E c \in accepted : c.session = current /\ (c.seq = k \/ (c.seq > k /\ now >= c.at + Timeout))
    BY <1>1 DEF Skipped
  <2>1. CASE k \in 1 .. nextSeq - 1
    BY <2>1 DEF Inv, Skipped
  <2>2. ASSUME NEW f \in F, nextSeq' = f.seq + 1
        PROVE  \E c \in accepted : c.session = current /\ (c.seq = k \/ (c.seq > k /\ now >= c.at + Timeout))
    <3>1. PICK c \in buffer : c.seq >= f.seq /\ now >= c.at + Timeout
      BY <1>2
    <3>2. c \in accepted /\ c.session = current /\ c.seq \in Nat /\ f.seq \in Nat
      BY <1>2, <1>4, <3>1
    <3>3. c.seq = k \/ c.seq > k
      BY <2>2, <3>1, <3>2
    <3> QED
      BY <3>1, <3>2, <3>3
  <2> QED
    BY <1>2, <2>1, <2>2
<1> QED
  BY <1>7, <1>8, <1>9, <1>10, <1>11, <1>12, <1>13, <1>14 DEF Inv

-----------------------------------------------------------------------------
(* Closing, receiving and time                                              *)

(* The invariant is kept by the steps that send nothing.                    *)
LEMMA OthersKept ==
  ASSUME ReorderQueueAssumption, Inv,
         (\E d \in running : OnTimeoutClosed(d)) \/ Close \/ Take \/ Tick \/ UNCHANGED vars
  PROVE  Inv'
<1>1. Order' = Order
  <2>1. sessionOrder' = sessionOrder /\ accepted' = accepted
    BY DEF OnTimeoutClosed, Close, Take, Tick, vars
  <2> QED
    BY <2>1 DEF Order, Follows, CameTooLate, Item
<1> HIDE DEF Order
<1>2. ASSUME NEW d \in running, OnTimeoutClosed(d) PROVE Inv'
  BY <1>1, <1>2 DEF OnTimeoutClosed, Inv, TypeOK, Seen, Admitted, Turns, Skipped, Timers, Pairs, EachOnce,
                    SendsNeverBlock, Waiting
<1>3. CASE Close
  <2>1. /\ closed' = TRUE /\ SetTimer(TRUE, FALSE) /\ sessionOrder' = sessionOrder /\ current' = current
        /\ nextSeq' = nextSeq /\ buffer' = buffer /\ log' = log /\ taken' = taken /\ accepted' = accepted
        /\ arrived' = arrived /\ now' = now
    BY <1>3 DEF Close
  <2>2. /\ running' \subseteq 0 .. MaxTime + Timeout /\ timer' = NoTimer
        /\ \A d \in running' : d <= now' + Timeout
    BY <2>1, TimerIsSet
  <2> QED
    BY <1>1, <2>1, <2>2 DEF Inv, TypeOK, Seen, Admitted, Turns, Skipped, Timers, Pairs, EachOnce,
                            SendsNeverBlock, Waiting
<1>4. CASE Take
  <2>1. taken' \in 0 .. Len(log) /\ SendsNeverBlock'
    <3>1. Cardinality(buffer) \in Nat /\ taken \in Nat /\ Len(log) \in Nat /\ Cap \in Nat
      BY HeldSorted, Numbers
    <3>2. taken' = taken + 1 /\ Len(log) - taken > 0 /\ log' = log /\ buffer' = buffer
      BY <1>4 DEF Take, Waiting
    <3>3. Cardinality(buffer) + (Len(log) - taken) <= Cap
      BY DEF Inv, SendsNeverBlock, Waiting
    <3> QED
      BY <3>1, <3>2, <3>3 DEF SendsNeverBlock, Waiting
  <2> QED
    BY <1>1, <1>4, <2>1 DEF Take, Inv, TypeOK, Seen, Admitted, Turns, Skipped, Timers, Pairs, EachOnce
<1>5. CASE Tick
  <2>1. /\ now' = now + 1 /\ now < MaxTime /\ sessionOrder' = sessionOrder /\ current' = current
        /\ nextSeq' = nextSeq /\ buffer' = buffer /\ log' = log /\ taken' = taken /\ timer' = timer
        /\ running' = running /\ closed' = closed /\ accepted' = accepted /\ arrived' = arrived
    BY <1>5 DEF Tick
  <2>2. now \in Nat /\ MaxTime \in Nat /\ Timeout \in Nat /\ now' \in 0 .. MaxTime
    BY <2>1, Numbers
  <2>3. TypeOK' /\ Turns' /\ Pairs(log, Order)' /\ EachOnce' /\ SendsNeverBlock'
    BY <1>1, <2>1, <2>2 DEF Inv, TypeOK, Turns, Pairs, EachOnce, SendsNeverBlock, Waiting
  <2>4. Seen'
    BY <2>1, <2>2, Numbers DEF Inv, Seen
  <2>5. Admitted' /\ Skipped'
    <3>1. \A x \in accepted : x.at \in Nat
      <4> SUFFICES ASSUME NEW x \in accepted PROVE x.at \in Nat
        OBVIOUS
      <4>1. x \in Item
        BY Numbers
      <4> QED
        BY <4>1, ItemFacts
    <3>2. Admitted'
      BY <2>1, <2>2, <3>1 DEF Inv, Admitted
    <3>3. \A c \in accepted : now >= c.at + Timeout => now' >= c.at + Timeout
      BY <2>1, <2>2, <3>1
    <3>4. Skipped'
      BY <2>1, <3>3 DEF Inv, Skipped
    <3> QED
      BY <3>2, <3>4
  <2>6. Timers'
    <3>1. \A d \in running : d \in Int
      BY Numbers
    <3>2. \A d \in running : d <= now' + Timeout
      BY <2>1, <2>2, <3>1 DEF Inv, Timers
    <3>3. timer \in Int /\ (timer <= now => timer <= now')
      BY <2>1, <2>2, Numbers
    <3> QED
      BY <2>1, <3>2, <3>3 DEF Inv, Timers
  <2> QED
    BY <2>3, <2>4, <2>5, <2>6 DEF Inv
<1>6. CASE UNCHANGED vars
  BY <1>1, <1>6 DEF vars, Inv, TypeOK, Seen, Admitted, Turns, Skipped, Timers, Pairs, EachOnce,
                    SendsNeverBlock, Waiting
<1> QED
  BY <1>2, <1>3, <1>4, <1>5, <1>6

-----------------------------------------------------------------------------
(* The invariant                                                            *)

(* It holds in the beginning.                                               *)
LEMMA InitInv ==
  ASSUME ReorderQueueAssumption, Init
  PROVE  Inv
<1>1. Len(<<>>) = 0 /\ ToSet(<<>>) = {} /\ <<>> \in Seq(Item)
  BY DEF ToSet
<1>2. IsFiniteSet({}) /\ Cardinality({}) = 0
  BY FS_EmptySet
<1>3. MaxTime \in Nat /\ Timeout \in Nat /\ Cap \in Nat
  BY DEF ReorderQueueAssumption
<1>4. TypeOK
  <2>1. sessionOrder \in [Sessions -> 0 .. MaxTime \cup {Unseen}]
    BY DEF Init
  <2>2. nextSeq \in {1} \cup {i.seq + 1 : i \in Inputs} /\ current \in Sessions \cup {NoSession}
    BY DEF Init
  <2>3. log \in Seq(Item) /\ taken \in 0 .. Len(log) /\ now \in 0 .. MaxTime
    BY <1>1, <1>3 DEF Init
  <2> QED
    BY <2>1, <2>2, <2>3 DEF Init, TypeOK
<1>5. Seen /\ Admitted /\ Turns /\ Timers
  BY <1>1, <1>2 DEF Init, Seen, Admitted, Turns, Timers, Unseen, NoTimer
<1>6. Skipped /\ Pairs(log, Order)
  BY <1>1 DEF Init, Skipped, Pairs
<1>7. EachOnce /\ SendsNeverBlock
  BY <1>1, <1>2, <1>3 DEF Init, EachOnce, SendsNeverBlock, Waiting
<1> QED
  BY <1>4, <1>5, <1>6, <1>7 DEF Inv

(* Every step keeps it.                                                     *)
LEMMA StepInv ==
  ASSUME ReorderQueueAssumption, Inv, [Next]_vars
  PROVE  Inv'
<1>1. ASSUME NEW input \in Inputs, QueueItem(input) PROVE Inv'
  <2> DEFINE it == [session |-> input.session, seq |-> input.seq, at |-> now]
  <2>1. input \in Inputs \ arrived /\ SessionsApart(input.session) /\ Brings(input, it)
    BY <1>1 DEF QueueItem, Brings
  <2>2. Refuse \/ FirstOfSession(it) \/ LateItem(it) \/ ItemInTurn(it) \/ ItemAhead(it)
    BY <1>1, Zenon DEF QueueItem
  <2>3. it.session = input.session
    OBVIOUS
  <2> HIDE DEF it
  <2> QED
    BY <2>1, <2>2, <2>3, RefusedKept, FirstKept, LateKept, InTurnKept, AheadKept
<1>2. ASSUME NEW d \in running, OnTimeout(d) PROVE Inv'
  BY <1>2, TimeoutKept
<1>3. CASE (\E d \in running : OnTimeoutClosed(d)) \/ Close \/ Take \/ Tick \/ UNCHANGED vars
  BY <1>3, OthersKept
<1> QED
  BY <1>1, <1>2, <1>3 DEF Next, TimeUp

(* So it always holds.                                                      *)
LEMMA InvHolds == ReorderQueueAssumption /\ Spec => []Inv
<1> SUFFICES ASSUME ReorderQueueAssumption PROVE Spec => []Inv
  OBVIOUS
<1>1. Init => Inv
  BY InitInv
<1>2. Inv /\ [Next]_vars => Inv'
  BY StepInv
<1> QED
  BY <1>1, <1>2, PTL DEF Spec

-----------------------------------------------------------------------------
(* The theorems                                                             *)

(* Every variable keeps its type, and a timer the queue refers to is        *)
(* running.                                                                 *)
THEOREM QueueTypeCorrect == ReorderQueueAssumption /\ Spec => []TypeOK
<1>1. Inv => TypeOK
  BY DEF Inv
<1> QED
  BY <1>1, InvHolds, PTL

(* The channel always has room for what is held: outCh <- under the lock    *)
(* never blocks.                                                            *)
THEOREM RoomForAll == ReorderQueueAssumption /\ Spec => []SendsNeverBlock
<1>1. Inv => SendsNeverBlock
  BY DEF Inv
<1> QED
  BY <1>1, InvHolds, PTL

(* An accepted item is held or was sent, and is sent once.                  *)
THEOREM NothingLost == ReorderQueueAssumption /\ Spec => []EachOnce
<1>1. Inv => EachOnce
  BY DEF Inv
<1> QED
  BY <1>1, InvHolds, PTL

(* Items leave in the order of their sessions and numbers but for those     *)
(* that came too late.                                                      *)
THEOREM InputInOrderHolds == ReorderQueueAssumption /\ Spec => [](InOrder /\ SessionsInOrder)
<1>1. Inv => InOrder /\ SessionsInOrder
  <2> SUFFICES ASSUME Inv, NEW i \in 1 .. Len(log), NEW j \in 1 .. Len(log), i < j PROVE Follows(log[i], log[j])
    BY DEF InOrder, SessionsInOrder, Follows
  <2>1. <<log[i], log[j]>> \in Order
    BY DEF Inv, Pairs
  <2> QED
    BY <2>1 DEF Order
<1> QED
  BY <1>1, InvHolds, PTL

(* While something is held a timer runs that flushes it in time.            *)
THEOREM TimerIsInTime == ReorderQueueAssumption /\ Spec => []HeldUntilTimeout
<1>1. Inv => HeldUntilTimeout
  BY DEF Inv, TypeOK, Timers, HeldUntilTimeout
<1> QED
  BY <1>1, InvHolds, PTL
=============================================================================
