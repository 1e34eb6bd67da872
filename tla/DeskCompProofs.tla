--------------------------- MODULE DeskCompProofs ---------------------------
(***************************************************************************)
(* What holds of sg-deskcomp for any windows, animations and bounds.  Its  *)
(* list is seen as the set of its live entries, and the queue through what *)
(* it still says of a window: what is not yet as the server has it, an     *)
(* event in the queue will put right.                                      *)
(***************************************************************************)
EXTENDS DeskComp, FiniteSetTheorems, FunctionTheorems, WellFoundedInduction, TLAPS

----------------------------------------------------------------------------
(* Sequences in another order.                                             *)

Befores(I, key, i) == {j \in I : Prior(key, j, i)}

LEMMA RankBounds ==
  ASSUME NEW I \in SUBSET Int, IsFiniteSet(I), NEW key \in [I -> Int], NEW i \in I
  PROVE  IsFiniteSet(Befores(I, key, i)) /\ Rank(I, key, i) \in 0..Cardinality(I) - 1
<1>1. Befores(I, key, i) \in SUBSET I /\ Befores(I, key, i) # I
  BY DEF Befores, Prior
<1>2. IsFiniteSet(Befores(I, key, i)) /\ Cardinality(Befores(I, key, i)) <= Cardinality(I)
      /\ Cardinality(Befores(I, key, i)) # Cardinality(I)
  BY <1>1, FS_Subset
<1>3. Cardinality(Befores(I, key, i)) \in Nat /\ Cardinality(I) \in Nat
  BY <1>2, FS_CardinalityType
<1> QED BY <1>2, <1>3 DEF Rank, Befores

LEMMA RankMonotone ==
  ASSUME NEW I \in SUBSET Int, IsFiniteSet(I), NEW key \in [I -> Int], NEW i \in I, NEW j \in I
  PROVE  Prior(key, i, j) <=> Rank(I, key, i) < Rank(I, key, j)
<1>1. ASSUME NEW k \in I, NEW l \in I, Prior(key, k, l) PROVE Rank(I, key, k) < Rank(I, key, l)
  <2>1. Befores(I, key, k) \subseteq Befores(I, key, l) \ {k}
    <3>1. \A m \in I : m \in Int /\ key[m] \in Int
      OBVIOUS
    <3>2. \A m \in I : Prior(key, m, k) => Prior(key, m, l) /\ m # k
      BY <1>1, <3>1 DEF Prior
    <3> QED BY <3>2 DEF Befores
  <2>2. k \in Befores(I, key, l)
    BY <1>1 DEF Befores
  <2>3. IsFiniteSet(Befores(I, key, l) \ {k}) /\ Cardinality(Befores(I, key, l) \ {k}) = Rank(I, key, l) - 1
    <3>1. IsFiniteSet(Befores(I, key, l))
      BY RankBounds
    <3> QED BY <2>2, <3>1, FS_RemoveElement DEF Rank, Befores
  <2>4. Rank(I, key, k) <= Rank(I, key, l) - 1
    BY <2>1, <2>3, FS_Subset DEF Rank, Befores
  <2> QED BY <2>4, RankBounds
<1>2. Prior(key, i, j) \/ Prior(key, j, i) \/ i = j
  BY DEF Prior
<1> QED BY <1>1, <1>2, RankBounds

(* t has the elements of s at the places I, each of them once, and those   *)
(* that come first have the lower keys.                                    *)
Ordered(t, s, I, key) ==
  \E p \in [1..Cardinality(I) -> I] :
    /\ t = [k \in 1..Cardinality(I) |-> s[p[k]]]
    /\ \A k, l \in 1..Cardinality(I) : k < l <=> Prior(key, p[k], p[l])
    /\ \A i \in I : \E k \in 1..Cardinality(I) : p[k] = i

LEMMA InOrderIs ==
  ASSUME NEW I \in SUBSET Int, IsFiniteSet(I), NEW key \in [I -> Int], NEW s
  PROVE  Cardinality(I) \in Nat /\ Ordered(InOrder(s, I, key), s, I, key)
<1> DEFINE n == Cardinality(I)
           r == [i \in I |-> Rank(I, key, i) + 1]
           p == [k \in 1..n |-> CHOOSE i \in I : Rank(I, key, i) = k - 1]
<1>1. n \in Nat
  BY FS_CardinalityType
<1>2. r \in [I -> 1..n] /\ \A i, j \in I : r[i] = r[j] => i = j
  <2>1. \A i \in I : Rank(I, key, i) \in 0..n - 1
    BY RankBounds
  <2>2. \A i, j \in I : i # j => Prior(key, i, j) \/ Prior(key, j, i)
    BY DEF Prior
  <2>3. \A i, j \in I : i # j => Rank(I, key, i) # Rank(I, key, j)
    BY <2>1, <2>2, RankMonotone
  <2> QED BY <1>1, <2>1, <2>3
<1>3. r \in Surjection(I, 1..n)
  <2>1. r \in Injection(I, 1..n)
    BY <1>2, Fun_IsInj
  <2>2. IsFiniteSet(1..n) /\ Cardinality(1..n) = n
    BY <1>1, FS_Interval
  <2> HIDE DEF r
  <2> QED BY <2>1, <2>2, FS_Injection
<1>4. \A k \in 1..n : \E i \in I : Rank(I, key, i) = k - 1
  <2>1. \A k \in 1..n : \E i \in I : r[i] = k
    <3> HIDE DEF r
    <3> QED BY <1>3, Fun_SurjectionProperties
  <2>2. \A i \in I : Rank(I, key, i) \in Nat
    BY RankBounds
  <2> QED BY <1>1, <2>1, <2>2
<1>5. p \in [1..n -> I] /\ \A k \in 1..n : Rank(I, key, p[k]) = k - 1
  BY <1>4
<1>6. InOrder(s, I, key) = [k \in 1..n |-> s[p[k]]]
  BY DEF InOrder
<1>7. \A k, l \in 1..n : k < l <=> Prior(key, p[k], p[l])
  <2> HIDE DEF p
  <2> TAKE k, l \in 1..n
  <2>1. p[k] \in I /\ p[l] \in I /\ Rank(I, key, p[k]) = k - 1 /\ Rank(I, key, p[l]) = l - 1
    BY <1>5
  <2>2. Prior(key, p[k], p[l]) <=> Rank(I, key, p[k]) < Rank(I, key, p[l])
    BY <2>1, RankMonotone
  <2> QED BY <1>1, <2>1, <2>2
<1>8. \A i \in I : \E k \in 1..n : p[k] = i
  <2> TAKE i \in I
  <2>1. r[i] \in 1..n /\ Rank(I, key, i) = r[i] - 1
    BY <1>2, RankBounds
  <2>2. Rank(I, key, p[r[i]]) = Rank(I, key, i)
    BY <1>5, <2>1
  <2>3. r[p[r[i]]] = r[i]
    BY <1>5, <2>1, <2>2
  <2> HIDE DEF p, r
  <2> QED BY <1>2, <1>5, <2>1, <2>3
<1> HIDE DEF p
<1> QED BY <1>1, <1>5, <1>6, <1>7, <1>8 DEF Ordered

----------------------------------------------------------------------------
(* The list as the set of its live entries.                                *)

Living(wins) == DOMAIN wins \ Ghosts(wins)
Live(wins) == {wins[i] : i \in Living(wins)}

(* A window has one live entry at most.                                    *)
Once(wins) == \A i, j \in Living(wins) : wins[i].id = wins[j].id => i = j

(* One list holds the entries of the other, each once and in any order,    *)
(* but for some ghosts.                                                    *)
Rearranges(to, from) ==
  /\ to \in Seq(Entry)
  /\ \E p \in [DOMAIN to -> DOMAIN from] :
       /\ \A k \in DOMAIN to : to[k] = from[p[k]]
       /\ \A k, l \in DOMAIN to : p[k] = p[l] => k = l
       /\ \A i \in Living(from) : \E k \in DOMAIN to : p[k] = i

LEMMA LivingIs ==
  ASSUME NEW wins \in Seq(Entry)
  PROVE  /\ Living(wins) = {i \in DOMAIN wins : ~wins[i].ghost}
         /\ DOMAIN wins = 1..Len(wins) /\ Len(wins) \in Nat
         /\ \A i \in DOMAIN wins : wins[i] \in Entry
BY DEF Living, Ghosts

LEMMA LiveType ==
  ASSUME NEW wins \in Seq(Entry)
  PROVE  /\ \A e \in Live(wins) : e \in Entry /\ ~e.ghost
         /\ \A v : find(wins, v) <=> \E e \in Live(wins) : e.id = v
BY LivingIs DEF Live, find

LEMMA OneEntry ==
  ASSUME NEW wins \in Seq(Entry), Once(wins), NEW e \in Live(wins), NEW d \in Live(wins), e.id = d.id
  PROVE  e = d
BY DEF Live, Once

LEMMA TheIs ==
  ASSUME NEW wins \in Seq(Entry), Once(wins), NEW v, find(wins, v)
  PROVE  /\ The(wins, v) \in Live(wins) /\ The(wins, v).id = v
         /\ \A e \in Live(wins) : e.id = v => e = The(wins, v)
<1>1. PICK i \in DOMAIN wins : wins[i].id = v /\ ~wins[i].ghost
  BY DEF find
<1>2. (CHOOSE j \in DOMAIN wins : wins[j].id = v /\ ~wins[j].ghost) \in Living(wins)
  BY <1>1, LivingIs
<1>3. The(wins, v) \in Live(wins) /\ The(wins, v).id = v
  BY <1>1, <1>2 DEF The, Live
<1> QED BY <1>3, OneEntry

LEMMA Rearranged ==
  ASSUME NEW from \in Seq(Entry), NEW to, Rearranges(to, from)
  PROVE  to \in Seq(Entry) /\ Live(to) = Live(from) /\ (Once(from) => Once(to))
<1>1. PICK p \in [DOMAIN to -> DOMAIN from] :
         /\ \A k \in DOMAIN to : to[k] = from[p[k]]
         /\ \A k, l \in DOMAIN to : p[k] = p[l] => k = l
         /\ \A i \in Living(from) : \E k \in DOMAIN to : p[k] = i
  BY DEF Rearranges
<1>2. to \in Seq(Entry)
  BY DEF Rearranges
<1>3. \A k \in DOMAIN to : k \in Living(to) <=> p[k] \in Living(from)
  BY <1>1, <1>2, LivingIs
<1>4. Living(to) \subseteq DOMAIN to /\ Living(from) \subseteq DOMAIN from
  BY DEF Living
<1>5. Live(to) = Live(from)
  BY <1>1, <1>3, <1>4 DEF Live
<1>6. Once(from) => Once(to)
  BY <1>1, <1>3, <1>4 DEF Once
<1> QED BY <1>2, <1>5, <1>6

LEMMA RearrangesTwice ==
  ASSUME NEW a \in Seq(Entry), NEW b, NEW c, Rearranges(b, a), Rearranges(c, b)
  PROVE  Rearranges(c, a)
<1>1. PICK p \in [DOMAIN b -> DOMAIN a] :
         /\ \A k \in DOMAIN b : b[k] = a[p[k]]
         /\ \A k, l \in DOMAIN b : p[k] = p[l] => k = l
         /\ \A i \in Living(a) : \E k \in DOMAIN b : p[k] = i
  BY DEF Rearranges
<1>2. PICK q \in [DOMAIN c -> DOMAIN b] :
         /\ \A k \in DOMAIN c : c[k] = b[q[k]]
         /\ \A k, l \in DOMAIN c : q[k] = q[l] => k = l
         /\ \A i \in Living(b) : \E k \in DOMAIN c : q[k] = i
  BY DEF Rearranges
<1>3. b \in Seq(Entry) /\ c \in Seq(Entry)
  BY DEF Rearranges
<1> DEFINE r == [k \in DOMAIN c |-> p[q[k]]]
<1>4. r \in [DOMAIN c -> DOMAIN a] /\ \A k \in DOMAIN c : c[k] = a[r[k]]
  BY <1>1, <1>2
<1>5. \A k, l \in DOMAIN c : r[k] = r[l] => k = l
  BY <1>1, <1>2
<1>6. \A i \in Living(a) : \E k \in DOMAIN c : r[k] = i
  <2> TAKE i \in Living(a)
  <2>1. PICK k \in DOMAIN b : p[k] = i
    BY <1>1
  <2>2. k \in Living(b)
    BY <1>1, <1>3, <2>1, LivingIs
  <2> QED BY <1>2, <2>1, <2>2
<1> HIDE DEF r
<1> QED BY <1>3, <1>4, <1>5, <1>6 DEF Rearranges

LEMMA RearrangesItself ==
  ASSUME NEW a \in Seq(Entry)
  PROVE  Rearranges(a, a)
<1> DEFINE p == [k \in DOMAIN a |-> k]
<1>1. p \in [DOMAIN a -> DOMAIN a] /\ \A k \in DOMAIN a : p[k] = k
  OBVIOUS
<1>2. Living(a) \subseteq DOMAIN a
  BY DEF Living
<1> HIDE DEF p
<1> QED BY <1>1, <1>2 DEF Rearranges

(* Where a window is in the server's order is a number.                    *)
LEMMA PlaceIs ==
  ASSUME stack \in Seq(Window), NEW v
  PROVE  /\ Place(v) \in Nat
         /\ v \in ToSet(stack) => Place(v) \in DOMAIN stack /\ stack[Place(v)] = v
BY DEF Place, ToSet

Key(wins) == [i \in DOMAIN wins |->
  2 * Place(wins[i].id) + IF wins[i].ghost /\ wins[i].id \in ToSet(stack) THEN 1 ELSE 0]

LEMMA RestackRearranges ==
  ASSUME stack \in Seq(Window), NEW wins \in Seq(Entry)
  PROVE  /\ Rearranges(restack(wins), wins)
         /\ \E p \in [DOMAIN restack(wins) -> DOMAIN wins] :
              /\ \A k \in DOMAIN restack(wins) : restack(wins)[k] = wins[p[k]]
              /\ \A k, l \in DOMAIN restack(wins) : k < l <=> Prior(Key(wins), p[k], p[l])
<1> DEFINE I == DOMAIN wins
           n == Cardinality(I)
<1>1. Key(wins) \in [I -> Int]
  <2>1. \A i \in I : Place(wins[i].id) \in Nat
    BY PlaceIs
  <2> QED BY <2>1 DEF Key
<1>2. I \in SUBSET Int /\ IsFiniteSet(I)
  <2>1. I = 1..Len(wins) /\ Len(wins) \in Nat
    OBVIOUS
  <2> QED BY <2>1, FS_Interval
<1>3. restack(wins) = InOrder(wins, I, Key(wins))
  BY DEF restack, Key
<1> HIDE DEF I
<1>4. PICK p \in [1..n -> I] :
         /\ InOrder(wins, I, Key(wins)) = [k \in 1..n |-> wins[p[k]]]
         /\ \A k, l \in 1..n : k < l <=> Prior(Key(wins), p[k], p[l])
         /\ \A i \in I : \E k \in 1..n : p[k] = i
  <2>1. Ordered(InOrder(wins, I, Key(wins)), wins, I, Key(wins))
    BY <1>1, <1>2, InOrderIs
  <2> QED BY <2>1 DEF Ordered
<1>5. n \in Nat
  BY <1>2, FS_CardinalityType
<1>6. DOMAIN restack(wins) = 1..n /\ \A k \in 1..n : restack(wins)[k] = wins[p[k]]
  BY <1>3, <1>4
<1>7. restack(wins) \in Seq(Entry)
  <2>1. \A k \in 1..n : wins[p[k]] \in Entry
    BY <1>4 DEF I
  <2> DEFINE f == [k \in 1..n |-> wins[p[k]]]
  <2>2. f \in [1..n -> Entry]
    BY <2>1
  <2>3. f \in Seq(Entry)
    <3> HIDE DEF f, n
    <3> QED BY <1>5, <2>2
  <2> QED BY <1>3, <1>4, <2>3
<1>8. \A k, l \in 1..n : p[k] = p[l] => k = l
  <2> SUFFICES ASSUME NEW k \in 1..n, NEW l \in 1..n, p[k] = p[l], k < l PROVE FALSE
    BY <1>5
  <2>1. Prior(Key(wins), p[k], p[k])
    BY <1>4
  <2>2. Key(wins)[p[k]] \in Int /\ p[k] \in Int
    BY <1>1, <1>2
  <2> QED BY <2>1, <2>2 DEF Prior
<1>9. Living(wins) \subseteq I
  BY DEF Living, I
<1>10. Rearranges(restack(wins), wins)
  <2>1. p \in [DOMAIN restack(wins) -> DOMAIN wins]
    BY <1>6 DEF I
  <2>2. \A i \in Living(wins) : \E k \in DOMAIN restack(wins) : p[k] = i
    BY <1>4, <1>6, <1>9
  <2> HIDE DEF n
  <2>3. \A k \in DOMAIN restack(wins) : restack(wins)[k] = wins[p[k]]
    BY <1>6
  <2>4. \A k, l \in DOMAIN restack(wins) : p[k] = p[l] => k = l
    BY <1>6, <1>8
  <2> QED BY <1>7, <2>1, <2>2, <2>3, <2>4, Zenon DEF Rearranges
<1>11. p \in [DOMAIN restack(wins) -> DOMAIN wins]
  BY <1>6 DEF I
<1> HIDE DEF n
<1> QED BY <1>4, <1>6, <1>10, <1>11

LEMMA RestackIs ==
  ASSUME stack \in Seq(Window), NEW wins \in Seq(Entry)
  PROVE  /\ restack(wins) \in Seq(Entry) /\ Live(restack(wins)) = Live(wins)
         /\ Once(wins) => Once(restack(wins))
BY RestackRearranges, Rearranged

LEMMA AppendIs ==
  ASSUME NEW wins \in Seq(Entry), NEW e \in Entry
  PROVE  /\ Append(wins, e) \in Seq(Entry)
         /\ Live(Append(wins, e)) = Live(wins) \cup IF e.ghost THEN {} ELSE {e}
         /\ Once(wins) /\ (~e.ghost => ~find(wins, e.id)) => Once(Append(wins, e))
<1> DEFINE s == Append(wins, e)
           n == Len(wins)
<1>1. /\ s \in Seq(Entry) /\ n \in Nat /\ DOMAIN s = 1..(n + 1) /\ DOMAIN wins = 1..n
      /\ s[n + 1] = e /\ \A i \in 1..n : s[i] = wins[i]
  OBVIOUS
<1> HIDE DEF s, n
<1>2. Living(s) = Living(wins) \cup IF e.ghost THEN {} ELSE {n + 1}
  <2>1. Living(s) = {i \in 1..(n + 1) : ~s[i].ghost} /\ Living(wins) = {i \in 1..n : ~wins[i].ghost}
    BY <1>1 DEF Living, Ghosts
  <2>2. 1..(n + 1) = 1..n \cup {n + 1}
    BY <1>1
  <2> QED BY <1>1, <2>1, <2>2
<1>3. Living(wins) \subseteq 1..n
  BY <1>1 DEF Living
<1>4. Live(s) = Live(wins) \cup IF e.ghost THEN {} ELSE {e}
  BY <1>1, <1>2, <1>3 DEF Live
<1>5. \A i \in Living(wins) : find(wins, wins[i].id)
  BY LivingIs DEF find
<1>6. Once(wins) /\ (~e.ghost => ~find(wins, e.id)) => Once(s)
  BY <1>1, <1>2, <1>3, <1>5 DEF Once
<1> QED BY <1>1, <1>4, <1>6 DEF s

LEMMA PutIs ==
  ASSUME NEW wins \in Seq(Entry), Once(wins), NEW e \in Entry, ~e.ghost, find(wins, e.id)
  PROVE  /\ Put(wins, e) \in Seq(Entry) /\ Once(Put(wins, e))
         /\ Live(Put(wins, e)) = {d \in Live(wins) : d.id # e.id} \cup {e}
<1> DEFINE s == Put(wins, e)
<1>1. /\ s \in Seq(Entry) /\ DOMAIN s = DOMAIN wins
      /\ \A i \in DOMAIN wins : s[i] = IF wins[i].id = e.id /\ ~wins[i].ghost THEN e ELSE wins[i]
  BY DEF Put
<1> HIDE DEF s
<1>2. Living(s) = Living(wins) /\ \A i \in Living(wins) : s[i] = IF wins[i].id = e.id THEN e ELSE wins[i]
  BY <1>1 DEF Living, Ghosts
<1>3. \E i \in Living(wins) : wins[i].id = e.id
  BY LivingIs DEF find
<1>4. Live(s) = {d \in Live(wins) : d.id # e.id} \cup {e}
  BY <1>2, <1>3 DEF Live
<1>5. Once(s)
  BY <1>2 DEF Once
<1> QED BY <1>1, <1>4, <1>5 DEF s

LEMMA ForgetIs ==
  ASSUME NEW wins \in Seq(Entry), NEW i \in DOMAIN wins
  PROVE  /\ forget(wins, i) \in Seq(Entry)
         /\ Live(forget(wins, i)) = {wins[j] : j \in Living(wins) \ {i}}
         /\ Once(wins) => Once(forget(wins, i))
         /\ wins[i].ghost => Rearranges(forget(wins, i), wins)
<1> DEFINE s == forget(wins, i)
           n == Len(wins)
           p == [j \in 1..n - 1 |-> IF j = i THEN n ELSE j]
<1>1. n \in Nat /\ n > 0 /\ i \in 1..n /\ DOMAIN wins = 1..n
  OBVIOUS
<1>2. s \in Seq(Entry) /\ DOMAIN s = 1..n - 1 /\ \A j \in 1..n - 1 : s[j] = wins[p[j]]
  BY <1>1 DEF forget
<1>3. p \in [1..n - 1 -> 1..n] /\ \A j \in 1..n - 1 : p[j] = IF j = i THEN n ELSE j
  BY <1>1
<1> HIDE DEF s, n, p
<1>4. \A j, k \in 1..n - 1 : p[j] = p[k] => j = k
  BY <1>1, <1>3
<1>5. \A j \in 1..n : j # i => \E k \in 1..n - 1 : p[k] = j
  <2> SUFFICES ASSUME NEW j \in 1..n, j # i PROVE \E k \in 1..n - 1 : p[k] = j
    OBVIOUS
  <2>1. CASE j = n
    <3>1. i \in 1..n - 1 /\ p[i] = j
      BY <1>1, <1>3, <2>1
    <3> QED BY <3>1
  <2>2. CASE j # n
    <3>1. j \in 1..n - 1
      BY <1>1, <2>2
    <3>2. p[j] = j
      BY <1>3, <3>1
    <3> QED BY <3>1, <3>2
  <2> QED BY <2>1, <2>2
<1>6. \A j \in 1..n - 1 : p[j] # i
  BY <1>1, <1>3
<1>7. \A j \in 1..n - 1 : j \in Living(s) <=> p[j] \in Living(wins)
  BY <1>1, <1>2, <1>3, LivingIs
<1>8. Living(s) \subseteq 1..n - 1 /\ Living(wins) \subseteq 1..n
  BY <1>1, <1>2 DEF Living
<1>9. Live(s) = {wins[j] : j \in Living(wins) \ {i}}
  BY <1>2, <1>3, <1>5, <1>6, <1>7, <1>8 DEF Live
<1>10. Once(wins) => Once(s)
  BY <1>2, <1>3, <1>4, <1>7, <1>8 DEF Once
<1>11. ASSUME wins[i].ghost PROVE Rearranges(s, wins)
  <2>1. i \notin Living(wins)
    BY <1>11, LivingIs
  <2>2. p \in [DOMAIN s -> DOMAIN wins]
    BY <1>1, <1>2, <1>3
  <2>3. \A j \in Living(wins) : \E k \in DOMAIN s : p[k] = j
    BY <1>2, <1>5, <1>8, <2>1
  <2>4. \A k, l \in DOMAIN s : p[k] = p[l] => k = l
    BY <1>2, <1>4
  <2>5. \A k \in DOMAIN s : s[k] = wins[p[k]]
    BY <1>2
  <2> QED BY <1>2, <2>2, <2>3, <2>4, <2>5, Zenon DEF Rearranges
<1> QED BY <1>2, <1>9, <1>10, <1>11 DEF s

LEMMA ForgottenIs ==
  ASSUME NEW wins \in Seq(Entry), Once(wins), NEW v, find(wins, v)
  PROVE  /\ Forgotten(wins, v) \in Seq(Entry) /\ Once(Forgotten(wins, v))
         /\ Live(Forgotten(wins, v)) = {d \in Live(wins) : d.id # v}
<1> DEFINE i == CHOOSE i \in DOMAIN wins : wins[i].id = v /\ ~wins[i].ghost
<1>1. i \in DOMAIN wins /\ wins[i].id = v /\ i \in Living(wins)
  BY LivingIs DEF find
<1>2. Forgotten(wins, v) = forget(wins, i)
  BY DEF Forgotten
<1> HIDE DEF i
<1>3. {wins[j] : j \in Living(wins) \ {i}} = {d \in Live(wins) : d.id # v}
  BY <1>1 DEF Live, Once
<1> QED BY <1>1, <1>2, <1>3, ForgetIs

(* An entry that is changed in its place, and stays of its window, is      *)
(* where it was.                                                           *)
LEMMA TouchedIs ==
  ASSUME NEW wins \in Seq(Entry), NEW to \in Seq(Entry), DOMAIN to = DOMAIN wins,
         \A i \in DOMAIN wins : to[i].id = wins[i].id /\ to[i].ghost = wins[i].ghost
  PROVE  /\ Living(to) = Living(wins) /\ (Once(wins) => Once(to))
         /\ \A v : find(to, v) <=> find(wins, v)
         /\ \A e \in Live(to) : \E i \in Living(wins) : e = to[i] /\ wins[i] \in Live(wins)
<1>1. Living(to) = Living(wins)
  BY DEF Living, Ghosts
<1>2. Living(wins) \subseteq DOMAIN wins
  BY DEF Living
<1> QED BY <1>1, <1>2 DEF Once, find, Live

Staled(wins, v) ==
  [i \in DOMAIN wins |-> IF wins[i].id = v /\ wins[i].pict = "current" THEN [wins[i] EXCEPT !.pict = "stale"] ELSE wins[i]]

LEMMA StaledIs ==
  ASSUME NEW wins \in Seq(Entry), NEW v
  PROVE  /\ Staled(wins, v) \in Seq(Entry) /\ (Once(wins) => Once(Staled(wins, v)))
         /\ \A u : find(Staled(wins, v), u) <=> find(wins, u)
         /\ \A e \in Live(Staled(wins, v)) : \E d \in Live(wins) :
              /\ e.id = d.id /\ e.mapped = d.mapped /\ e.managed = d.managed /\ e.geom = d.geom
              /\ e.pict = d.pict \/ (d.id = v /\ d.pict = "current" /\ e.pict = "stale")
<1> DEFINE to == Staled(wins, v)
<1>1. /\ DOMAIN to = DOMAIN wins
      /\ \A i \in DOMAIN wins :
           to[i] = IF wins[i].id = v /\ wins[i].pict = "current" THEN [wins[i] EXCEPT !.pict = "stale"] ELSE wins[i]
  BY DEF Staled
<1>2. \A i \in DOMAIN wins : wins[i] \in Entry
  OBVIOUS
<1>3. \A i \in DOMAIN wins :
        /\ to[i] \in Entry /\ to[i].id = wins[i].id /\ to[i].ghost = wins[i].ghost
        /\ to[i].mapped = wins[i].mapped /\ to[i].managed = wins[i].managed /\ to[i].geom = wins[i].geom
        /\ to[i].pict = wins[i].pict \/ (wins[i].id = v /\ wins[i].pict = "current" /\ to[i].pict = "stale")
  <2> TAKE i \in DOMAIN wins
  <2>1. wins[i] \in Entry
    BY <1>2
  <2>2. CASE to[i] = wins[i]
    BY <2>1, <2>2
  <2>3. CASE wins[i].id = v /\ wins[i].pict = "current" /\ to[i] = [wins[i] EXCEPT !.pict = "stale"]
    <3> HIDE DEF to
    <3> QED BY <2>1, <2>3 DEF Entry
  <2> QED BY <1>1, <2>2, <2>3
<1>4. to \in Seq(Entry)
  <2>1. \A i \in 1..Len(wins) : to[i] \in Entry
    BY <1>3
  <2>2. to = [i \in 1..Len(wins) |-> to[i]]
    BY <1>1 DEF Staled
  <2> HIDE DEF to
  <2> QED BY <2>1, <2>2
<1> HIDE DEF to
<1>5. Living(wins) \subseteq DOMAIN wins
  BY DEF Living
<1>6. /\ Once(wins) => Once(to)
      /\ \A u : find(to, u) <=> find(wins, u)
      /\ \A e \in Live(to) : \E i \in Living(wins) : e = to[i] /\ wins[i] \in Live(wins)
  BY <1>1, <1>3, <1>4, TouchedIs
<1>7. \A e \in Live(to) : \E d \in Live(wins) :
              /\ e.id = d.id /\ e.mapped = d.mapped /\ e.managed = d.managed /\ e.geom = d.geom
              /\ e.pict = d.pict \/ (d.id = v /\ d.pict = "current" /\ e.pict = "stale")
  BY <1>3, <1>5, <1>6
<1> QED BY <1>4, <1>6, <1>7 DEF to

(* Some numbers: one of them is the least.                                 *)
LEMMA Least ==
  ASSUME NEW T \in SUBSET Nat, T # {}
  PROVE  \E i \in T : \A j \in T : i <= j
<1>1. PICK i \in T : \A j \in T : ~(<<j, i>> \in OpToRel(<, Nat))
  BY NatLessThanWellFounded, WFMin
<1>2. \A j \in T : ~(j < i)
  BY <1>1 DEF OpToRel
<1> QED BY <1>2

(* A function given by its first value and a step from each to the next.   *)
Iterates(f, a, g, n) == f[0] = a /\ \A k \in 1..n : f[k] = g[f[k - 1]]

LEMMA Steps ==
  ASSUME NEW S, NEW a \in S, NEW g \in [S -> S], NEW M \in Nat
  PROVE  \E f \in [0..M -> S] : Iterates(f, a, g, M)
<1> DEFINE Bad == {n \in Nat : ~\E f \in [0..n -> S] : Iterates(f, a, g, n)}
<1>1. SUFFICES ASSUME Bad # {} PROVE FALSE
  OBVIOUS
<1>2. PICK n \in Bad : \A m \in Bad : n <= m
  BY <1>1, Least
<1>3. n # 0
  <2>1. [k \in 0..0 |-> a] \in [0..0 -> S] /\ Iterates([k \in 0..0 |-> a], a, g, 0)
    BY DEF Iterates
  <2> QED BY <2>1
<1>4. n - 1 \in Nat /\ n \in Nat
  BY <1>3
<1>5. n - 1 \notin Bad
  <2>1. ~(n <= n - 1)
    BY <1>4
  <2> HIDE DEF Bad
  <2> QED BY <1>2, <2>1
<1>6. PICK f \in [0..n - 1 -> S] : Iterates(f, a, g, n - 1)
  BY <1>4, <1>5
<1> DEFINE h == [k \in 0..n |-> IF k = n THEN g[f[n - 1]] ELSE f[k]]
<1>7. h \in [0..n -> S]
  BY <1>4
<1>8. h[0] = a
  BY <1>3, <1>4, <1>6 DEF Iterates
<1>9. \A k \in 1..n : h[k] = g[h[k - 1]]
  <2> TAKE k \in 1..n
  <2>1. CASE k = n
    BY <1>4, <1>6, <2>1 DEF Iterates
  <2>2. CASE k # n
    BY <1>4, <1>6, <2>2 DEF Iterates
  <2> QED BY <2>1, <2>2
<1>10. Iterates(h, a, g, n)
  BY <1>8, <1>9 DEF Iterates
<1> HIDE DEF h
<1> QED BY <1>7, <1>10

LEMMA EndFirstRearranges ==
  ASSUME NEW wins \in Seq(Entry)
  PROVE  Rearranges(EndFirst(wins), wins)
<1> DEFINE over == {i \in DOMAIN wins : Over(wins[i])}
<1>1. CASE over = {}
  BY <1>1, RearrangesItself DEF EndFirst
<1>2. CASE over # {}
  <2>1. over \in SUBSET Nat
    OBVIOUS
  <2>2. \E i \in over : \A j \in over : i <= j
    <3> HIDE DEF over
    <3> QED BY <1>2, <2>1, Least
  <2>3. PICK i \in over : EndFirst(wins) = forget(wins, i)
    BY <1>2, <2>2 DEF EndFirst
  <2>4. i \in DOMAIN wins /\ wins[i].ghost
    BY <2>3 DEF Over
  <2> QED BY <2>3, <2>4, ForgetIs
<1> QED BY <1>1, <1>2

(* Whatever ghosts end, every live entry is left.                          *)
LEMMA EndedRearranges ==
  ASSUME NEW wins \in Seq(Entry)
  PROVE  Rearranges(Ended(wins), wins)
<1> DEFINE g == [w \in Seq(Entry) |-> EndFirst(w)]
           step(f) == [n \in 0..MaxGhosts |-> IF n = 0 THEN wins ELSE EndFirst(f[n - 1])]
           after == CHOOSE f : f = step(f)
<1>1. MaxGhosts \in Nat
  BY Bounds
<1>2. g \in [Seq(Entry) -> Seq(Entry)]
  <2>1. \A w \in Seq(Entry) : EndFirst(w) \in Seq(Entry)
    BY EndFirstRearranges DEF Rearranges
  <2> QED BY <2>1
<1>3. \E f : f = step(f)
  <2>1. PICK f \in [0..MaxGhosts -> Seq(Entry)] : Iterates(f, wins, g, MaxGhosts)
    <3> HIDE DEF g
    <3> QED BY <1>1, <1>2, Steps
  <2>2. \A k \in 1..MaxGhosts : f[k] = EndFirst(f[k - 1])
    <3>1. \A k \in 1..MaxGhosts : k - 1 \in 0..MaxGhosts
      BY <1>1
    <3>2. \A k \in 1..MaxGhosts : f[k - 1] \in Seq(Entry) /\ f[k] = g[f[k - 1]]
      BY <2>1, <3>1 DEF Iterates
    <3> QED BY <3>2
  <2>3. f = step(f)
    <3>1. \A k \in 0..MaxGhosts : k = 0 \/ k \in 1..MaxGhosts
      BY <1>1
    <3>2. \A k \in 0..MaxGhosts : f[k] = step(f)[k]
      BY <2>1, <2>2, <3>1 DEF Iterates
    <3> QED BY <2>1, <3>2
  <2> QED BY <2>3
<1>4. after = step(after)
  <2> HIDE DEF step
  <2> QED BY <1>3
<1>5. Ended(wins) = after[MaxGhosts]
  BY DEF Ended
<1> HIDE DEF after
<1>6. after[0] = wins /\ \A n \in 1..MaxGhosts : after[n] = EndFirst(after[n - 1])
  BY <1>1, <1>4
<1> DEFINE Bad == {n \in 0..MaxGhosts : ~Rearranges(after[n], wins)}
<1>7. ASSUME Bad # {} PROVE FALSE
  <2>1. PICK n \in Bad : \A m \in Bad : n <= m
    <3>1. Bad \in SUBSET Nat
      OBVIOUS
    <3> HIDE DEF Bad
    <3> QED BY <1>7, <3>1, Least
  <2>2. n # 0
    BY <1>6, RearrangesItself
  <2>3. n \in 1..MaxGhosts /\ n - 1 \in 0..MaxGhosts /\ n - 1 < n
    BY <1>1, <2>2
  <2>4. Rearranges(after[n - 1], wins)
    BY <2>1, <2>3
  <2>5. after[n - 1] \in Seq(Entry)
    BY <2>4 DEF Rearranges
  <2>6. Rearranges(after[n], after[n - 1])
    BY <1>6, <2>3, <2>5, EndFirstRearranges
  <2>7. Rearranges(after[n], wins)
    BY <2>4, <2>6, RearrangesTwice
  <2> QED BY <2>7
<1> QED BY <1>1, <1>5, <1>7

----------------------------------------------------------------------------
(* Some elements of a sequence, in its order.                              *)

Picks(t, s, I) ==
  \E p \in [DOMAIN t -> I] :
    /\ \A k \in DOMAIN t : t[k] = s[p[k]]
    /\ \A k, l \in DOMAIN t : k < l <=> p[k] < p[l]
    /\ \A i \in I : \E k \in DOMAIN t : p[k] = i

LEMMA PickedIs ==
  ASSUME NEW S, NEW s \in Seq(S), NEW I \in SUBSET DOMAIN s
  PROVE  Picked(s, I) \in Seq(S) /\ Picks(Picked(s, I), s, I)
<1> DEFINE n == Cardinality(I)
           key == [i \in I |-> 0]
           t == Picked(s, I)
<1>1. I \in SUBSET Int /\ IsFiniteSet(I)
  <2>1. DOMAIN s = 1..Len(s) /\ Len(s) \in Nat
    OBVIOUS
  <2>2. IsFiniteSet(DOMAIN s)
    BY <2>1, FS_Interval
  <2>3. IsFiniteSet(I)
    BY <2>2, FS_Subset
  <2> QED BY <2>1, <2>3
<1>2. key \in [I -> Int] /\ \A i, j \in I : Prior(key, i, j) <=> i < j
  BY <1>1 DEF Prior
<1>3. t = InOrder(s, I, key)
  BY DEF Picked
<1> HIDE DEF key, t
<1>4. n \in Nat /\ Ordered(t, s, I, key)
  BY <1>1, <1>2, <1>3, InOrderIs
<1>5. PICK p \in [1..n -> I] :
         /\ t = [k \in 1..n |-> s[p[k]]]
         /\ \A k, l \in 1..n : k < l <=> Prior(key, p[k], p[l])
         /\ \A i \in I : \E k \in 1..n : p[k] = i
  BY <1>4 DEF Ordered
<1>6. DOMAIN t = 1..n /\ (\A k \in 1..n : t[k] = s[p[k]]) /\ \A k, l \in 1..n : k < l <=> p[k] < p[l]
  BY <1>2, <1>5
<1>7. t \in Seq(S)
  <2>1. \A k \in 1..n : t[k] \in S
    BY <1>6
  <2>2. t = [k \in 1..n |-> t[k]]
    BY <1>5
  <2> HIDE DEF n
  <2> QED BY <1>4, <2>1, <2>2
<1>8. Picks(t, s, I)
  <2> HIDE DEF n
  <2>1. p \in [DOMAIN t -> I]
    BY <1>6
  <2>2. \A i \in I : \E k \in DOMAIN t : p[k] = i
    BY <1>5, <1>6
  <2>3. \A k \in DOMAIN t : t[k] = s[p[k]]
    BY <1>6
  <2>4. \A k, l \in DOMAIN t : k < l <=> p[k] < p[l]
    BY <1>6
  <2> QED BY <2>1, <2>2, <2>3, <2>4, Zenon DEF Picks
<1> QED BY <1>7, <1>8 DEF t

(* Two sequences without repetition of the same elements, in the same      *)
(* order, are one.                                                         *)
LEMMA SameOrder ==
  ASSUME NEW S, NEW s \in Seq(S), NEW t \in Seq(S), IsInjective(s), IsInjective(t), ToSet(s) = ToSet(t),
         \A i, j \in DOMAIN s : \A k, l \in DOMAIN t : s[i] = t[k] /\ s[j] = t[l] /\ i < j => k < l
  PROVE  s = t
<1> DEFINE m == Len(s)
           n == Len(t)
           f == [i \in 1..m |-> CHOOSE k \in 1..n : t[k] = s[i]]
<1>1. DOMAIN s = 1..m /\ DOMAIN t = 1..n /\ m \in Nat /\ n \in Nat
  OBVIOUS
<1>2. \A i \in 1..m : \E k \in 1..n : t[k] = s[i]
  BY <1>1 DEF ToSet
<1>3. \A i \in 1..m : f[i] \in 1..n /\ t[f[i]] = s[i]
  BY <1>2
<1>4. \A k \in 1..n : \E i \in 1..m : t[k] = s[i]
  BY <1>1 DEF ToSet
<1>5. s \in [1..m -> S] /\ t \in [1..n -> S]
  OBVIOUS
<1> HIDE DEF f, m, n
<1>6. \A k \in 1..n : \E i \in 1..m : f[i] = k
  <2>1. \A a, b \in 1..n : t[a] = t[b] => a = b
    BY <1>1 DEF IsInjective
  <2> QED BY <1>3, <1>4, <2>1
<1>7. \A i, j \in 1..m : i < j => f[i] < f[j]
  BY <1>1, <1>3
<1> DEFINE Bad == {i \in 1..m : f[i] # i}
<1>8. ASSUME Bad # {} PROVE FALSE
  <2>1. Bad \in SUBSET Nat
    OBVIOUS
  <2>2. PICK i \in Bad : \A j \in Bad : i <= j
    <3> HIDE DEF Bad
    <3> QED BY <1>8, <2>1, Least
  <2>3. \A j \in 1..m : j < i => f[j] = j
    BY <2>1, <2>2
  <2>4. i \in 1..m /\ f[i] \in 1..n /\ f[i] # i
    BY <1>3, <2>2
  <2>5. f[i] > i
    <3>1. CASE f[i] < i
      <4>1. f[i] \in 1..m
        BY <1>1, <2>4, <3>1
      <4>2. f[f[i]] = f[i] /\ f[f[i]] < f[i]
        BY <1>7, <2>3, <2>4, <3>1, <4>1
      <4> QED BY <2>4, <4>1, <4>2
    <3> QED BY <1>1, <2>4, <3>1
  <2>6. i \in 1..n
    BY <1>1, <2>4, <2>5
  <2>7. PICK j \in 1..m : f[j] = i
    BY <1>6, <2>6
  <2>8. ~(j < i) /\ j # i
    BY <1>1, <2>3, <2>4, <2>7
  <2>9. f[i] < f[j]
    BY <1>1, <1>7, <2>4, <2>8
  <2> QED BY <1>1, <2>4, <2>5, <2>7, <2>9
<1>9. \A i \in 1..m : f[i] = i
  BY <1>8
<1>10. m = n
  <2>1. \A k \in 1..n : k \in 1..m
    BY <1>6, <1>9
  <2>2. \A i \in 1..m : i \in 1..n
    BY <1>3, <1>9
  <2>3. n <= m
    <3>1. CASE n = 0
      BY <1>1, <3>1
    <3>2. CASE n # 0
      <4>1. n \in 1..n
        BY <1>1, <3>2
      <4> QED BY <1>1, <2>1, <4>1
    <3> QED BY <3>1, <3>2
  <2>4. m <= n
    <3>1. CASE m = 0
      BY <1>1, <3>1
    <3>2. CASE m # 0
      <4>1. m \in 1..m
        BY <1>1, <3>2
      <4> QED BY <1>1, <2>2, <4>1
    <3> QED BY <3>1, <3>2
  <2> QED BY <1>1, <2>3, <2>4
<1>11. \A i \in 1..m : s[i] = t[i]
  BY <1>3, <1>9
<1>12. DOMAIN s = 1..m /\ DOMAIN t = 1..m /\ s = [i \in DOMAIN s |-> s[i]] /\ t = [i \in DOMAIN t |-> t[i]]
  BY <1>1, <1>10
<1> QED BY <1>11, <1>12

(* A window leaves the order without changing that of the others.          *)
LEMMA WithoutIs ==
  ASSUME NEW s \in Seq(Window), IsInjective(s), NEW v
  PROVE  /\ Without(s, v) \in Seq(Window) /\ IsInjective(Without(s, v))
         /\ ToSet(Without(s, v)) = ToSet(s) \ {v}
         /\ \A k, l \in DOMAIN Without(s, v) : \A i, j \in DOMAIN s :
              Without(s, v)[k] = s[i] /\ Without(s, v)[l] = s[j] /\ i < j => k < l
<1> DEFINE I == {i \in DOMAIN s : s[i] # v}
           t == Without(s, v)
<1>1. I \in SUBSET DOMAIN s /\ DOMAIN s = 1..Len(s)
  OBVIOUS
<1>2. t = Picked(s, I)
  BY DEF Without
<1>3. \A i \in DOMAIN s : i \in I <=> s[i] # v
  OBVIOUS
<1> HIDE DEF I, t
<1>4. t \in Seq(Window) /\ Picks(t, s, I)
  BY <1>1, <1>2, PickedIs
<1>5. PICK p \in [DOMAIN t -> I] :
         /\ \A k \in DOMAIN t : t[k] = s[p[k]]
         /\ \A k, l \in DOMAIN t : k < l <=> p[k] < p[l]
         /\ \A i \in I : \E k \in DOMAIN t : p[k] = i
  BY <1>4 DEF Picks
<1>6. \A k \in DOMAIN t : k \in Int /\ p[k] \in I /\ p[k] \in Int
  BY <1>1, <1>4
<1>7. \A k, l \in DOMAIN t : \A i, j \in DOMAIN s : t[k] = s[i] /\ t[l] = s[j] /\ i < j => k < l
  BY <1>1, <1>5, <1>6 DEF IsInjective
<1>8. \A k, l \in DOMAIN t : t[k] = t[l] => k = l
  <2>1. \A k, l \in DOMAIN t : t[k] = t[l] => p[k] = p[l]
    BY <1>1, <1>5, <1>6 DEF IsInjective
  <2> QED BY <1>5, <1>6, <2>1
<1>9. ToSet(t) = ToSet(s) \ {v}
  BY <1>1, <1>3, <1>5, <1>6 DEF ToSet
<1> QED BY <1>4, <1>7, <1>8, <1>9 DEF IsInjective, t

----------------------------------------------------------------------------
(* A frame.                                                                *)

CompType ==
  [wins : Seq(Entry), todo : Seq(Window), direct : Window \cup {None}, canvas : BOOLEAN, owed : BOOLEAN,
   size : Sizes, drawn : Seq(Window), swapped : BOOLEAN]

LEMMA DrawWindowIs ==
  ASSUME NEW e \in Entry
  PROVE  /\ draw_window(e) \in Entry
         /\ draw_window(e) = [e EXCEPT !.anim = draw_window(e).anim]
         /\ Shown(draw_window(e)) <=> Shown(e)
         /\ Shown(e) /\ e.anim > 1 => draw_window(e).anim > 0
<1>1. Frames \in Nat
  BY Bounds
<1>2. e.anim \in 0..Frames
  BY DEF Entry
<1>3. CASE Shown(e) /\ e.anim > 0
  <2>1. draw_window(e) = [e EXCEPT !.anim = e.anim - 1] /\ e.anim - 1 \in 0..Frames
    BY <1>1, <1>2, <1>3 DEF draw_window
  <2> QED BY <1>1, <1>2, <2>1 DEF Entry, Shown
<1>4. CASE ~(Shown(e) /\ e.anim > 0)
  <2>1. draw_window(e) = e
    BY <1>4 DEF draw_window
  <2> QED BY <1>1, <1>2, <1>4, <2>1 DEF Entry
<1> QED BY <1>3, <1>4

(* What a frame does to the list: only animations go on, and ghosts end.   *)
LEMMA FrameIs ==
  ASSUME stack \in Seq(Window), comp \in CompType, Once(comp.wins)
  PROVE  /\ Frame \in CompType /\ Once(Frame.wins)
         /\ Frame.direct = comp.direct /\ Frame.canvas = comp.canvas /\ Frame.size = comp.size /\ Frame.todo = comp.todo
         /\ \A v : find(Frame.wins, v) <=> find(comp.wins, v)
         /\ \A e \in Live(Frame.wins) : \E d \in Live(comp.wins) : e = [d EXCEPT !.anim = e.anim]
<1> DEFINE wins == restack(comp.wins)
           left == Ended(wins)
           next == [i \in DOMAIN left |-> draw_window(left[i])]
           up == {i \in DOMAIN left : LET e == left[i] IN Shown(e) /\ ~e.ghost /\ (e.geom # "off" \/ e.anim > 1)}
           seen == Picked(left, up)
<1>1. comp.wins \in Seq(Entry)
  BY DEF CompType
<1>2. wins \in Seq(Entry) /\ Live(wins) = Live(comp.wins) /\ Once(wins)
  BY <1>1, RestackIs
<1>3. left \in Seq(Entry) /\ Live(left) = Live(comp.wins) /\ Once(left)
  BY <1>2, EndedRearranges, Rearranged
<1>4. /\ Frame = [comp EXCEPT !.wins = next, !.owed = \E i \in DOMAIN next : Shown(next[i]) /\ next[i].anim > 0,
                  !.drawn = [i \in DOMAIN seen |-> seen[i].id],
                  !.swapped = comp.swapped \/ left # Picked(wins, {i \in DOMAIN wins : ~Over(wins[i])})]
  BY DEF Frame
<1> HIDE DEF left, wins
<1>5. next \in Seq(Entry) /\ DOMAIN next = DOMAIN left
      /\ \A i \in DOMAIN left : next[i] = [left[i] EXCEPT !.anim = next[i].anim]
  <2>1. \A i \in DOMAIN left : next[i] = draw_window(left[i]) /\ left[i] \in Entry
    BY <1>3
  <2>2. \A i \in DOMAIN left : next[i] \in Entry /\ next[i] = [left[i] EXCEPT !.anim = next[i].anim]
    BY <2>1, DrawWindowIs
  <2>3. DOMAIN left = 1..Len(left) /\ Len(left) \in Nat /\ next = [i \in 1..Len(left) |-> next[i]]
    BY <1>3
  <2>4. next \in Seq(Entry)
    <3>1. \A i \in 1..Len(left) : next[i] \in Entry
      BY <2>2, <2>3
    <3> HIDE DEF next
    <3> QED BY <2>3, <3>1
  <2> QED BY <2>2, <2>4
<1>6. \A i \in DOMAIN left : left[i] \in Entry /\ next[i].id = left[i].id /\ next[i].ghost = left[i].ghost
  <2>1. \A i \in DOMAIN left : left[i] \in Entry
    BY <1>3
  <2> HIDE DEF next
  <2> QED BY <1>5, <2>1 DEF Entry
<1>7. /\ Once(next) /\ \A v : find(next, v) <=> find(left, v)
      /\ \A e \in Live(next) : \E i \in Living(left) : e = next[i] /\ left[i] \in Live(left)
  <2> HIDE DEF next
  <2> QED BY <1>3, <1>5, <1>6, TouchedIs
<1>8. \A v : find(next, v) <=> find(comp.wins, v)
  BY <1>1, <1>3, <1>7, LiveType
<1>9. \A e \in Live(next) : \E d \in Live(comp.wins) : e = [d EXCEPT !.anim = e.anim]
  <2>1. Living(left) \subseteq DOMAIN left
    BY DEF Living
  <2> HIDE DEF next
  <2> QED BY <1>3, <1>5, <1>7, <2>1
<1>10. [i \in DOMAIN seen |-> seen[i].id] \in Seq(Window)
  <2>1. up \in SUBSET DOMAIN left
    OBVIOUS
  <2> HIDE DEF up
  <2>2. seen \in Seq(Entry)
    BY <1>3, <2>1, PickedIs
  <2> HIDE DEF seen
  <2>3. \A i \in 1..Len(seen) : seen[i].id \in Window
    <3>1. \A i \in 1..Len(seen) : seen[i] \in Entry
      BY <2>2
    <3> QED BY <3>1 DEF Entry
  <2>4. DOMAIN seen = 1..Len(seen) /\ Len(seen) \in Nat
    BY <2>2
  <2> QED BY <2>3, <2>4
<1> HIDE DEF next, seen
<1>11. Frame \in CompType
  BY <1>4, <1>5, <1>10 DEF CompType
<1> QED BY <1>4, <1>7, <1>8, <1>9, <1>11 DEF CompType

(* What a frame shows, if nothing is left to draw and no ghost has ended:  *)
(* each window once that is mapped, has a picture and is not minimized, in *)
(* the server's order.                                                     *)
LEMMA FrameShows ==
  ASSUME stack \in Seq(Window), IsInjective(stack), comp \in CompType, Once(comp.wins),
         ~Frame.owed, ~Frame.swapped
  PROVE  /\ IsInjective(Frame.drawn)
         /\ \A v : v \in ToSet(Frame.drawn) <=>
              \E e \in Live(comp.wins) : e.id = v /\ e.mapped /\ e.pict # "none" /\ e.geom # "off"
         /\ \A i, j \in DOMAIN Frame.drawn : \A k, l \in DOMAIN stack :
              stack[k] = Frame.drawn[i] /\ stack[l] = Frame.drawn[j] /\ i < j => k < l
<1> DEFINE wins == restack(comp.wins)
           left == Ended(wins)
           next == [i \in DOMAIN left |-> draw_window(left[i])]
           up == {i \in DOMAIN left : LET e == left[i] IN Shown(e) /\ ~e.ghost /\ (e.geom # "off" \/ e.anim > 1)}
           kept == {i \in DOMAIN wins : ~Over(wins[i])}
           seen == Picked(left, up)
           drawn == [i \in DOMAIN seen |-> seen[i].id]
<1>1. comp.wins \in Seq(Entry)
  BY DEF CompType
<1>2. wins \in Seq(Entry) /\ Live(wins) = Live(comp.wins)
  BY <1>1, RestackIs
<1>3. left \in Seq(Entry) /\ Live(left) = Live(comp.wins) /\ Once(left)
  BY <1>1, <1>2, EndedRearranges, Rearranged, RestackIs
<1>4. /\ Frame = [comp EXCEPT !.wins = next, !.owed = \E i \in DOMAIN next : Shown(next[i]) /\ next[i].anim > 0,
                  !.drawn = drawn, !.swapped = left # Picked(wins, kept)]
  BY DEF Frame
<1> HIDE DEF left, wins
<1>5. /\ Frame.drawn = drawn /\ left = Picked(wins, kept)
      /\ \A i \in DOMAIN next : ~(Shown(next[i]) /\ next[i].anim > 0)
  <2> HIDE DEF drawn, next, kept
  <2> QED BY <1>4 DEF CompType
<1>6. \A i \in DOMAIN left : i \in up <=> i \in Living(left) /\ left[i].mapped /\ left[i].pict # "none" /\ left[i].geom # "off"
  <2> TAKE i \in DOMAIN left
  <2>1. left[i] \in Entry /\ next[i] = draw_window(left[i])
    BY <1>3
  <2>2. ~(Shown(left[i]) /\ left[i].anim > 1)
    BY <1>5, <2>1, DrawWindowIs
  <2>3. i \in Living(left) <=> ~left[i].ghost
    BY <1>3, LivingIs
  <2> HIDE DEF next
  <2> QED BY <2>2, <2>3 DEF Shown
<1>7. up \in SUBSET DOMAIN left /\ kept \in SUBSET DOMAIN wins
  OBVIOUS
<1> HIDE DEF next, up, kept
<1>8. PICK p \in [DOMAIN seen -> up] :
         /\ \A k \in DOMAIN seen : seen[k] = left[p[k]]
         /\ \A k, l \in DOMAIN seen : k < l <=> p[k] < p[l]
         /\ \A i \in up : \E k \in DOMAIN seen : p[k] = i
  <2>1. Picks(seen, left, up)
    BY <1>3, <1>7, PickedIs
  <2> HIDE DEF seen
  <2> QED BY <2>1 DEF Picks
<1>9. seen \in Seq(Entry)
  BY <1>3, <1>7, PickedIs
<1> HIDE DEF seen
<1>10. /\ DOMAIN drawn = DOMAIN seen /\ \A k \in DOMAIN seen : drawn[k] = left[p[k]].id
       /\ \A k \in DOMAIN seen : k \in Int /\ p[k] \in DOMAIN left /\ p[k] \in Living(left) /\ p[k] \in Int
  <2>1. \A k \in DOMAIN seen : p[k] \in up
    BY <1>8
  <2>2. DOMAIN left \subseteq Int /\ DOMAIN seen \subseteq Int
    BY <1>3, <1>9
  <2> QED BY <1>6, <1>7, <1>8, <2>1, <2>2
<1>11. \A k, l \in DOMAIN drawn : drawn[k] = drawn[l] => k = l
  <2>1. \A k, l \in DOMAIN seen : drawn[k] = drawn[l] => p[k] = p[l]
    BY <1>3, <1>10 DEF Once
  <2> HIDE DEF drawn
  <2> QED BY <1>8, <1>10, <2>1
<1>12. \A v : v \in ToSet(drawn) <=> \E i \in up : left[i].id = v
  <2> HIDE DEF drawn
  <2>1. ToSet(drawn) = {drawn[k] : k \in DOMAIN drawn}
    BY DEF ToSet
  <2>2. \A k \in DOMAIN seen : p[k] \in up
    BY <1>8
  <2> QED BY <1>8, <1>10, <2>1, <2>2
<1>13. \A v : v \in ToSet(drawn) <=> \E e \in Live(comp.wins) : e.id = v /\ e.mapped /\ e.pict # "none" /\ e.geom # "off"
  <2>1. Living(left) \subseteq DOMAIN left
    BY DEF Living
  <2> HIDE DEF drawn
  <2>2. \A v : (\E i \in up : left[i].id = v) <=> \E e \in Live(left) : e.id = v /\ e.mapped /\ e.pict # "none" /\ e.geom # "off"
    BY <1>6, <1>7, <2>1 DEF Live
  <2> QED BY <1>3, <1>12, <2>2
<1>14. PICK q \in [DOMAIN left -> kept] :
         /\ \A k \in DOMAIN left : left[k] = wins[q[k]]
         /\ \A k, l \in DOMAIN left : k < l <=> q[k] < q[l]
  <2>1. Picks(left, wins, kept)
    BY <1>2, <1>5, <1>7, PickedIs
  <2> QED BY <2>1 DEF Picks
<1>15. PICK r \in [DOMAIN wins -> DOMAIN comp.wins] :
         /\ \A k \in DOMAIN wins : wins[k] = comp.wins[r[k]]
         /\ \A k, l \in DOMAIN wins : k < l <=> Prior(Key(comp.wins), r[k], r[l])
  BY <1>1, RestackRearranges DEF wins
<1>16. ASSUME NEW i \in DOMAIN drawn, NEW j \in DOMAIN drawn, NEW k \in DOMAIN stack, NEW l \in DOMAIN stack,
              stack[k] = drawn[i], stack[l] = drawn[j], i < j
       PROVE  k < l
  <2> DEFINE a == r[q[p[i]]]
             b == r[q[p[j]]]
  <2>1. p[i] \in DOMAIN left /\ p[j] \in DOMAIN left /\ p[i] < p[j]
    BY <1>8, <1>10, <1>16
  <2>2. q[p[i]] \in DOMAIN wins /\ q[p[j]] \in DOMAIN wins /\ q[p[i]] < q[p[j]]
    BY <1>7, <1>14, <2>1
  <2>3. a \in DOMAIN comp.wins /\ b \in DOMAIN comp.wins /\ Prior(Key(comp.wins), a, b)
    BY <1>15, <2>2
  <2>4. comp.wins[a] = left[p[i]] /\ comp.wins[b] = left[p[j]]
    BY <1>14, <1>15, <2>1, <2>2
  <2>5. ~left[p[i]].ghost /\ ~left[p[j]].ghost /\ left[p[i]].id = stack[k] /\ left[p[j]].id = stack[l]
    <3> HIDE DEF drawn
    <3> QED BY <1>3, <1>10, <1>16, LivingIs
  <2> HIDE DEF a, b
  <2>6. Place(stack[k]) = k /\ Place(stack[l]) = l
    BY PlaceIs DEF ToSet, IsInjective
  <2>7. Key(comp.wins)[a] = 2 * k /\ Key(comp.wins)[b] = 2 * l
    BY <2>3, <2>4, <2>5, <2>6 DEF Key
  <2>8. k # l
    <3> HIDE DEF drawn
    <3>1. i \in Int /\ j \in Int
      BY <1>10, <1>16
    <3> QED BY <1>11, <1>16, <3>1
  <2>9. k \in Int /\ l \in Int
    OBVIOUS
  <2> QED BY <2>3, <2>7, <2>8, <2>9 DEF Prior
<1> HIDE DEF drawn
<1> QED BY <1>5, <1>11, <1>13, <1>16 DEF IsInjective

----------------------------------------------------------------------------
(* What the queue still says of a window.                                  *)

Kinds == {"create", "destroy", "map", "unmap", "leave", "configure"}
Visibility == {"map", "unmap"}
Parting == {"destroy", "leave"}
Telling(e, K, v) == e.what \in K /\ e.of = v
Says(q, K, v) == {i \in DOMAIN q : Telling(q[i], K, v)}
Has(q, K, v) == \E i \in DOMAIN q : Telling(q[i], K, v)

(* That it came is the first that is said of it; the last that is said of  *)
(* whether it is mapped, and where it is, is so; some size that is said of *)
(* it is not that of g.                                                    *)
FirstCreate(q, v) == \A i \in Says(q, {"create"}, v) : \A j \in Says(q, Kinds, v) : i <= j
LastSays(q, K, v, f, b) == \A i \in Says(q, K, v) : (\A j \in Says(q, K, v) : j <= i) => b = f[q[i]]
Mapping == [e \in Event |-> e.what = "map"]
Placing == [e \in Event |-> e.geom]
MapsTo(q, v, b) == LastSays(q, Visibility, v, Mapping, b)
ConfsTo(q, v, g) == LastSays(q, {"configure"}, v, Placing, g)
Resizes(q, v, g) == \E i \in Says(q, {"configure"}, v) : ~SameSize(g, q[i].geom)

LEMMA SameSizeIs ==
  ASSUME NEW g \in Geom, NEW h \in Geom, NEW k \in Geom
  PROVE  /\ SameSize(g, g) /\ (SameSize(g, h) <=> SameSize(h, g))
         /\ SameSize(g, h) /\ SameSize(h, k) => SameSize(g, k)
BY DEF Geom, Sizes, SameSize

LEMMA EventIs ==
  ASSUME NEW e \in Event
  PROVE  /\ e.what \in Kinds => "of" \in DOMAIN e /\ e.of \in Window
         /\ e.what = "configure" => e.geom \in Geom
         /\ e.what = "resize" => e.size \in Sizes
         /\ e.what \in Kinds \cup {"resize", "gone"}
BY DEF Event, Kinds

LEMMA AppendQueue ==
  ASSUME NEW q \in Seq(Event), NEW e \in Event, NEW v
  PROVE  /\ Append(q, e) \in Seq(Event) /\ DOMAIN Append(q, e) = DOMAIN q \cup {Len(q) + 1}
         /\ Append(q, e)[Len(q) + 1] = e /\ \A i \in DOMAIN q : Append(q, e)[i] = q[i] /\ i <= Len(q) /\ i \in Nat
         /\ Len(q) \in Nat /\ Len(Append(q, e)) = Len(q) + 1
         /\ \A K : Says(Append(q, e), K, v) = Says(q, K, v) \cup IF Telling(e, K, v) THEN {Len(q) + 1} ELSE {}
         /\ \A K : Has(Append(q, e), K, v) <=> Has(q, K, v) \/ Telling(e, K, v)
<1> DEFINE r == Append(q, e)
           n == Len(q)
<1>1. n \in Nat /\ r \in Seq(Event) /\ Len(r) = n + 1 /\ DOMAIN r = 1..(n + 1) /\ DOMAIN q = 1..n
  OBVIOUS
<1>2. DOMAIN r = DOMAIN q \cup {n + 1} /\ \A i \in DOMAIN q : i <= n /\ i \in Nat /\ i # n + 1
  BY <1>1
<1>3. r[n + 1] = e /\ \A i \in DOMAIN q : r[i] = q[i]
  BY <1>1
<1> HIDE DEF r, n
<1>4. \A K : Says(r, K, v) = Says(q, K, v) \cup IF Telling(e, K, v) THEN {n + 1} ELSE {}
  BY <1>2, <1>3 DEF Says
<1>5. \A K : Has(r, K, v) <=> Has(q, K, v) \/ Telling(e, K, v)
  BY <1>2, <1>3 DEF Has
<1> QED BY <1>1, <1>2, <1>3, <1>4, <1>5 DEF r, n

LEMMA TailQueue ==
  ASSUME NEW q \in Seq(Event), q # <<>>, NEW v
  PROVE  /\ Tail(q) \in Seq(Event) /\ Head(q) \in Event /\ Len(Tail(q)) = Len(q) - 1 /\ Len(q) \in Nat \ {0}
         /\ \A i \in DOMAIN Tail(q) : i \in Nat /\ i > 0 /\ i + 1 \in DOMAIN q /\ Tail(q)[i] = q[i + 1]
         /\ \A i \in DOMAIN q : i \in Nat /\ (i = 1 \/ (i - 1 \in DOMAIN Tail(q) /\ q[i] = Tail(q)[i - 1]))
         /\ 1 \in DOMAIN q /\ q[1] = Head(q)
         /\ \A K : \A i \in DOMAIN Tail(q) : i \in Says(Tail(q), K, v) <=> i + 1 \in Says(q, K, v)
         /\ \A K : \A i \in Says(q, K, v) : i = 1 \/ i - 1 \in Says(Tail(q), K, v)
         /\ \A K : 1 \in Says(q, K, v) <=> Telling(Head(q), K, v)
         /\ \A K : Has(q, K, v) <=> Telling(Head(q), K, v) \/ Has(Tail(q), K, v)
<1> DEFINE r == Tail(q)
           n == Len(q)
<1>1. n \in Nat \ {0} /\ r \in Seq(Event) /\ Len(r) = n - 1 /\ DOMAIN r = 1..(n - 1) /\ DOMAIN q = 1..n /\ Head(q) = q[1]
  OBVIOUS
<1>2. \A i \in DOMAIN r : i \in Nat /\ i > 0 /\ i + 1 \in DOMAIN q /\ r[i] = q[i + 1]
  BY <1>1
<1>3. \A i \in DOMAIN q : i \in Nat /\ (i = 1 \/ (i - 1 \in DOMAIN r /\ q[i] = r[i - 1]))
  <2>1. \A i \in DOMAIN q : i \in Nat /\ (i = 1 \/ i - 1 \in DOMAIN r) /\ i - 1 + 1 = i
    BY <1>1
  <2> HIDE DEF r
  <2> QED BY <1>2, <2>1
<1>4. 1 \in DOMAIN q /\ q[1] = Head(q) /\ Head(q) \in Event
  BY <1>1
<1> HIDE DEF r, n
<1>5. \A K : \A i \in DOMAIN r : i \in Says(r, K, v) <=> i + 1 \in Says(q, K, v)
  BY <1>2 DEF Says
<1>6. \A K : \A i \in Says(q, K, v) : i = 1 \/ i - 1 \in Says(r, K, v)
  BY <1>3 DEF Says
<1>7. \A K : 1 \in Says(q, K, v) <=> Telling(Head(q), K, v)
  BY <1>4 DEF Says
<1>8. \A K : Has(q, K, v) <=> Telling(Head(q), K, v) \/ Has(r, K, v)
  BY <1>2, <1>3, <1>4 DEF Has
<1> QED BY <1>1, <1>2, <1>3, <1>4, <1>5, <1>6, <1>7, <1>8 DEF r, n

LEMMA FirstCreateKeeps ==
  ASSUME NEW q \in Seq(Event), NEW v, FirstCreate(q, v)
  PROVE  /\ \A e \in Event : (Telling(e, {"create"}, v) => ~Has(q, Kinds, v)) => FirstCreate(Append(q, e), v)
         /\ q # <<>> => /\ FirstCreate(Tail(q), v)
                        /\ Telling(Head(q), Kinds, v) => ~Has(Tail(q), {"create"}, v)
<1>1. ASSUME NEW e \in Event, Telling(e, {"create"}, v) => ~Has(q, Kinds, v)
      PROVE  FirstCreate(Append(q, e), v)
  <2> DEFINE r == Append(q, e)
             n == Len(q)
  <2>1. /\ \A K : Says(r, K, v) = Says(q, K, v) \cup IF Telling(e, K, v) THEN {n + 1} ELSE {}
        /\ n \in Nat /\ \A i \in DOMAIN q : i <= n /\ i \in Nat
    BY AppendQueue
  <2>2. \A K : Says(q, K, v) \subseteq DOMAIN q
    BY DEF Says
  <2>3. Telling(e, {"create"}, v) => Says(q, Kinds, v) = {}
    BY <1>1 DEF Has, Says
  <2>4. Telling(e, {"create"}, v) => Says(q, {"create"}, v) = {}
    BY <2>3 DEF Says, Kinds, Telling
  <2> HIDE DEF r, n
  <2> QED BY <2>1, <2>2, <2>3, <2>4 DEF FirstCreate, r
<1>2. ASSUME q # <<>> PROVE FirstCreate(Tail(q), v) /\ (Telling(Head(q), Kinds, v) => ~Has(Tail(q), {"create"}, v))
  <2> DEFINE r == Tail(q)
  <2>1. /\ \A i \in DOMAIN r : i \in Nat /\ i > 0
        /\ \A K : \A i \in DOMAIN r : i \in Says(r, K, v) <=> i + 1 \in Says(q, K, v)
        /\ \A K : 1 \in Says(q, K, v) <=> Telling(Head(q), K, v)
    BY <1>2, TailQueue
  <2>2. \A K : Says(r, K, v) \subseteq DOMAIN r
    BY DEF Says
  <2>3. \A K : Has(r, K, v) <=> \E i \in DOMAIN r : i \in Says(r, K, v)
    BY DEF Has, Says
  <2> HIDE DEF r
  <2>4. FirstCreate(r, v)
    BY <2>1, <2>2 DEF FirstCreate
  <2>5. ASSUME Telling(Head(q), Kinds, v), Has(r, {"create"}, v) PROVE FALSE
    BY <2>1, <2>3, <2>5 DEF FirstCreate
  <2> QED BY <2>4, <2>5 DEF r
<1> QED BY <1>1, <1>2

LEMMA LastKeeps ==
  ASSUME NEW q \in Seq(Event), NEW v, NEW K, NEW f
  PROVE  /\ \A e \in Event : Telling(e, K, v) => LastSays(Append(q, e), K, v, f, f[e])
         /\ \A b : \A e \in Event : ~Telling(e, K, v) /\ LastSays(q, K, v, f, b) => LastSays(Append(q, e), K, v, f, b)
         /\ \A b : q # <<>> /\ LastSays(q, K, v, f, b) =>
              /\ LastSays(Tail(q), K, v, f, b)
              /\ Telling(Head(q), K, v) /\ ~Has(Tail(q), K, v) => b = f[Head(q)]
<1>1. \A J : Says(q, J, v) \subseteq DOMAIN q
  BY DEF Says
<1>2. ASSUME NEW e \in Event, Telling(e, K, v) PROVE LastSays(Append(q, e), K, v, f, f[e])
  <2> DEFINE r == Append(q, e)
             n == Len(q)
  <2>1. /\ Says(r, K, v) = Says(q, K, v) \cup {n + 1}
        /\ n \in Nat /\ r[n + 1] = e /\ \A i \in DOMAIN q : i <= n /\ i \in Nat
    BY <1>2, AppendQueue
  <2> HIDE DEF r, n
  <2>2. n + 1 \in Says(r, K, v)
    BY <2>1
  <2>3. \A i \in Says(r, K, v) : n + 1 <= i => i = n + 1
    BY <1>1, <2>1
  <2>4. LastSays(r, K, v, f, f[e])
    BY <2>1, <2>2, <2>3 DEF LastSays
  <2> QED BY <2>4 DEF r
<1>3. ASSUME NEW e \in Event, NEW b, ~Telling(e, K, v), LastSays(q, K, v, f, b) PROVE LastSays(Append(q, e), K, v, f, b)
  <2>1. Says(Append(q, e), K, v) = Says(q, K, v)
    <3>1. Says(Append(q, e), K, v) = Says(q, K, v) \cup IF Telling(e, K, v) THEN {Len(q) + 1} ELSE {}
      BY AppendQueue
    <3> QED BY <1>3, <3>1
  <2>2. \A i \in DOMAIN q : Append(q, e)[i] = q[i]
    BY AppendQueue
  <2> QED BY <1>1, <1>3, <2>1, <2>2 DEF LastSays
<1>4. ASSUME NEW b, q # <<>>, LastSays(q, K, v, f, b)
      PROVE  /\ LastSays(Tail(q), K, v, f, b)
             /\ Telling(Head(q), K, v) /\ ~Has(Tail(q), K, v) => b = f[Head(q)]
  <2> DEFINE r == Tail(q)
  <2>1. /\ \A i \in DOMAIN r : i \in Nat /\ i > 0 /\ r[i] = q[i + 1]
        /\ \A i \in DOMAIN r : i \in Says(r, K, v) <=> i + 1 \in Says(q, K, v)
        /\ \A i \in Says(q, K, v) : i = 1 \/ i - 1 \in Says(r, K, v)
        /\ 1 \in Says(q, K, v) <=> Telling(Head(q), K, v)
        /\ q[1] = Head(q) /\ \A i \in DOMAIN q : i \in Nat
    BY <1>4, TailQueue
  <2>2. Says(r, K, v) \subseteq DOMAIN r
    BY DEF Says
  <2>3. Has(r, K, v) <=> Says(r, K, v) # {}
    BY DEF Has, Says
  <2> HIDE DEF r
  <2>4. LastSays(r, K, v, f, b)
    <3> SUFFICES ASSUME NEW i \in Says(r, K, v), \A j \in Says(r, K, v) : j <= i
                 PROVE  b = f[r[i]]
      BY DEF LastSays
    <3>1. i + 1 \in Says(q, K, v) /\ i \in Nat /\ i > 0 /\ r[i] = q[i + 1]
      BY <2>1, <2>2
    <3>2. \A j \in Says(q, K, v) : j <= i + 1
      BY <1>1, <2>1, <3>1
    <3> QED BY <1>4, <3>1, <3>2 DEF LastSays
  <2>5. ASSUME Telling(Head(q), K, v), ~Has(r, K, v) PROVE b = f[Head(q)]
    <3>1. 1 \in Says(q, K, v) /\ \A j \in Says(q, K, v) : j <= 1
      BY <1>1, <2>1, <2>3, <2>5
    <3> QED BY <1>4, <2>1, <3>1 DEF LastSays
  <2> QED BY <2>4, <2>5 DEF r
<1> QED BY <1>2, <1>3, <1>4

----------------------------------------------------------------------------
(* What always holds.                                                      *)

Working == pc \notin {"detached", "attach"}
Child(v) == x[v].at = "child"
Shows(v) == Child(v) /\ x[v].mapped /\ x[v].geom # "off"

(* The entries there are, the one begun included, and who is known of or   *)
(* about to be.                                                            *)
Entries == Live(comp.wins) \cup IF pc = "add" THEN {adding} ELSE {}
Entered(v) == \E e \in Entries : e.id = v
Waits(v) == v \in ToSet(comp.todo)
Heard(v) == Entered(v) \/ Has(queue, {"create"}, v) \/ Waits(v)
Settled(q, v) == ~Has(q, Visibility \cup Parting \cup {"configure"}, v)

Phases ==
  /\ pc = "detached" => queue = <<>>
  /\ ~Working => comp = NoComp
  /\ pc = "attach" => desk # "gone"
  /\ desk = "gone" => stack = <<>>
  /\ \A v \in Window : v \in ToSet(stack) <=> Child(v)
  /\ Working /\ comp.direct = None => comp.canvas
  /\ comp.todo # <<>> => pc \in {"adopt", "add"}

(* A desktop that is gone says so last; its new size is in the queue until *)
(* it is known.                                                            *)
Desktops ==
  /\ \A i \in DOMAIN queue : queue[i].what = "gone" => i = Len(queue)
  /\ pc # "detached" => (desk = "gone" <=> \E i \in DOMAIN queue : queue[i].what = "gone")
  /\ Working => comp.size = desk \/ desk = "gone" \/ \E i \in DOMAIN queue : queue[i].what = "resize"
  /\ \A i \in DOMAIN queue : queue[i].what = "resize" => desk \in {"large", "gone"} /\ queue[i].size = "large"

Listed == Once(comp.wins) /\ (pc = "add" => adding \in Entry /\ ~adding.ghost /\ ~find(comp.wins, adding.id))

Accounted(v) ==
  /\ FirstCreate(queue, v)
  /\ Has(queue, Parting, v) => ~Child(v)
  /\ Working /\ Child(v) => Heard(v)
  /\ Heard(v) /\ ~Child(v) => Has(queue, Parting, v)
  /\ v = comp.direct /\ Child(v) => find(comp.wins, v)

(* What an entry has not as the server has it, the queue will say.         *)
Agreed(v) == Child(v) =>
  /\ MapsTo(queue, v, x[v].mapped) /\ ConfsTo(queue, v, x[v].geom)
  /\ \A e \in Entries : e.id = v =>
       /\ ~Has(queue, Visibility, v) => e.mapped = x[v].mapped
       /\ ~Has(queue, {"configure"}, v) => e.geom = x[v].geom
  /\ Working /\ ~Entered(v) /\ ~Waits(v) /\ ~Has(queue, Visibility, v) => ~x[v].mapped

(* A picture that is not the server's will be taken again.                 *)
Pictured(v) == Child(v) => \A e \in Live(comp.wins) : e.id = v =>
  /\ e.managed
  /\ x[v].redirected <=> v # comp.direct
  /\ v # comp.direct /\ e.mapped /\ ~Has(queue, Visibility, v) =>
       e.pict # "none" /\ (e.pict = "stale" => Resizes(queue, v, e.geom))

(* With nothing to draw, the last frame is right about every window of     *)
(* which there is nothing to read.                                         *)
Screen ==
  Working /\ comp.direct = None /\ ~comp.owed /\ ~comp.swapped =>
    /\ IsInjective(comp.drawn)
    /\ \A v \in ToSet(comp.drawn) : find(comp.wins, v)
    /\ \A v \in Window : Settled(queue, v) => (v \in ToSet(comp.drawn) <=> Shows(v))
    /\ \A i, j \in DOMAIN comp.drawn : \A k, l \in DOMAIN stack :
         /\ Settled(queue, comp.drawn[i]) /\ Settled(queue, comp.drawn[j])
         /\ stack[k] = comp.drawn[i] /\ stack[l] = comp.drawn[j] /\ i < j
         => k < l

Tracked(v) == Accounted(v) /\ Agreed(v) /\ Pictured(v)
Inv == TypeOK /\ Phases /\ Desktops /\ Listed /\ (\A v \in Window : Tracked(v)) /\ Screen

(* The first that waits, and the rest.                                     *)
LEMMA TailSet ==
  ASSUME NEW s \in Seq(Window), s # <<>>
  PROVE  Head(s) \in Window /\ Tail(s) \in Seq(Window) /\ ToSet(s) = {Head(s)} \cup ToSet(Tail(s))
<1>1. /\ Len(s) \in Nat \ {0} /\ DOMAIN s = 1..Len(s) /\ Head(s) = s[1] /\ s[1] \in Window
      /\ Tail(s) \in Seq(Window) /\ DOMAIN Tail(s) = 1..Len(s) - 1
      /\ \A i \in 1..Len(s) - 1 : Tail(s)[i] = s[i + 1]
  OBVIOUS
<1>2. \A i \in DOMAIN s : i = 1 \/ (i - 1 \in DOMAIN Tail(s) /\ s[i] = Tail(s)[i - 1])
  BY <1>1
<1>3. \A i \in DOMAIN Tail(s) : i + 1 \in DOMAIN s /\ Tail(s)[i] = s[i + 1]
  BY <1>1
<1>4. 1 \in DOMAIN s
  BY <1>1
<1>5. ToSet(s) = {s[i] : i \in DOMAIN s} /\ ToSet(Tail(s)) = {Tail(s)[i] : i \in DOMAIN Tail(s)}
  BY DEF ToSet
<1>6. \A w : w \in ToSet(s) <=> w = s[1] \/ w \in ToSet(Tail(s))
  BY <1>2, <1>3, <1>4, <1>5
<1> QED BY <1>1, <1>6

(* Once attach is done, no child waits to be added.                        *)
LEMMA NoneWait ==
  ASSUME NEW todo, todo = <<>>
  PROVE  \A v : v \notin ToSet(todo)
BY DEF ToSet

LEMMA Adopted ==
  ASSUME Phases, pc \notin {"adopt", "add"}
  PROVE  comp.todo = <<>> /\ \A v : ~Waits(v)
<1>1. comp.todo = <<>>
  BY DEF Phases
<1> QED BY <1>1, NoneWait DEF Waits

----------------------------------------------------------------------------
(* What is left alone.                                                     *)

(* r says of u what q says.                                                *)
Silent(q, r, u) ==
  /\ \A K \in SUBSET Kinds : Has(r, K, u) <=> Has(q, K, u)
  /\ FirstCreate(q, u) => FirstCreate(r, u)
  /\ \A b : MapsTo(q, u, b) => MapsTo(r, u, b)
  /\ \A g : ConfsTo(q, u, g) => ConfsTo(r, u, g)
  /\ \A g : Resizes(q, u, g) <=> Resizes(r, u, g)

LEMMA SilentSame ==
  ASSUME NEW q, NEW u
  PROVE  Silent(q, q, u)
BY DEF Silent

LEMMA SilentAppend ==
  ASSUME NEW q \in Seq(Event), NEW e \in Event, NEW u, ~Telling(e, Kinds, u)
  PROVE  Silent(q, Append(q, e), u)
<1> DEFINE r == Append(q, e)
<1>1. \A K \in SUBSET Kinds : ~Telling(e, K, u)
  BY DEF Telling
<1>2. \A K \in SUBSET Kinds : Has(r, K, u) <=> Has(q, K, u)
  BY <1>1, AppendQueue
<1>3. Visibility \in SUBSET Kinds /\ {"configure"} \in SUBSET Kinds /\ {"create"} \in SUBSET Kinds
  BY DEF Visibility, Kinds
<1>4. FirstCreate(q, u) => FirstCreate(r, u)
  BY <1>1, <1>3, FirstCreateKeeps
<1>5. \A b : MapsTo(q, u, b) => MapsTo(r, u, b)
  BY <1>1, <1>3, LastKeeps DEF MapsTo
<1>6. \A g : ConfsTo(q, u, g) => ConfsTo(r, u, g)
  BY <1>1, <1>3, LastKeeps DEF ConfsTo
<1>7. Says(r, {"configure"}, u) = Says(q, {"configure"}, u)
  <2>1. Says(r, {"configure"}, u) = Says(q, {"configure"}, u) \cup IF Telling(e, {"configure"}, u) THEN {Len(q) + 1} ELSE {}
    BY AppendQueue
  <2> QED BY <1>1, <1>3, <2>1
<1>8. \A i \in Says(q, {"configure"}, u) : r[i] = q[i]
  BY AppendQueue DEF Says
<1>9. \A g : Resizes(q, u, g) <=> Resizes(r, u, g)
  BY <1>7, <1>8 DEF Resizes
<1> QED BY <1>2, <1>4, <1>5, <1>6, <1>9 DEF Silent

LEMMA TailResizes ==
  ASSUME NEW q \in Seq(Event), q # <<>>, NEW u, NEW g
  PROVE  Resizes(q, u, g) <=> Resizes(Tail(q), u, g) \/ (Telling(Head(q), {"configure"}, u) /\ ~SameSize(g, Head(q).geom))
<1> DEFINE r == Tail(q)
           C == {"configure"}
<1>1. /\ \A i \in DOMAIN r : i + 1 \in DOMAIN q /\ r[i] = q[i + 1]
      /\ \A i \in DOMAIN q : i = 1 \/ (i - 1 \in DOMAIN r /\ q[i] = r[i - 1])
      /\ 1 \in DOMAIN q /\ q[1] = Head(q)
      /\ \A i \in DOMAIN r : i \in Says(r, C, u) <=> i + 1 \in Says(q, C, u)
      /\ \A i \in Says(q, C, u) : i = 1 \/ i - 1 \in Says(r, C, u)
      /\ 1 \in Says(q, C, u) <=> Telling(Head(q), C, u)
  BY TailQueue
<1>2. Says(r, C, u) \subseteq DOMAIN r /\ Says(q, C, u) \subseteq DOMAIN q
  BY DEF Says
<1> HIDE DEF r, C
<1>3. Resizes(q, u, g) <=> \E i \in Says(q, C, u) : ~SameSize(g, q[i].geom)
  BY DEF Resizes, C
<1>4. Resizes(r, u, g) <=> \E i \in Says(r, C, u) : ~SameSize(g, r[i].geom)
  BY DEF Resizes, C
<1>5. Resizes(q, u, g) <=> Resizes(r, u, g) \/ (Telling(Head(q), C, u) /\ ~SameSize(g, Head(q).geom))
  BY <1>1, <1>2, <1>3, <1>4
<1> QED BY <1>5 DEF r, C

LEMMA SilentTail ==
  ASSUME NEW q \in Seq(Event), q # <<>>, NEW u, ~Telling(Head(q), Kinds, u)
  PROVE  Silent(q, Tail(q), u)
<1>1. \A K \in SUBSET Kinds : ~Telling(Head(q), K, u)
  BY DEF Telling
<1>2. \A K \in SUBSET Kinds : Has(Tail(q), K, u) <=> Has(q, K, u)
  BY <1>1, TailQueue
<1>3. {"configure"} \in SUBSET Kinds
  BY DEF Kinds
<1>4. FirstCreate(q, u) => FirstCreate(Tail(q), u)
  BY FirstCreateKeeps
<1>5. \A b : MapsTo(q, u, b) => MapsTo(Tail(q), u, b)
  BY LastKeeps DEF MapsTo
<1>6. \A g : ConfsTo(q, u, g) => ConfsTo(Tail(q), u, g)
  BY LastKeeps DEF ConfsTo
<1>7. \A g : Resizes(q, u, g) <=> Resizes(Tail(q), u, g)
  BY <1>1, <1>3, TailResizes
<1> QED BY <1>2, <1>4, <1>5, <1>6, <1>7 DEF Silent

(* An entry of u is as one was.                                            *)
Alike(e, d) == e.id = d.id /\ e.mapped = d.mapped /\ e.managed = d.managed /\ e.geom = d.geom /\ e.pict = d.pict

LEMMA UntouchedStays ==
  ASSUME NEW u \in Window, Tracked(u), Silent(queue, queue', u), x'[u] = x[u],
         Working' <=> Working, comp'.direct = u <=> comp.direct = u,
         find(comp'.wins, u) <=> find(comp.wins, u), Entered(u)' <=> Entered(u), Waits(u)' <=> Waits(u),
         \A e \in Live(comp'.wins) : e.id = u => \E d \in Live(comp.wins) : Alike(e, d),
         \A e \in Entries' : e.id = u => \E d \in Entries : d.id = u /\ e.mapped = d.mapped /\ e.geom = d.geom
  PROVE  Tracked(u)'
<1>1. Visibility \in SUBSET Kinds /\ {"configure"} \in SUBSET Kinds /\ {"create"} \in SUBSET Kinds /\ Parting \in SUBSET Kinds
  BY DEF Visibility, Kinds, Parting
<1>2. Child(u)' <=> Child(u)
  BY DEF Child
<1>3. Heard(u)' <=> Heard(u)
  BY <1>1 DEF Heard, Silent
<1>4. Accounted(u)'
  BY <1>1, <1>2, <1>3 DEF Tracked, Accounted, Silent
<1>5. Agreed(u)'
  BY <1>1, <1>2 DEF Tracked, Agreed, Silent
<1>6. Pictured(u)'
  BY <1>1, <1>2 DEF Tracked, Pictured, Silent, Alike
<1> QED BY <1>4, <1>5, <1>6 DEF Tracked

(* Of a window of which there is nothing to read there was nothing, and it *)
(* is as it was, or it was not in a frame and does not belong in one; and  *)
(* the windows in a frame are in the order they were.                      *)
SettledStay ==
  \A v \in Window : Settled(queue', v) =>
    \/ Settled(queue, v) /\ (Shows(v)' <=> Shows(v))
    \/ ~find(comp.wins, v) /\ ~Shows(v)'
OrderStays ==
  \A k, l \in DOMAIN stack' :
    Settled(queue', stack'[k]) /\ Settled(queue', stack'[l]) /\ find(comp.wins, stack'[k]) /\ find(comp.wins, stack'[l]) =>
      \E i, j \in DOMAIN stack : stack[i] = stack'[k] /\ stack[j] = stack'[l] /\ (i < j => k < l)

LEMMA ScreenStays ==
  ASSUME Screen, comp \in CompType, Working' => Working,
         comp'.direct = comp.direct, comp'.drawn = comp.drawn, comp'.owed = comp.owed, comp'.swapped = comp.swapped,
         \A v : find(comp.wins, v) => find(comp'.wins, v),
         SettledStay, OrderStays
  PROVE  Screen'
<1> SUFFICES ASSUME Working', comp'.direct = None, ~comp'.owed, ~comp'.swapped
             PROVE  /\ IsInjective(comp'.drawn)
                    /\ \A v \in ToSet(comp'.drawn) : find(comp'.wins, v)
                    /\ \A v \in Window : Settled(queue', v) => (v \in ToSet(comp'.drawn) <=> Shows(v)')
                    /\ \A i, j \in DOMAIN comp'.drawn : \A k, l \in DOMAIN stack' :
                         /\ Settled(queue', comp'.drawn[i]) /\ Settled(queue', comp'.drawn[j])
                         /\ stack'[k] = comp'.drawn[i] /\ stack'[l] = comp'.drawn[j] /\ i < j
                         => k < l
  BY DEF Screen
<1>1. /\ IsInjective(comp.drawn)
      /\ \A v \in ToSet(comp.drawn) : find(comp.wins, v)
      /\ \A v \in Window : Settled(queue, v) => (v \in ToSet(comp.drawn) <=> Shows(v))
      /\ \A i, j \in DOMAIN comp.drawn : \A k, l \in DOMAIN stack :
           /\ Settled(queue, comp.drawn[i]) /\ Settled(queue, comp.drawn[j])
           /\ stack[k] = comp.drawn[i] /\ stack[l] = comp.drawn[j] /\ i < j
           => k < l
  BY DEF Screen
<1>2. \A i \in DOMAIN comp.drawn : comp.drawn[i] \in Window /\ comp.drawn[i] \in ToSet(comp.drawn)
  BY DEF CompType, ToSet
<1>3. \A i \in DOMAIN comp.drawn : Settled(queue', comp.drawn[i]) => Settled(queue, comp.drawn[i]) /\ find(comp.wins, comp.drawn[i])
  BY <1>1, <1>2 DEF SettledStay
<1>4. ASSUME NEW i \in DOMAIN comp.drawn, NEW j \in DOMAIN comp.drawn, NEW k \in DOMAIN stack', NEW l \in DOMAIN stack',
             Settled(queue', comp.drawn[i]), Settled(queue', comp.drawn[j]), stack'[k] = comp.drawn[i], stack'[l] = comp.drawn[j], i < j
      PROVE  k < l
  <2>1. Settled(queue, comp.drawn[i]) /\ find(comp.wins, comp.drawn[i]) /\ Settled(queue, comp.drawn[j]) /\ find(comp.wins, comp.drawn[j])
    BY <1>3, <1>4
  <2>2. Settled(queue', stack'[k]) /\ Settled(queue', stack'[l])
    BY <1>4
  <2>3. PICK m, n \in DOMAIN stack : stack[m] = stack'[k] /\ stack[n] = stack'[l] /\ (m < n => k < l)
    BY <1>4, <2>1, <2>2 DEF OrderStays
  <2> QED BY <1>1, <1>4, <2>1, <2>3
<1>5. \A v \in Window : Settled(queue', v) => (v \in ToSet(comp.drawn) <=> Shows(v)')
  BY <1>1 DEF SettledStay
<1> QED BY <1>1, <1>4, <1>5

----------------------------------------------------------------------------
(* The server and the programs.                                            *)

WindowType == [at : {"none", "child", "away"}, mapped : BOOLEAN, geom : Geom, redirected : BOOLEAN]

(* Nobody listens: what is kept is nothing.                                *)
LEMMA DeafKeeps ==
  TypeOK /\ Phases /\ ~Working /\ queue = <<>> /\ Desktops => Inv
<1> SUFFICES ASSUME TypeOK, Phases, ~Working, queue = <<>>, Desktops PROVE Inv
  OBVIOUS
<1>1. comp = NoComp
  BY DEF Phases
<1>2. comp.wins = <<>> /\ pc # "add" /\ \A v : ~Waits(v)
  <2>1. comp.wins = <<>> /\ pc # "add" /\ pc # "adopt"
    BY <1>1 DEF NoComp, Working
  <2> QED BY <2>1, Adopted
<1>3. Live(comp.wins) = {} /\ Once(comp.wins) /\ \A v : ~find(comp.wins, v)
  BY <1>2 DEF Live, Living, Once, find
<1>4. Entries = {}
  BY <1>2, <1>3 DEF Entries
<1>5. \A K, v : ~Has(queue, K, v) /\ Says(queue, K, v) = {}
  BY DEF Has, Says
<1>6. Listed
  BY <1>2, <1>3 DEF Listed
<1>7. ASSUME NEW v \in Window PROVE Tracked(v)
  <2>1. Accounted(v)
    <3>1. comp.direct = None /\ v # None
      BY <1>1, Bounds DEF NoComp
    <3> QED BY <1>2, <1>4, <1>5, <3>1 DEF Accounted, Heard, Entered, FirstCreate
  <2>2. Agreed(v)
    BY <1>4, <1>5 DEF Agreed, MapsTo, ConfsTo, LastSays
  <2>3. Pictured(v)
    BY <1>3 DEF Pictured
  <2> QED BY <2>1, <2>2, <2>3 DEF Tracked
<1>8. Screen
  BY DEF Screen
<1> QED BY <1>6, <1>7, <1>8 DEF Inv

LEMMA SendIs ==
  ASSUME TypeOK, NEW e \in Event, Send(e)
  PROVE  /\ queue' \in Seq(Event)
         /\ IF pc = "detached" THEN queue' = queue ELSE queue' = Append(queue, e)
BY DEF TypeOK, Send, Listening

(* What the server does to sg-deskcomp's own: it makes pictures stale.     *)
LEMMA StaleIs ==
  ASSUME TypeOK, Listed, NEW v, comp' = comp \/ Stale(v), pc' = pc, adding' = adding
  PROVE  /\ comp' \in CompType /\ Listed'
         /\ comp'.direct = comp.direct /\ comp'.canvas = comp.canvas /\ comp'.owed = comp.owed
         /\ comp'.size = comp.size /\ comp'.drawn = comp.drawn /\ comp'.swapped = comp.swapped
         /\ comp'.todo = comp.todo /\ \A u : Waits(u)' <=> Waits(u)
         /\ \A u : (find(comp'.wins, u) <=> find(comp.wins, u)) /\ (Entered(u)' <=> Entered(u))
         /\ \A e \in Live(comp'.wins) : \E d \in Live(comp.wins) :
              /\ e.id = d.id /\ e.mapped = d.mapped /\ e.managed = d.managed /\ e.geom = d.geom
              /\ e.pict = d.pict \/ (d.id = v /\ d.pict = "current" /\ e.pict = "stale" /\ Stale(v))
         /\ \A e \in Entries' : \E d \in Entries : e.id = d.id /\ e.mapped = d.mapped /\ e.geom = d.geom
         /\ comp = NoComp => comp' = NoComp
<1>1. comp \in CompType /\ comp.wins \in Seq(Entry)
  BY DEF TypeOK, CompType
<1>2. CASE comp' = comp
  <2>1. Listed' /\ Entries' = Entries /\ \A u : (Entered(u)' <=> Entered(u)) /\ (Waits(u)' <=> Waits(u))
    BY <1>2 DEF Listed, Entries, Entered, Waits
  <2>2. \A e \in Live(comp.wins) : e.id = e.id
    OBVIOUS
  <2> QED BY <1>1, <1>2, <2>1
<1>3. CASE Stale(v)
  <2>1. comp' = [comp EXCEPT !.wins = Staled(comp.wins, v)]
    BY <1>3 DEF Stale, Staled
  <2>2. /\ comp' \in CompType /\ comp'.wins = Staled(comp.wins, v)
        /\ comp'.direct = comp.direct /\ comp'.canvas = comp.canvas /\ comp'.owed = comp.owed
        /\ comp'.size = comp.size /\ comp'.drawn = comp.drawn /\ comp'.swapped = comp.swapped /\ comp'.todo = comp.todo
    BY <1>1, <2>1, StaledIs DEF CompType
  <2>3. /\ Once(comp'.wins) /\ \A u : find(comp'.wins, u) <=> find(comp.wins, u)
        /\ \A e \in Live(comp'.wins) : \E d \in Live(comp.wins) :
             /\ e.id = d.id /\ e.mapped = d.mapped /\ e.managed = d.managed /\ e.geom = d.geom
             /\ e.pict = d.pict \/ (d.id = v /\ d.pict = "current" /\ e.pict = "stale")
    BY <1>1, <2>2, StaledIs DEF Listed
  <2>4. Listed'
    BY <2>3 DEF Listed
  <2>5. comp'.wins \in Seq(Entry)
    BY <2>2 DEF CompType
  <2>6. \A u : Entered(u)' <=> Entered(u)
    <3>1. \A u : (\E e \in Live(comp'.wins) : e.id = u) <=> \E e \in Live(comp.wins) : e.id = u
      <4>1. \A u : find(comp.wins, u) <=> \E e \in Live(comp.wins) : e.id = u
        BY <1>1, LiveType
      <4>2. \A u : find(comp'.wins, u) <=> \E e \in Live(comp'.wins) : e.id = u
        BY <2>5, LiveType
      <4> QED BY <2>3, <4>1, <4>2
    <3> QED BY <3>1 DEF Entered, Entries
  <2>7. \A e \in Entries' : \E d \in Entries : e.id = d.id /\ e.mapped = d.mapped /\ e.geom = d.geom
    BY <2>3 DEF Entries
  <2>8. comp = NoComp => comp' = NoComp
    <3>1. comp = NoComp => Staled(comp.wins, v) = comp.wins
      BY DEF NoComp, Staled
    <3>2. [comp EXCEPT !.wins = comp.wins] = comp
      BY <1>1 DEF CompType
    <3> QED BY <2>1, <3>1, <3>2
  <2>9. \A u : Waits(u)' <=> Waits(u)
    BY <2>2 DEF Waits
  <2> QED BY <1>3, <2>2, <2>3, <2>4, <2>6, <2>7, <2>8, <2>9
<1> QED BY <1>2, <1>3

LEMMA DesktopsTold ==
  ASSUME TypeOK, Desktops, pc # "detached", NEW e \in Event, e.what \in Kinds, queue' = Append(queue, e),
         desk # "gone", desk' = desk, pc' = pc, comp'.size = comp.size
  PROVE  Desktops'
<1>1. queue \in Seq(Event)
  BY DEF TypeOK
<1>2. /\ DOMAIN queue' = DOMAIN queue \cup {Len(queue) + 1} /\ queue'[Len(queue) + 1] = e
      /\ \A i \in DOMAIN queue : queue'[i] = queue[i]
  BY <1>1, AppendQueue
<1>3. e.what # "gone" /\ e.what # "resize"
  BY DEF Kinds
<1>4. \A i \in DOMAIN queue : queue[i].what # "gone"
  BY DEF Desktops
<1>5. \A i \in DOMAIN queue' : queue'[i].what # "gone"
  BY <1>2, <1>3, <1>4
<1>6. (\E i \in DOMAIN queue' : queue'[i].what = "resize") <=> \E i \in DOMAIN queue : queue[i].what = "resize"
  BY <1>2, <1>3
<1>7. \A i \in DOMAIN queue' : queue'[i].what = "resize" => desk' \in {"large", "gone"} /\ queue'[i].size = "large"
  BY <1>2, <1>3 DEF Desktops
<1>8. Working' <=> Working
  BY DEF Working
<1> QED BY <1>5, <1>6, <1>7, <1>8 DEF Desktops

(* Something happens to a window, and is said of it: what is kept of the   *)
(* others, and of the screen, is as right as it was.                       *)
LEMMA ToldKeeps ==
  ASSUME Inv, TypeOK', Phases', pc # "detached", pc' = pc, adding' = adding, desk # "gone", desk' = desk,
         NEW v \in Window, NEW e \in Event, Telling(e, Kinds, v), queue' = Append(queue, e),
         comp' = comp \/ Stale(v), \A u \in Window \ {v} : x'[u] = x[u], Tracked(v)',
         e.what = "create" => ~find(comp.wins, v) /\ ~Shows(v)',
         \A k, l \in DOMAIN stack' : stack'[k] # v /\ stack'[l] # v =>
           \E i, j \in DOMAIN stack : stack[i] = stack'[k] /\ stack[j] = stack'[l] /\ (i < j => k < l)
  PROVE  Inv'
<1>1. TypeOK /\ Listed /\ Desktops /\ Screen /\ comp \in CompType /\ queue \in Seq(Event)
  BY DEF Inv, TypeOK, CompType
<1>2. /\ Listed'
      /\ comp'.direct = comp.direct /\ comp'.owed = comp.owed
      /\ comp'.size = comp.size /\ comp'.drawn = comp.drawn /\ comp'.swapped = comp.swapped
      /\ \A u : (find(comp'.wins, u) <=> find(comp.wins, u)) /\ (Entered(u)' <=> Entered(u)) /\ (Waits(u)' <=> Waits(u))
      /\ \A f \in Live(comp'.wins) : f.id # v => \E d \in Live(comp.wins) : Alike(f, d)
      /\ \A f \in Entries' : \E d \in Entries : f.id = d.id /\ f.mapped = d.mapped /\ f.geom = d.geom
  BY <1>1, StaleIs DEF Alike
<1>3. Desktops'
  BY <1>1, <1>2, DesktopsTold DEF Telling
<1>4. Working' <=> Working
  BY DEF Working
<1>5. ASSUME NEW u \in Window, u # v PROVE Tracked(u)'
  <2>1. Tracked(u)
    BY DEF Inv
  <2>2. Silent(queue, queue', u)
    BY <1>1, <1>5, SilentAppend DEF Telling
  <2> QED BY <1>2, <1>4, <1>5, <2>1, <2>2, UntouchedStays
<1>6. Screen'
  <2>1. \A K, u : Has(queue, K, u) => Has(queue', K, u)
    BY <1>1, AppendQueue
  <2>2. \A u \in Window \ {v} : Shows(u)' <=> Shows(u)
    BY DEF Shows, Child
  <2>3. Settled(queue', v) => e.what = "create"
    <3>1. \A K : Telling(e, K, v) => Has(queue', K, v)
      BY <1>1, AppendQueue
    <3> QED BY <3>1 DEF Settled, Telling, Kinds, Visibility, Parting
  <2>4. SettledStay
    BY <2>1, <2>2, <2>3 DEF Settled, SettledStay
  <2>5. OrderStays
    BY <2>3 DEF OrderStays
  <2>6. \A u : find(comp.wins, u) => find(comp'.wins, u)
    BY <1>2
  <2> QED BY <1>1, <1>2, <1>4, <2>4, <2>5, <2>6, ScreenStays
<1> QED BY <1>2, <1>3, <1>5, <1>6 DEF Inv

LEMMA ServerTypes ==
  ASSUME Inv, NEW v, comp' = comp \/ Stale(v), pc' = pc, adding' = adding, desk' = desk,
         x' \in [Window -> WindowType], stack' \in Seq(Window), IsInjective(stack'), queue' \in Seq(Event),
         pc = "detached" => queue' = queue, desk = "gone" => stack' = <<>>,
         \A u \in Window : u \in ToSet(stack') <=> x'[u].at = "child"
  PROVE  TypeOK' /\ Phases' /\ (pc = "detached" => Inv')
<1>1. TypeOK /\ Listed /\ Phases /\ Desktops
  BY DEF Inv
<1>2. /\ comp' \in CompType /\ comp'.direct = comp.direct /\ comp'.canvas = comp.canvas /\ comp'.todo = comp.todo
      /\ comp = NoComp => comp' = NoComp
  BY <1>1, StaleIs
<1>3. TypeOK'
  BY <1>1, <1>2 DEF TypeOK, CompType, WindowType
<1>4. Phases'
  BY <1>1, <1>2 DEF Phases, Working, Child
<1>5. ASSUME pc = "detached" PROVE Inv'
  <2>1. queue' = <<>> /\ ~Working'
    BY <1>1, <1>5 DEF Phases, Working
  <2>2. Desktops'
    BY <1>5, <2>1 DEF Desktops, Working
  <2>3. (TypeOK /\ Phases /\ ~Working /\ queue = <<>> /\ Desktops => Inv)'
    BY DeafKeeps, PTL
  <2> QED BY <1>3, <1>4, <2>1, <2>2, <2>3
<1> QED BY <1>3, <1>4, <1>5

(* Something happens to a window of the desktop, and is said of it.        *)
LEMMA ServerKeeps ==
  ASSUME Inv, desk # "gone", desk' = desk, pc' = pc, adding' = adding,
         NEW v \in Window, NEW e \in Event, Telling(e, Kinds, v), Send(e), comp' = comp \/ Stale(v),
         x' \in [Window -> WindowType], \A u \in Window \ {v} : x'[u] = x[u],
         stack' \in Seq(Window), IsInjective(stack'), \A u \in Window : u \in ToSet(stack') <=> x'[u].at = "child",
         e.what = "create" => ~find(comp.wins, v) /\ ~Shows(v)',
         \A k, l \in DOMAIN stack' : stack'[k] # v /\ stack'[l] # v =>
           \E i, j \in DOMAIN stack : stack[i] = stack'[k] /\ stack[j] = stack'[l] /\ (i < j => k < l),
         pc # "detached" /\ queue' = Append(queue, e) => Tracked(v)'
  PROVE  Inv'
<1>1. TypeOK
  BY DEF Inv
<1>2. queue' \in Seq(Event) /\ IF pc = "detached" THEN queue' = queue ELSE queue' = Append(queue, e)
  BY <1>1, SendIs
<1>3. TypeOK' /\ Phases' /\ (pc = "detached" => Inv')
  BY <1>2, ServerTypes
<1>4. ASSUME pc # "detached" PROVE Inv'
  <2>1. Tracked(v)' /\ queue' = Append(queue, e)
    BY <1>2, <1>4
  <2> QED BY <1>3, <1>4, <2>1, ToldKeeps
<1> QED BY <1>3, <1>4

(* What is known of a window's own when it is told of.                     *)
LEMMA ChildIs ==
  ASSUME Inv, NEW v \in Window, Child(v)
  PROVE  desk # "gone" /\ v \in ToSet(stack) /\ ~Has(queue, Parting, v)
<1>1. v \in ToSet(stack)
  BY DEF Inv, Phases
<1>2. stack # <<>>
  BY <1>1 DEF ToSet
<1>3. Tracked(v)
  BY DEF Inv
<1> QED BY <1>1, <1>2, <1>3 DEF Inv, Phases, Tracked, Accounted

LEMMA OfIs ==
  ASSUME NEW v \in Window
  PROVE  /\ \A w \in {"create", "destroy", "map", "unmap", "leave"} :
              /\ Of(w, v) \in Event /\ Telling(Of(w, v), Kinds, v) /\ Of(w, v).what = w /\ Of(w, v).of = v
              /\ \A K : Telling(Of(w, v), K, v) <=> w \in K
         /\ \A g \in Geom : LET e == [what |-> "configure", of |-> v, geom |-> g] IN
              /\ e \in Event /\ Telling(e, Kinds, v) /\ e.what = "configure" /\ e.of = v /\ e.geom = g
              /\ \A K : Telling(e, K, v) <=> "configure" \in K
BY DEF Of, Event, Telling, Kinds

(* A window that is leaving the desktop needs no more.                     *)
LEMMA LeftIs ==
  ASSUME Inv, NEW v \in Window, Child(v), ~Child(v)', NEW w \in Parting, queue' = Append(queue, Of(w, v)),
         comp'.direct = comp.direct
  PROVE  Tracked(v)'
<1>1. Tracked(v) /\ queue \in Seq(Event)
  BY DEF Inv, TypeOK
<1>2. Of(w, v) \in Event /\ \A K : Telling(Of(w, v), K, v) <=> w \in K
  BY OfIs DEF Parting
<1>3. Has(queue', Parting, v)
  BY <1>1, <1>2, AppendQueue
<1>4. FirstCreate(queue', v)
  <2>1. ~Telling(Of(w, v), {"create"}, v)
    BY <1>2 DEF Parting
  <2> QED BY <1>1, <1>2, <2>1, FirstCreateKeeps DEF Tracked, Accounted
<1> QED BY <1>3, <1>4 DEF Tracked, Accounted, Agreed, Pictured

LEMMA UnsaidIs ==
  ASSUME NEW q, NEW K, NEW v, ~Has(q, K, v), NEW f, NEW b
  PROVE  LastSays(q, K, v, f, b) /\ Says(q, K, v) = {}
BY DEF Has, Says, LastSays

LEMMA XCreateKeeps ==
  ASSUME Inv, NEW v \in Window, XCreate(v)
  PROVE  Inv'
<1> DEFINE e == Of("create", v)
<1>1. TypeOK /\ Listed /\ Phases /\ Tracked(v)
  BY DEF Inv
<1>2. queue \in Seq(Event) /\ comp.wins \in Seq(Entry) /\ x \in [Window -> WindowType] /\ stack \in Seq(Window) /\ IsInjective(stack)
  BY <1>1 DEF TypeOK, WindowType
<1>3. PICK g \in Geom \ {"off"} : x' = [x EXCEPT ![v] = [NoWindow EXCEPT !.at = "child", !.geom = g]]
  BY DEF XCreate
<1>4. /\ x' \in [Window -> WindowType] /\ x'[v].at = "child" /\ x'[v].mapped = FALSE /\ x'[v].geom = g
      /\ \A u \in Window \ {v} : x'[u] = x[u]
  BY <1>2, <1>3 DEF NoWindow, WindowType, Geom, Sizes
<1>5. ~find(comp.wins, v)
  BY DEF XCreate, find
<1>6. ~Has(queue, Kinds, v)
  <2>1. \A i \in DOMAIN queue : queue[i] \in Event
    BY <1>2
  <2>2. \A i \in DOMAIN queue : queue[i].what \in Kinds => "of" \in DOMAIN queue[i]
    BY <2>1, EventIs
  <2> QED BY <2>2 DEF XCreate, Has, Telling
<1>7. ~Entered(v)
  <2>1. ~Adding(v)
    BY DEF XCreate
  <2>2. \A d \in Live(comp.wins) : d.id # v
    BY <1>2, <1>5, LiveType
  <2> QED BY <2>1, <2>2 DEF Entered, Entries, Adding
<1>8. comp' = comp /\ pc' = pc /\ adding' = adding /\ desk' = desk /\ desk # "gone" /\ Send(e) /\ stack' = Append(stack, v) /\ v # comp.direct
  BY DEF XCreate, Mine
<1>9. v \notin ToSet(stack)
  BY <1>1 DEF XCreate, Phases, Child
<1>10. stack' \in Seq(Window) /\ IsInjective(stack') /\ ToSet(stack') = ToSet(stack) \cup {v}
  <2>1. stack' \in Seq(Window) /\ DOMAIN stack' = 1..(Len(stack) + 1) /\ DOMAIN stack = 1..Len(stack) /\ Len(stack) \in Nat
    BY <1>2, <1>8
  <2>2. stack'[Len(stack) + 1] = v /\ \A i \in 1..Len(stack) : stack'[i] = stack[i]
    BY <1>2, <1>8
  <2>3. \A i \in 1..Len(stack) : stack[i] # v
    BY <1>9, <2>1 DEF ToSet
  <2>4. 1..(Len(stack) + 1) = 1..Len(stack) \cup {Len(stack) + 1}
    BY <2>1
  <2> QED BY <1>2, <2>1, <2>2, <2>3, <2>4 DEF IsInjective, ToSet
<1>11. \A u \in Window : u \in ToSet(stack') <=> x'[u].at = "child"
  BY <1>1, <1>4, <1>10 DEF Phases, Child
<1>12. \A k, l \in DOMAIN stack' : stack'[k] # v /\ stack'[l] # v =>
         \E i, j \in DOMAIN stack : stack[i] = stack'[k] /\ stack[j] = stack'[l] /\ (i < j => k < l)
  <2>1. \A k \in DOMAIN stack' : stack'[k] # v => k \in DOMAIN stack /\ stack[k] = stack'[k]
    BY <1>2, <1>8
  <2> QED BY <2>1
<1>13. ASSUME pc # "detached", queue' = Append(queue, e) PROVE Tracked(v)'
  <2>1. e \in Event /\ \A K : Telling(e, K, v) <=> "create" \in K
    BY OfIs
  <2>2. \A K \in SUBSET Kinds : Has(queue', K, v) <=> "create" \in K
    <3>1. \A K \in SUBSET Kinds : ~Has(queue, K, v)
      BY <1>6 DEF Has, Telling
    <3> QED BY <1>2, <1>13, <2>1, <3>1, AppendQueue
  <2>3. /\ Has(queue', {"create"}, v) /\ ~Has(queue', Parting, v) /\ ~Has(queue', Visibility, v)
        /\ ~Has(queue', {"configure"}, v)
    <3>1. {"create"} \in SUBSET Kinds /\ Parting \in SUBSET Kinds /\ Visibility \in SUBSET Kinds /\ {"configure"} \in SUBSET Kinds
      BY DEF Kinds, Parting, Visibility
    <3> QED BY <2>2, <3>1 DEF Parting, Visibility
  <2>4. FirstCreate(queue', v)
    BY <1>1, <1>2, <1>6, <1>13, <2>1, FirstCreateKeeps DEF Tracked, Accounted
  <2>5. Accounted(v)'
    BY <1>4, <1>8, <2>3, <2>4 DEF Accounted, Child, Heard
  <2>6. Entries' = Entries
    BY <1>8 DEF Entries
  <2>7. \A d \in Entries : d.id # v
    BY <1>7 DEF Entered
  <2>8. Agreed(v)'
    BY <1>4, <2>3, <2>6, <2>7, UnsaidIs DEF Agreed, MapsTo, ConfsTo
  <2>9. Pictured(v)'
    <3>1. Live(comp'.wins) \subseteq Entries'
      BY DEF Entries
    <3> QED BY <2>6, <2>7, <3>1 DEF Pictured
  <2> QED BY <2>5, <2>8, <2>9 DEF Tracked
<1>14. e \in Event /\ Telling(e, Kinds, v)
  BY OfIs
<1>15. ~Shows(v)'
  BY <1>4 DEF Shows
<1> HIDE DEF e
<1> QED BY <1>4, <1>5, <1>8, <1>10, <1>11, <1>12, <1>13, <1>14, <1>15, ServerKeeps

(* What leaving the desktop does to the order.                             *)
LEMMA OrderWithout ==
  ASSUME Inv, NEW v \in Window, stack' = Without(stack, v)
  PROVE  /\ stack' \in Seq(Window) /\ IsInjective(stack') /\ ToSet(stack') = ToSet(stack) \ {v}
         /\ desk = "gone" => stack' = <<>>
         /\ \A k, l \in DOMAIN stack' :
              \E i, j \in DOMAIN stack : stack[i] = stack'[k] /\ stack[j] = stack'[l] /\ (i < j => k < l)
<1>1. stack \in Seq(Window) /\ IsInjective(stack) /\ (desk = "gone" => stack = <<>>)
  BY DEF Inv, TypeOK, Phases
<1>2. /\ stack' \in Seq(Window) /\ IsInjective(stack') /\ ToSet(stack') = ToSet(stack) \ {v}
      /\ \A k, l \in DOMAIN stack' : \A i, j \in DOMAIN stack :
           stack'[k] = stack[i] /\ stack'[l] = stack[j] /\ i < j => k < l
  BY <1>1, WithoutIs
<1>3. \A k \in DOMAIN stack' : \E i \in DOMAIN stack : stack[i] = stack'[k]
  <2>1. \A k \in DOMAIN stack' : stack'[k] \in ToSet(stack')
    BY DEF ToSet
  <2> QED BY <1>2, <2>1 DEF ToSet
<1>4. ASSUME desk = "gone" PROVE stack' = <<>>
  <2>1. ToSet(stack') = {}
    BY <1>1, <1>2, <1>4 DEF ToSet
  <2>2. DOMAIN stack' = {}
    BY <2>1 DEF ToSet
  <2> QED BY <1>2, <2>2
<1> QED BY <1>2, <1>3, <1>4

LEMMA XDestroyKeeps ==
  ASSUME Inv, NEW v \in Window, XDestroy(v)
  PROVE  Inv'
<1> DEFINE e == Of("destroy", v)
<1>1. TypeOK /\ Listed /\ Phases /\ Tracked(v) /\ queue \in Seq(Event) /\ x \in [Window -> WindowType]
  BY DEF Inv, TypeOK, WindowType
<1>2. x' \in [Window -> WindowType] /\ x'[v].at # "child" /\ \A u \in Window \ {v} : x'[u] = x[u]
  BY <1>1 DEF XDestroy, NoWindow, WindowType, Geom, Sizes
<1>3. Stale(v) /\ pc' = pc /\ adding' = adding /\ desk' = desk /\ stack' = Without(stack, v)
  BY DEF XDestroy, Mine
<1>4. /\ stack' \in Seq(Window) /\ IsInjective(stack') /\ ToSet(stack') = ToSet(stack) \ {v}
      /\ desk = "gone" => stack' = <<>>
      /\ \A k, l \in DOMAIN stack' :
           \E i, j \in DOMAIN stack : stack[i] = stack'[k] /\ stack[j] = stack'[l] /\ (i < j => k < l)
  BY <1>3, OrderWithout
<1>5. \A u \in Window : u \in ToSet(stack') <=> x'[u].at = "child"
  BY <1>1, <1>2, <1>4 DEF Phases, Child
<1>6. e \in Event /\ Telling(e, Kinds, v) /\ e.what = "destroy"
  BY OfIs
<1>7. CASE Child(v)
  <2>1. desk # "gone" /\ Send(e)
    BY <1>7, ChildIs DEF XDestroy, Child
  <2>2. comp'.direct = comp.direct
    BY <1>1, <1>3, StaleIs
  <2>3. ASSUME queue' = Append(queue, e) PROVE Tracked(v)'
    BY <1>2, <1>7, <2>2, <2>3, LeftIs DEF Child, Parting
  <2> HIDE DEF e
  <2> QED BY <1>2, <1>3, <1>4, <1>5, <1>6, <2>1, <2>3, ServerKeeps
<1>8. CASE ~Child(v)
  <2>1. queue' = queue
    BY <1>8 DEF XDestroy, Child
  <2>2. TypeOK' /\ Phases' /\ (pc = "detached" => Inv')
    BY <1>1, <1>2, <1>3, <1>4, <1>5, <2>1, ServerTypes
  <2>3. /\ comp \in CompType /\ Listed' /\ comp'.direct = comp.direct /\ comp'.size = comp.size
        /\ comp'.owed = comp.owed /\ comp'.drawn = comp.drawn /\ comp'.swapped = comp.swapped
        /\ \A u : (find(comp'.wins, u) <=> find(comp.wins, u)) /\ (Entered(u)' <=> Entered(u)) /\ (Waits(u)' <=> Waits(u))
        /\ \A f \in Live(comp'.wins) : f.id # v => \E d \in Live(comp.wins) : Alike(f, d)
        /\ \A f \in Entries' : \E d \in Entries : f.id = d.id /\ f.mapped = d.mapped /\ f.geom = d.geom
    <3>1. comp \in CompType
      BY <1>1 DEF TypeOK, CompType
    <3> QED BY <1>1, <1>3, <3>1, StaleIs DEF Alike
  <2>4. Working' <=> Working
    BY <1>3 DEF Working
  <2>5. Desktops'
    BY <1>3, <2>1, <2>3, <2>4 DEF Inv, Desktops
  <2>6. ASSUME NEW u \in Window PROVE Tracked(u)'
    <3>1. CASE u = v
      <4>1. ~Child(u)' /\ (Heard(u)' <=> Heard(u))
        BY <1>2, <2>1, <2>3, <3>1 DEF Child, Heard
      <4> QED BY <1>1, <1>8, <2>1, <3>1, <4>1 DEF Tracked, Accounted, Agreed, Pictured
    <3>2. CASE u # v
      <4>1. Tracked(u) /\ Silent(queue, queue', u)
        BY <2>1, SilentSame DEF Inv
      <4> QED BY <1>2, <2>3, <2>4, <3>2, <4>1, UntouchedStays
    <3> QED BY <3>1, <3>2
  <2>7. Screen'
    <3>1. \A u \in Window : Shows(u)' <=> Shows(u)
      BY <1>2, <1>8 DEF Shows, Child
    <3>2. SettledStay
      BY <2>1, <3>1 DEF SettledStay
    <3>3. OrderStays
      BY <1>4 DEF OrderStays
    <3>4. Screen /\ \A u : find(comp.wins, u) => find(comp'.wins, u)
      BY <2>3 DEF Inv
    <3> QED BY <2>3, <2>4, <3>2, <3>3, <3>4, ScreenStays
  <2> QED BY <2>2, <2>3, <2>5, <2>6, <2>7 DEF Inv
<1> QED BY <1>7, <1>8

LEMMA XLeaveKeeps ==
  ASSUME Inv, NEW v \in Window, XLeave(v)
  PROVE  Inv'
<1> DEFINE e == Of("leave", v)
<1>1. TypeOK /\ Listed /\ Phases /\ x \in [Window -> WindowType] /\ Child(v)
  BY DEF Inv, TypeOK, WindowType, XLeave, Child
<1>2. x' \in [Window -> WindowType] /\ x'[v].at # "child" /\ \A u \in Window \ {v} : x'[u] = x[u]
  <2>1. x' = [x EXCEPT ![v] = [x[v] EXCEPT !.at = "away", !.geom = "small"]]
    BY <1>1 DEF XLeave
  <2> QED BY <1>1, <2>1 DEF WindowType, Geom, Sizes
<1>3. comp' = comp /\ pc' = pc /\ adding' = adding /\ desk' = desk /\ stack' = Without(stack, v) /\ Send(e)
  BY DEF XLeave, Mine
<1>4. /\ stack' \in Seq(Window) /\ IsInjective(stack') /\ ToSet(stack') = ToSet(stack) \ {v}
      /\ \A k, l \in DOMAIN stack' :
           \E i, j \in DOMAIN stack : stack[i] = stack'[k] /\ stack[j] = stack'[l] /\ (i < j => k < l)
  BY <1>3, OrderWithout
<1>5. \A u \in Window : u \in ToSet(stack') <=> x'[u].at = "child"
  BY <1>1, <1>2, <1>4 DEF Phases, Child
<1>6. e \in Event /\ Telling(e, Kinds, v) /\ e.what = "leave" /\ desk # "gone"
  BY <1>1, OfIs, ChildIs
<1>7. ASSUME queue' = Append(queue, e) PROVE Tracked(v)'
  BY <1>1, <1>2, <1>3, <1>7, LeftIs DEF Child, Parting
<1> HIDE DEF e
<1> QED BY <1>2, <1>3, <1>4, <1>5, <1>6, <1>7, ServerKeeps

(* A window that stays on the desktop, of which something is said.         *)
LEMMA StaysIs ==
  ASSUME Inv, NEW v \in Window, Child(v), Child(v)', NEW e \in Event, e.what \in {"map", "unmap", "configure"}, e.of = v,
         queue' = Append(queue, e), comp' = comp \/ Stale(v), pc' = pc, adding' = adding
  PROVE  /\ Accounted(v)'
         /\ \A K : Has(queue, K, v) => Has(queue', K, v)
         /\ \A f \in Entries' : f.id = v => \E d \in Entries : d.id = v /\ f.mapped = d.mapped /\ f.geom = d.geom
         /\ (Entered(v)' <=> Entered(v)) /\ (Waits(v)' <=> Waits(v)) /\ (Working' <=> Working)
<1>1. Tracked(v) /\ queue \in Seq(Event) /\ TypeOK /\ Listed
  BY DEF Inv, TypeOK
<1>2. \A K : Has(queue', K, v) <=> Has(queue, K, v) \/ Telling(e, K, v)
  BY <1>1, AppendQueue
<1>3. ~Telling(e, {"create"}, v) /\ ~Telling(e, Parting, v)
  BY DEF Telling, Parting
<1>4. FirstCreate(queue', v)
  BY <1>1, <1>3, FirstCreateKeeps DEF Tracked, Accounted
<1>5. /\ comp'.direct = comp.direct /\ \A u : (find(comp'.wins, u) <=> find(comp.wins, u)) /\ (Entered(u)' <=> Entered(u))
      /\ \A u : Waits(u)' <=> Waits(u)
      /\ \A f \in Entries' : \E d \in Entries : f.id = d.id /\ f.mapped = d.mapped /\ f.geom = d.geom
  BY <1>1, StaleIs
<1>6. Working' <=> Working
  BY DEF Working
<1>7. Accounted(v)'
  BY <1>1, <1>2, <1>3, <1>4, <1>5, <1>6 DEF Tracked, Accounted, Heard
<1> QED BY <1>2, <1>5, <1>6, <1>7

LEMMA XMapKeeps ==
  ASSUME Inv, NEW v \in Window, XMap(v)
  PROVE  Inv'
<1> DEFINE e == Of(IF x[v].mapped THEN "unmap" ELSE "map", v)
<1>1. TypeOK /\ Listed /\ Phases /\ Tracked(v) /\ queue \in Seq(Event) /\ x \in [Window -> WindowType] /\ Child(v)
  BY DEF Inv, TypeOK, WindowType, XMap, Child
<1>2. x'[v] = [x[v] EXCEPT !.mapped = ~@] /\ x' \in [Window -> WindowType] /\ \A u \in Window \ {v} : x'[u] = x[u]
  BY <1>1 DEF XMap, WindowType
<1>3. /\ x'[v].at = x[v].at /\ x'[v].geom = x[v].geom /\ x'[v].redirected = x[v].redirected
      /\ x'[v].mapped = ~x[v].mapped /\ x[v].mapped \in BOOLEAN
  BY <1>1, <1>2 DEF WindowType
<1>4. Stale(v) /\ pc' = pc /\ adding' = adding /\ desk' = desk /\ stack' = stack /\ Send(e)
  BY DEF XMap, Mine
<1>5. e \in Event /\ Telling(e, Kinds, v) /\ e.what \in {"map", "unmap"} /\ e.of = v /\ desk # "gone" /\ (e.what = "map" <=> ~x[v].mapped)
  BY <1>1, OfIs, ChildIs
<1> HIDE DEF e
<1>6. ASSUME pc # "detached", queue' = Append(queue, e) PROVE Tracked(v)'
  <2>1. Child(v)'
    BY <1>1, <1>3 DEF Child
  <2>2. /\ Accounted(v)'
        /\ \A K : Has(queue, K, v) => Has(queue', K, v)
        /\ \A f \in Entries' : f.id = v => \E d \in Entries : d.id = v /\ f.mapped = d.mapped /\ f.geom = d.geom
    BY <1>1, <1>4, <1>5, <1>6, <2>1, StaysIs
  <2>3. Telling(e, Visibility, v) /\ ~Telling(e, {"configure"}, v)
    BY <1>5 DEF Telling, Visibility
  <2>4. Has(queue', Visibility, v)
    BY <1>1, <1>5, <1>6, <2>3, AppendQueue
  <2>5. MapsTo(queue', v, x'[v].mapped)
    <3>1. Mapping[e] = x'[v].mapped
      BY <1>3, <1>5 DEF Mapping
    <3> QED BY <1>1, <1>5, <1>6, <2>3, <3>1, LastKeeps DEF MapsTo
  <2>6. ConfsTo(queue', v, x'[v].geom)
    BY <1>1, <1>3, <1>5, <1>6, <2>3, LastKeeps DEF ConfsTo, Tracked, Agreed
  <2>7. Agreed(v)'
    <3>1. Agreed(v)
      BY <1>1 DEF Tracked
    <3> QED BY <1>1, <1>3, <2>2, <2>4, <2>5, <2>6, <3>1 DEF Agreed
  <2>8. Pictured(v)'
    <3>1. comp'.direct = comp.direct /\ \A f \in Live(comp'.wins) : \E d \in Live(comp.wins) : f.id = d.id /\ f.managed = d.managed
      BY <1>1, <1>4, StaleIs
    <3>2. Pictured(v)
      BY <1>1 DEF Tracked
    <3> QED BY <1>1, <1>3, <2>4, <3>1, <3>2 DEF Pictured
  <2> QED BY <2>2, <2>7, <2>8 DEF Tracked
<1>7. stack' \in Seq(Window) /\ IsInjective(stack')
  BY <1>1, <1>4 DEF TypeOK
<1>8. \A u \in Window : u \in ToSet(stack') <=> x'[u].at = "child"
  BY <1>1, <1>2, <1>3, <1>4 DEF Phases, Child
<1> QED BY <1>2, <1>4, <1>5, <1>6, <1>7, <1>8, ServerKeeps

(* What is said of a window has a last.                                    *)
LEMMA LastIs ==
  ASSUME NEW q \in Seq(Event), NEW K, NEW v, Has(q, K, v)
  PROVE  \E i \in Says(q, K, v) : \A j \in Says(q, K, v) : j <= i
<1> DEFINE back == {n \in 0..Len(q) : Len(q) - n \in Says(q, K, v)}
<1>1. Len(q) \in Nat /\ \A i \in Says(q, K, v) : i \in 1..Len(q)
  BY DEF Says
<1>2. PICK i \in DOMAIN q : i \in Says(q, K, v)
  BY DEF Has, Says
<1>3. Len(q) - i \in back
  BY <1>1, <1>2
<1>4. back \in SUBSET Nat
  BY <1>1
<1>5. \E n \in back : \A m \in back : n <= m
  <2> HIDE DEF back
  <2> QED BY <1>3, <1>4, Least
<1>6. PICK n \in back : \A m \in back : n <= m
  BY <1>5
<1>7. \A j \in Says(q, K, v) : Len(q) - j \in back
  BY <1>1
<1>8. \A j \in Says(q, K, v) : j <= Len(q) - n
  <2> TAKE j \in Says(q, K, v)
  <2>1. n <= Len(q) - j /\ n \in Nat
    <3> HIDE DEF back
    <3> QED BY <1>4, <1>6, <1>7
  <2> QED BY <1>1, <2>1
<1> QED BY <1>6, <1>8

(* A size told of that an entry does not have, or that the server's window *)
(* has not any more: either way one is to be read.                         *)
LEMMA ConfigureResizes ==
  ASSUME NEW q \in Seq(Event), NEW v, NEW h \in Geom, NEW g \in Geom, NEW k \in Geom,
         ConfsTo(q, v, k), ~Has(q, {"configure"}, v) => h = k, ~SameSize(g, k), ~Resizes(q, v, h)
  PROVE  ~SameSize(h, g)
<1>1. SUFFICES ASSUME SameSize(h, g) PROVE FALSE
  OBVIOUS
<1>2. ~SameSize(h, k)
  BY <1>1, SameSizeIs
<1>3. Has(q, {"configure"}, v)
  BY <1>2, SameSizeIs
<1>4. PICK i \in Says(q, {"configure"}, v) : \A j \in Says(q, {"configure"}, v) : j <= i
  BY <1>3, LastIs
<1>5. k = q[i].geom
  <2>1. i \in DOMAIN q
    BY DEF Says
  <2>2. q[i] \in Event
    BY <2>1
  <2> QED BY <1>4, <2>2 DEF ConfsTo, LastSays, Placing
<1> QED BY <1>2, <1>5 DEF Resizes

LEMMA AppendResizes ==
  ASSUME NEW q \in Seq(Event), NEW e \in Event, NEW v, NEW g
  PROVE  /\ Resizes(q, v, g) => Resizes(Append(q, e), v, g)
         /\ Telling(e, {"configure"}, v) /\ ~SameSize(g, e.geom) => Resizes(Append(q, e), v, g)
<1> DEFINE r == Append(q, e)
           n == Len(q) + 1
           C == {"configure"}
<1>1. /\ r[n] = e /\ \A i \in DOMAIN q : r[i] = q[i]
      /\ Says(r, C, v) = Says(q, C, v) \cup IF Telling(e, C, v) THEN {n} ELSE {}
  BY AppendQueue
<1>2. Says(q, C, v) \subseteq DOMAIN q
  BY DEF Says
<1> HIDE DEF r, n
<1> QED BY <1>1, <1>2 DEF Resizes, r

LEMMA XConfigureKeeps ==
  ASSUME Inv, NEW v \in Window, NEW g \in Geom, XConfigure(v, g)
  PROVE  Inv'
<1> DEFINE e == [what |-> "configure", of |-> v, geom |-> g]
<1>1. TypeOK /\ Listed /\ Phases /\ Tracked(v) /\ queue \in Seq(Event) /\ x \in [Window -> WindowType] /\ Child(v)
  BY DEF Inv, TypeOK, WindowType, XConfigure, Child
<1>2. x'[v] = [x[v] EXCEPT !.geom = g] /\ x' \in [Window -> WindowType] /\ \A u \in Window \ {v} : x'[u] = x[u]
  BY <1>1 DEF XConfigure, WindowType
<1>3. /\ x'[v].at = x[v].at /\ x'[v].geom = g /\ x'[v].redirected = x[v].redirected /\ x'[v].mapped = x[v].mapped
      /\ x[v].geom \in Geom
  BY <1>1, <1>2 DEF WindowType
<1>4. /\ IF SameSize(g, x[v].geom) THEN comp' = comp ELSE Stale(v)
      /\ pc' = pc /\ adding' = adding /\ desk' = desk /\ stack' = stack /\ Send(e)
  BY DEF XConfigure, Mine
<1>5. e \in Event /\ Telling(e, Kinds, v) /\ e.what = "configure" /\ e.of = v /\ desk # "gone" /\ e.geom = g
  BY <1>1, OfIs, ChildIs
<1> HIDE DEF e
<1>6. ASSUME pc # "detached", queue' = Append(queue, e) PROVE Tracked(v)'
  <2>1. Child(v)'
    BY <1>1, <1>3 DEF Child
  <2>2. /\ Accounted(v)'
        /\ \A K : Has(queue, K, v) => Has(queue', K, v)
        /\ \A f \in Entries' : f.id = v => \E d \in Entries : d.id = v /\ f.mapped = d.mapped /\ f.geom = d.geom
        /\ (Entered(v)' <=> Entered(v)) /\ (Waits(v)' <=> Waits(v)) /\ (Working' <=> Working)
    BY <1>1, <1>4, <1>5, <1>6, <2>1, StaysIs
  <2>3. ~Telling(e, Visibility, v) /\ Telling(e, {"configure"}, v)
    BY <1>5 DEF Telling, Visibility
  <2>4. Has(queue', {"configure"}, v) /\ (Has(queue', Visibility, v) <=> Has(queue, Visibility, v))
    BY <1>1, <1>5, <1>6, <2>3, AppendQueue
  <2>5. ConfsTo(queue', v, x'[v].geom)
    <3>1. Placing[e] = x'[v].geom
      BY <1>3, <1>5 DEF Placing
    <3> QED BY <1>1, <1>5, <1>6, <2>3, <3>1, LastKeeps DEF ConfsTo
  <2>6. Agreed(v) /\ Pictured(v)
    BY <1>1 DEF Tracked
  <2>7. MapsTo(queue', v, x'[v].mapped)
    BY <1>1, <1>3, <1>5, <1>6, <2>3, <2>6, LastKeeps DEF MapsTo, Agreed
  <2>8. Agreed(v)'
    BY <1>1, <1>3, <2>2, <2>4, <2>5, <2>6, <2>7 DEF Agreed
  <2>9. Pictured(v)'
    <3> SUFFICES ASSUME NEW f \in Live(comp'.wins), f.id = v
                 PROVE  /\ f.managed
                        /\ x'[v].redirected <=> v # comp'.direct
                        /\ v # comp'.direct /\ f.mapped /\ ~Has(queue', Visibility, v) =>
                             f.pict # "none" /\ (f.pict = "stale" => Resizes(queue', v, f.geom))
      BY DEF Pictured
    <3>1. comp'.direct = comp.direct
      BY <1>1, <1>4, StaleIs
    <3>2. PICK d \in Live(comp.wins) :
            /\ f.id = d.id /\ f.mapped = d.mapped /\ f.managed = d.managed /\ f.geom = d.geom
            /\ f.pict = d.pict \/ (d.id = v /\ d.pict = "current" /\ f.pict = "stale" /\ Stale(v))
      BY <1>1, <1>4, StaleIs
    <3>3. /\ d.managed
          /\ x[v].redirected <=> v # comp.direct
          /\ v # comp.direct /\ d.mapped /\ ~Has(queue, Visibility, v) =>
               d.pict # "none" /\ (d.pict = "stale" => Resizes(queue, v, d.geom))
      BY <1>1, <2>6, <3>2 DEF Pictured
    <3>4. d \in Entries /\ d.geom \in Geom
      <4>1. d \in Entry
        BY <1>1, LiveType DEF TypeOK
      <4> QED BY <4>1 DEF Entries, Entry
    <3>5. ASSUME f.pict = "stale", v # comp.direct, f.mapped, ~Has(queue, Visibility, v)
          PROVE  Resizes(queue', v, f.geom)
      <4>1. CASE Resizes(queue, v, d.geom)
        BY <1>1, <1>5, <1>6, <3>2, <4>1, AppendResizes
      <4>2. CASE ~Resizes(queue, v, d.geom)
        <5>1. d.pict # "stale"
          BY <3>2, <3>3, <3>5, <4>2
        <5>2. comp' # comp \/ Stale(v)
          BY <3>2, <3>5, <5>1
        <5>3. ~SameSize(g, x[v].geom)
          <6>1. CASE comp' = comp
            <7>1. d = f
              BY <1>1, <3>2, <6>1, OneEntry DEF Listed, TypeOK
            <7> QED BY <3>5, <5>1, <7>1
          <6>2. CASE comp' # comp
            BY <1>4, <6>2
          <6> QED BY <6>1, <6>2
        <5>4. ~SameSize(d.geom, g)
          <6>1. ConfsTo(queue, v, x[v].geom) /\ (~Has(queue, {"configure"}, v) => d.geom = x[v].geom)
            BY <1>1, <2>6, <3>2, <3>4 DEF Agreed
          <6> QED BY <1>1, <1>3, <3>4, <4>2, <5>3, <6>1, ConfigureResizes
        <5> QED BY <1>1, <1>5, <1>6, <2>3, <3>2, <5>4, AppendResizes
      <4> QED BY <4>1, <4>2
    <3>6. f.pict = "none" => d.pict = "none"
      BY <3>2
    <3> QED BY <1>3, <2>4, <3>1, <3>2, <3>3, <3>5, <3>6
  <2> QED BY <2>2, <2>8, <2>9 DEF Tracked
<1>7. stack' \in Seq(Window) /\ IsInjective(stack')
  BY <1>1, <1>4 DEF TypeOK
<1>8. \A u \in Window : u \in ToSet(stack') <=> x'[u].at = "child"
  BY <1>1, <1>2, <1>3, <1>4 DEF Phases, Child
<1>9. comp' = comp \/ Stale(v)
  BY <1>4
<1> QED BY <1>2, <1>4, <1>5, <1>6, <1>7, <1>8, <1>9, ServerKeeps

LEMMA XRaiseKeeps ==
  ASSUME Inv, NEW v \in Window, XRaise(v)
  PROVE  Inv'
<1> DEFINE e == [what |-> "configure", of |-> v, geom |-> x[v].geom]
           s == Without(stack, v)
<1>1. TypeOK /\ Listed /\ Phases /\ Tracked(v) /\ queue \in Seq(Event) /\ x \in [Window -> WindowType] /\ Child(v)
  BY DEF Inv, TypeOK, WindowType, XRaise, Child
<1>2. comp' = comp /\ x' = x /\ pc' = pc /\ adding' = adding /\ desk' = desk /\ stack' = Append(s, v) /\ Send(e)
  BY DEF XRaise, Mine
<1>3. x[v].geom \in Geom
  BY <1>1 DEF WindowType
<1>4. e \in Event /\ Telling(e, Kinds, v) /\ e.what = "configure" /\ e.of = v /\ desk # "gone" /\ e.geom = x[v].geom
  BY <1>1, <1>3, OfIs, ChildIs
<1>5. stack \in Seq(Window) /\ IsInjective(stack)
  BY <1>1 DEF TypeOK
<1>6. /\ s \in Seq(Window) /\ IsInjective(s) /\ ToSet(s) = ToSet(stack) \ {v}
      /\ \A k, l \in DOMAIN s : \A i, j \in DOMAIN stack : s[k] = stack[i] /\ s[l] = stack[j] /\ i < j => k < l
  BY <1>5, WithoutIs
<1> HIDE DEF e, s
<1>7. /\ stack' \in Seq(Window) /\ DOMAIN stack' = DOMAIN s \cup {Len(s) + 1} /\ stack'[Len(s) + 1] = v
      /\ Len(s) + 1 \notin DOMAIN s /\ \A i \in DOMAIN s : stack'[i] = s[i] /\ s[i] \in ToSet(s)
  <2>1. /\ stack' \in Seq(Window) /\ DOMAIN stack' = 1..(Len(s) + 1) /\ DOMAIN s = 1..Len(s) /\ Len(s) \in Nat
        /\ stack'[Len(s) + 1] = v /\ \A i \in 1..Len(s) : stack'[i] = s[i]
    BY <1>2, <1>6
  <2> QED BY <2>1 DEF ToSet
<1>8. IsInjective(stack') /\ ToSet(stack') = ToSet(stack)
  <2>1. v \in ToSet(stack)
    BY <1>1, ChildIs
  <2>2. \A i \in DOMAIN s : s[i] # v
    BY <1>6, <1>7
  <2>3. IsInjective(stack')
    BY <1>6, <1>7, <2>2 DEF IsInjective
  <2>4. ToSet(stack') = ToSet(s) \cup {v}
    BY <1>7 DEF ToSet
  <2> QED BY <1>6, <2>1, <2>3, <2>4
<1>9. \A k, l \in DOMAIN stack' : stack'[k] # v /\ stack'[l] # v =>
           \E i, j \in DOMAIN stack : stack[i] = stack'[k] /\ stack[j] = stack'[l] /\ (i < j => k < l)
  <2>1. \A k \in DOMAIN stack' : stack'[k] # v => k \in DOMAIN s /\ stack'[k] = s[k] /\ \E i \in DOMAIN stack : stack[i] = s[k]
    BY <1>6, <1>7 DEF ToSet
  <2> QED BY <1>6, <2>1
<1>10. ASSUME pc # "detached", queue' = Append(queue, e) PROVE Tracked(v)'
  <2>1. Child(v)'
    BY <1>1, <1>2 DEF Child
  <2>2. Accounted(v)' /\ \A K : Has(queue, K, v) => Has(queue', K, v)
    BY <1>1, <1>2, <1>4, <1>10, <2>1, StaysIs
  <2>3. ~Telling(e, Visibility, v) /\ Telling(e, {"configure"}, v)
    BY <1>4 DEF Telling, Visibility
  <2>4. Has(queue', {"configure"}, v) /\ (Has(queue', Visibility, v) <=> Has(queue, Visibility, v))
    BY <1>1, <1>4, <1>10, <2>3, AppendQueue
  <2>5. ConfsTo(queue', v, x'[v].geom)
    <3>1. Placing[e] = x'[v].geom
      BY <1>2, <1>4 DEF Placing
    <3> QED BY <1>1, <1>4, <1>10, <2>3, <3>1, LastKeeps DEF ConfsTo
  <2>6. Agreed(v) /\ Pictured(v)
    BY <1>1 DEF Tracked
  <2>7. MapsTo(queue', v, x'[v].mapped)
    BY <1>1, <1>2, <1>4, <1>10, <2>3, <2>6, LastKeeps DEF MapsTo, Agreed
  <2>8. Entries' = Entries /\ (Entered(v)' <=> Entered(v)) /\ (Waits(v)' <=> Waits(v)) /\ (Working' <=> Working)
    BY <1>2 DEF Entries, Entered, Waits, Working
  <2>9. Agreed(v)'
    BY <1>1, <1>2, <2>4, <2>5, <2>6, <2>7, <2>8 DEF Agreed
  <2>10. \A g : Resizes(queue, v, g) => Resizes(queue', v, g)
    BY <1>1, <1>4, <1>10, AppendResizes
  <2>11. Pictured(v)'
    BY <1>1, <1>2, <2>4, <2>6, <2>10 DEF Pictured
  <2> QED BY <2>2, <2>9, <2>11 DEF Tracked
<1>11. \A u \in Window : u \in ToSet(stack') <=> x'[u].at = "child"
  BY <1>1, <1>2, <1>8 DEF Phases, Child
<1> QED BY <1>1, <1>2, <1>4, <1>7, <1>8, <1>9, <1>10, <1>11, ServerKeeps

(* Nothing is said of windows, and nothing is done to them.                *)
LEMMA WindowsStay ==
  ASSUME Inv, x' = x, comp' = comp, adding' = adding, stack' = stack,
         pc' = pc \/ {pc, pc'} \subseteq {"poll", "events", "paint"},
         \A u : Silent(queue, queue', u)
  PROVE  Listed' /\ Screen' /\ \A u \in Window : Tracked(u)'
<1>1. (Working' <=> Working) /\ Entries' = Entries /\ (pc' = "add" <=> pc = "add")
  BY DEF Working, Entries
<1>2. Listed'
  BY <1>1 DEF Inv, Listed
<1>3. ASSUME NEW u \in Window PROVE Tracked(u)'
  <2>1. Tracked(u) /\ Silent(queue, queue', u)
    BY DEF Inv
  <2>2. \A e \in Live(comp.wins) : Alike(e, e)
    BY DEF Alike
  <2>3. (Entered(u)' <=> Entered(u)) /\ (Waits(u)' <=> Waits(u))
    BY <1>1 DEF Entered, Waits
  <2> QED BY <1>1, <2>1, <2>2, <2>3, UntouchedStays
<1>4. Screen'
  <2>1. comp \in CompType /\ Screen
    BY DEF Inv, TypeOK, CompType
  <2>2. \A u \in Window : Settled(queue', u) <=> Settled(queue, u)
    <3>1. Visibility \cup Parting \cup {"configure"} \in SUBSET Kinds
      BY DEF Visibility, Parting, Kinds
    <3> QED BY <3>1 DEF Settled, Silent
  <2>3. SettledStay
    BY <2>2 DEF SettledStay, Shows, Child
  <2>4. OrderStays
    BY DEF OrderStays
  <2> QED BY <1>1, <2>1, <2>3, <2>4, ScreenStays
<1> QED BY <1>2, <1>3, <1>4

LEMMA XDesktopKeeps ==
  ASSUME Inv, XDesktop
  PROVE  Inv'
<1>1. TypeOK /\ Phases /\ Desktops /\ Listed /\ queue \in Seq(Event)
  BY DEF Inv, TypeOK
<1>2. x' = x /\ stack' = stack /\ pc' = pc /\ adding' = adding /\ comp' = comp
  BY DEF XDesktop
<1>3. ASSUME NEW e \in Event, Send(e), e.what \in {"resize", "gone"}, desk # "gone",
             desk' \in {"large", "gone"}, desk' = "gone" => stack = <<>> /\ pc # "attach",
             e.what = "gone" <=> desk' = "gone", e.what = "resize" => e.size = "large" /\ desk = "small"
      PROVE  Inv'
  <2>1. queue' \in Seq(Event) /\ IF pc = "detached" THEN queue' = queue ELSE queue' = Append(queue, e)
    BY <1>1, <1>3, SendIs
  <2>2. TypeOK'
    BY <1>1, <1>2, <1>3, <2>1 DEF TypeOK
  <2>3. Phases'
    BY <1>1, <1>2, <1>3, <2>1 DEF Phases, Working, Child
  <2>4. CASE pc = "detached"
    <3>1. queue' = <<>> /\ ~Working' /\ Desktops'
      BY <1>1, <1>2, <2>1, <2>4 DEF Phases, Desktops, Working
    <3>2. (TypeOK /\ Phases /\ ~Working /\ queue = <<>> /\ Desktops => Inv)'
      BY DeafKeeps, PTL
    <3> QED BY <2>2, <2>3, <3>1, <3>2
  <2>5. CASE pc # "detached"
    <3>1. /\ queue' = Append(queue, e) /\ DOMAIN queue' = DOMAIN queue \cup {Len(queue) + 1} /\ Len(queue') = Len(queue) + 1
          /\ queue'[Len(queue) + 1] = e /\ \A i \in DOMAIN queue : queue'[i] = queue[i]
      BY <1>1, <2>1, <2>5, AppendQueue
    <3>2. \A i \in DOMAIN queue : queue[i].what # "gone"
      BY <1>1, <1>3, <2>5 DEF Desktops
    <3>3. Desktops'
      <4>1. \A i \in DOMAIN queue' : queue'[i].what = "gone" => i = Len(queue')
        BY <3>1, <3>2
      <4>2. desk' = "gone" <=> \E i \in DOMAIN queue' : queue'[i].what = "gone"
        BY <1>3, <3>1, <3>2
      <4>3. Working' => comp'.size = desk' \/ desk' = "gone" \/ \E i \in DOMAIN queue' : queue'[i].what = "resize"
        BY <1>3, <3>1
      <4>4. \A i \in DOMAIN queue' : queue'[i].what = "resize" => desk' \in {"large", "gone"} /\ queue'[i].size = "large"
        BY <1>1, <1>3, <3>1 DEF Desktops
      <4> QED BY <4>1, <4>2, <4>3, <4>4 DEF Desktops
    <3>4. \A u : Silent(queue, queue', u)
      <4>1. \A u : ~Telling(e, Kinds, u)
        BY <1>3 DEF Telling, Kinds
      <4> QED BY <1>1, <3>1, <4>1, SilentAppend
    <3>5. Listed' /\ Screen' /\ \A u \in Window : Tracked(u)'
      BY <1>2, <3>4, WindowsStay
    <3> QED BY <2>2, <2>3, <3>3, <3>5 DEF Inv
  <2> QED BY <2>4, <2>5
<1>4. CASE desk = "gone" /\ pc = "detached" /\ desk' = "small" /\ UNCHANGED queue
  <2>1. TypeOK' /\ Phases'
    BY <1>1, <1>2, <1>4 DEF TypeOK, Phases, Working, Child
  <2>2. queue' = <<>> /\ ~Working' /\ Desktops'
    BY <1>1, <1>2, <1>4 DEF Phases, Desktops, Working
  <2>3. (TypeOK /\ Phases /\ ~Working /\ queue = <<>> /\ Desktops => Inv)'
    BY DeafKeeps, PTL
  <2> QED BY <2>1, <2>2, <2>3
<1>5. CASE desk = "small" /\ desk' = "large" /\ Send([what |-> "resize", size |-> "large"])
  <2>1. [what |-> "resize", size |-> "large"] \in Event
    BY DEF Event, Sizes
  <2> QED BY <1>3, <1>5, <2>1
<1>6. CASE desk # "gone" /\ stack = <<>> /\ pc # "attach" /\ desk' = "gone" /\ Send([what |-> "gone"])
  <2>1. [what |-> "gone"] \in Event
    BY DEF Event
  <2> QED BY <1>3, <1>6, <2>1
<1> QED BY <1>4, <1>5, <1>6 DEF XDesktop

LEMMA ProgramsKeep ==
  ASSUME Inv, Programs
  PROVE  Inv'
BY XCreateKeeps, XDestroyKeeps, XLeaveKeeps, XMapKeeps, XConfigureKeeps, XRaiseKeeps, XDesktopKeeps DEF Programs

----------------------------------------------------------------------------
(* sg-deskcomp's own steps.                                                *)

LEMMA AttachKeeps ==
  ASSUME Inv, Attach
  PROVE  Inv'
<1>1. TypeOK' /\ Phases'
  BY DEF Inv, Attach, TypeOK, Phases, Working, Child
<1>2. queue' = <<>> /\ ~Working' /\ Desktops'
  BY DEF Inv, Attach, Phases, Desktops, Working
<1>3. (TypeOK /\ Phases /\ ~Working /\ queue = <<>> /\ Desktops => Inv)'
  BY DeafKeeps, PTL
<1> QED BY <1>1, <1>2, <1>3

LEMMA OnGoneKeeps ==
  ASSUME Inv, OnGone
  PROVE  Inv'
<1>1. queue \in Seq(Event) /\ queue # <<>> /\ Head(queue).what = "gone" /\ queue' = Tail(queue)
  BY DEF Inv, TypeOK, OnGone, Read
<1>2. 1 \in DOMAIN queue /\ queue[1] = Head(queue) /\ Len(queue) \in Nat /\ queue' \in Seq(Event) /\ Len(queue') = Len(queue) - 1
  BY <1>1, TailQueue
<1>3. Len(queue) = 1
  BY <1>1, <1>2 DEF Inv, Desktops
<1>4. queue' = <<>>
  BY <1>2, <1>3
<1>5. comp' = NoComp /\ pc' = "detached" /\ x' = x /\ stack' = stack /\ desk' = desk /\ adding' = adding
  BY DEF OnGone, Then
<1>6. TypeOK'
  BY <1>4, <1>5, Bounds DEF Inv, TypeOK, NoComp, Sizes
<1>7. Phases' /\ ~Working' /\ Desktops'
  BY <1>4, <1>5 DEF Inv, Phases, Desktops, Working, Child, NoComp
<1>8. (TypeOK /\ Phases /\ ~Working /\ queue = <<>> /\ Desktops => Inv)'
  BY DeafKeeps, PTL
<1> QED BY <1>4, <1>6, <1>7, <1>8

LEMMA GetPicturesIs ==
  ASSUME NEW e \in Entry, NEW d, NEW y
  PROVE  LET f == get_pictures(e, d, y) IN
         /\ f \in Entry /\ f = [e EXCEPT !.pict = f.pict]
         /\ f.id = e.id /\ f.mapped = e.mapped /\ f.managed = e.managed /\ f.geom = e.geom /\ f.ghost = e.ghost
         /\ e.mapped /\ e.managed /\ e.id # d /\ y[e.id].mapped /\ y[e.id].redirected => f.pict = "current"
BY DEF get_pictures, Entry

LEMMA NewEntryIs ==
  ASSUME TypeOK, NEW v \in Window
  PROVE  /\ NewEntry(v) \in Entry /\ NewEntry(v).id = v /\ ~NewEntry(v).ghost
         /\ NewEntry(v).mapped = x[v].mapped /\ NewEntry(v).geom = x[v].geom
<1>1. x[v].mapped \in BOOLEAN /\ x[v].geom \in Geom /\ 0 \in 0..Frames
  BY Bounds DEF TypeOK
<1> QED BY <1>1 DEF NewEntry, Entry

LEMMA AddedIs ==
  ASSUME NEW e \in Entry, NEW y \in [Window -> WindowType]
  PROVE  LET f == Added(e, y) IN
         /\ f \in Entry /\ f.id = e.id /\ f.mapped = e.mapped /\ f.geom = e.geom /\ f.ghost = e.ghost
         /\ f.managed = y[e.id].redirected
         /\ e.mapped /\ e.id # comp.direct /\ y[e.id].mapped /\ y[e.id].redirected => f.pict = "current"
<1> DEFINE d == [e EXCEPT !.managed = y[e.id].redirected]
<1>1. e.id \in Window /\ y[e.id].redirected \in BOOLEAN
  BY DEF Entry, WindowType
<1>2. /\ d \in Entry /\ d.id = e.id /\ d.mapped = e.mapped /\ d.geom = e.geom /\ d.ghost = e.ghost
      /\ d.managed = y[e.id].redirected
  BY <1>1 DEF Entry
<1>3. Added(e, y) = get_pictures(d, comp.direct, y)
  BY DEF Added
<1> HIDE DEF d
<1> QED BY <1>2, <1>3, GetPicturesIs

(* Nothing is listed yet, and every child waits.                           *)
LEMMA attachKeeps ==
  ASSUME Inv, attach
  PROVE  Inv'
<1>1. /\ TypeOK /\ Phases /\ Desktops /\ stack \in Seq(Window) /\ comp = NoComp /\ pc = "attach" /\ desk \in Sizes
      /\ pc' = "adopt" /\ x' = x /\ stack' = stack /\ desk' = desk /\ queue' = queue /\ adding' = adding
  BY DEF Inv, TypeOK, Phases, attach, Working, Sizes
<1>2. comp' = [wins |-> <<>>, todo |-> stack, direct |-> None, canvas |-> TRUE, owed |-> TRUE, size |-> desk,
               drawn |-> <<>>, swapped |-> FALSE]
  BY <1>1 DEF attach, setup_canvas, Owing, OwingAll, NoComp
<1>3. <<>> \in Seq(Entry) /\ <<>> \in Seq(Window)
  OBVIOUS
<1>4. Live(comp'.wins) = {} /\ Once(comp'.wins) /\ \A v : ~find(comp'.wins, v)
  BY <1>2 DEF Live, Living, Once, find
<1>5. Entries' = {}
  BY <1>1, <1>4 DEF Entries
<1>6. TypeOK'
  BY <1>1, <1>2, <1>3 DEF TypeOK
<1>7. Phases' /\ Desktops' /\ Listed' /\ Screen'
  BY <1>1, <1>2, <1>4 DEF Phases, Desktops, Listed, Screen, Working, Child
<1>8. ASSUME NEW v \in Window PROVE Tracked(v)'
  <2>1. Tracked(v)
    BY DEF Inv
  <2>2. (Child(v)' <=> Child(v)) /\ (Waits(v)' <=> Child(v)) /\ ~Entered(v)' /\ Working'
    BY <1>1, <1>2, <1>5 DEF Phases, Child, Waits, Entered, Working
  <2>3. Accounted(v)'
    <3>1. comp'.direct # v
      BY <1>2, Bounds
    <3> QED BY <1>1, <2>1, <2>2, <3>1 DEF Tracked, Accounted, Heard
  <2>4. Agreed(v)'
    BY <1>1, <1>5, <2>1, <2>2 DEF Tracked, Agreed
  <2>5. Pictured(v)'
    BY <1>4 DEF Pictured
  <2> QED BY <2>3, <2>4, <2>5 DEF Tracked
<1> QED BY <1>6, <1>7, <1>8 DEF Inv

(* An event is read: the desktop's state is known as well as it was.       *)
LEMMA DesktopsRead ==
  ASSUME queue \in Seq(Event), Desktops, Working, queue # <<>>, queue' = Tail(queue), desk' = desk,
         pc' # "detached", Head(queue).what # "gone",
         desk = "gone" \/ comp'.size = desk \/ (comp'.size = comp.size /\ Head(queue).what # "resize")
  PROVE  Desktops'
<1>1. /\ Len(queue') = Len(queue) - 1 /\ Len(queue) \in Nat
      /\ \A i \in DOMAIN queue' : i \in Nat /\ i + 1 \in DOMAIN queue /\ queue'[i] = queue[i + 1]
      /\ \A i \in DOMAIN queue : i = 1 \/ (i - 1 \in DOMAIN queue' /\ queue[i] = queue'[i - 1])
      /\ queue[1] = Head(queue)
  BY TailQueue
<1>2. \A i \in DOMAIN queue' : queue'[i].what = "gone" => i = Len(queue')
  BY <1>1 DEF Desktops
<1>3. \A w : Head(queue).what # w => ((\E i \in DOMAIN queue' : queue'[i].what = w) <=> \E i \in DOMAIN queue : queue[i].what = w)
  <2> SUFFICES ASSUME NEW w, Head(queue).what # w
               PROVE  (\E i \in DOMAIN queue' : queue'[i].what = w) <=> \E i \in DOMAIN queue : queue[i].what = w
    OBVIOUS
  <2>1. ASSUME NEW i \in DOMAIN queue', queue'[i].what = w PROVE \E j \in DOMAIN queue : queue[j].what = w
    BY <1>1, <2>1
  <2>2. ASSUME NEW i \in DOMAIN queue, queue[i].what = w PROVE \E j \in DOMAIN queue' : queue'[j].what = w
    <3>1. i # 1
      BY <1>1, <2>2
    <3>2. i - 1 \in DOMAIN queue' /\ queue'[i - 1].what = w
      BY <1>1, <2>2, <3>1
    <3> QED BY <3>2
  <2> QED BY <2>1, <2>2
<1>4. desk' = "gone" <=> \E i \in DOMAIN queue' : queue'[i].what = "gone"
  BY <1>3 DEF Desktops, Working
<1>5. comp'.size = desk' \/ desk' = "gone" \/ \E i \in DOMAIN queue' : queue'[i].what = "resize"
  BY <1>3 DEF Desktops
<1>6. \A i \in DOMAIN queue' : queue'[i].what = "resize" => desk' \in {"large", "gone"} /\ queue'[i].size = "large"
  BY <1>1 DEF Desktops
<1> QED BY <1>2, <1>4, <1>5, <1>6 DEF Desktops

(* What is read of a window is nothing to the others.                      *)
LEMMA ReadKeeps ==
  ASSUME Inv, pc \in {"poll", "events"}, queue # <<>>, queue' = Tail(queue),
         NEW v \in Window, Telling(Head(queue), Kinds, v),
         x' = x, stack' = stack, desk' = desk,
         \/ pc' = "events" /\ adding' = adding
         \/ pc' = "add" /\ adding' \in Entry /\ ~adding'.ghost /\ adding'.id = v /\ ~find(comp'.wins, v),
         comp' \in CompType, Once(comp'.wins),
         comp'.direct = comp.direct, comp'.canvas = comp.canvas, comp'.size = comp.size, comp'.todo = comp.todo,
         \A u \in Window \ {v} : find(comp'.wins, u) <=> find(comp.wins, u),
         \A e \in Live(comp'.wins) : e.id # v => \E d \in Live(comp.wins) : Alike(e, d),
         Tracked(v)', Screen'
  PROVE  Inv'
<1>1. /\ TypeOK /\ Phases /\ Desktops /\ queue \in Seq(Event) /\ Working /\ Working'
      /\ comp.wins \in Seq(Entry) /\ comp'.wins \in Seq(Entry)
  BY DEF Inv, TypeOK, Working, CompType
<1>2. queue' \in Seq(Event)
  BY <1>1, TailQueue
<1>3. TypeOK'
  BY <1>1, <1>2 DEF TypeOK, CompType
<1>4. Phases'
  BY <1>1, Adopted DEF Phases, Working, Child
<1>5. Desktops'
  <2>1. Head(queue).what # "gone" /\ Head(queue).what # "resize"
    BY DEF Telling, Kinds
  <2>2. pc' # "detached"
    OBVIOUS
  <2> QED BY <1>1, <2>1, <2>2, DesktopsRead
<1>6. Listed'
  BY DEF Listed
<1>7. ASSUME NEW u \in Window, u # v PROVE Tracked(u)'
  <2>1. Tracked(u)
    BY DEF Inv
  <2>2. Silent(queue, queue', u)
    BY <1>1, <1>7, SilentTail DEF Telling
  <2>3. Entries = Live(comp.wins) /\ \A e \in Entries' : e.id = u => e \in Live(comp'.wins)
    BY <1>7 DEF Entries
  <2>4. \A e \in Live(comp'.wins) : e.id = u => e \in Entries'
    BY DEF Entries
  <2>5. (find(comp.wins, u) <=> \E e \in Live(comp.wins) : e.id = u) /\ (find(comp'.wins, u) <=> \E e \in Live(comp'.wins) : e.id = u)
    BY <1>1, LiveType
  <2>6. Entered(u)' <=> Entered(u)
    <3>1. Entered(u) <=> find(comp.wins, u)
      BY <2>3, <2>5 DEF Entered
    <3>2. (\E e \in Entries' : e.id = u) <=> find(comp'.wins, u)
      BY <2>3, <2>4, <2>5
    <3> QED BY <1>7, <3>1, <3>2 DEF Entered
  <2>7. \A e \in Live(comp'.wins) : e.id = u => \E d \in Live(comp.wins) : Alike(e, d)
    BY <1>7
  <2>8. \A e \in Entries' : e.id = u => \E d \in Entries : d.id = u /\ e.mapped = d.mapped /\ e.geom = d.geom
    BY <2>3, <2>7 DEF Alike
  <2>9. Waits(u)' <=> Waits(u)
    BY DEF Waits
  <2> QED BY <1>1, <1>7, <2>1, <2>2, <2>6, <2>7, <2>8, <2>9, UntouchedStays
<1> QED BY <1>3, <1>4, <1>5, <1>6, <1>7 DEF Inv

(* An event about a window that is not listed, other than that it came, is *)
(* about one that has left the desktop.                                    *)
LEMMA UnknownKeeps ==
  ASSUME Inv, pc \in {"poll", "events"}, queue # <<>>, queue' = Tail(queue),
         NEW v \in Window, Telling(Head(queue), Kinds \ {"create"}, v), ~find(comp.wins, v),
         Then("events"), comp' = comp
  PROVE  Inv'
<1>1. /\ TypeOK /\ queue \in Seq(Event) /\ comp \in CompType /\ comp.wins \in Seq(Entry) /\ Once(comp.wins)
      /\ Tracked(v) /\ Screen /\ Working /\ Working' /\ ~Waits(v) /\ ~Waits(v)'
  <2>1. comp.todo = <<>> /\ ~Waits(v)
    BY Adopted DEF Inv
  <2>2. Waits(v)' <=> Waits(v)
    BY DEF Waits
  <2> QED BY <2>1, <2>2 DEF Inv, TypeOK, CompType, Listed, Working, Then
<1>2. Telling(Head(queue), Kinds, v) /\ ~Telling(Head(queue), {"create"}, v)
  BY DEF Telling
<1>3. FirstCreate(queue', v) /\ ~Has(queue', {"create"}, v) /\ ~Has(queue, {"create"}, v)
  <2>1. FirstCreate(queue', v) /\ ~Has(queue', {"create"}, v)
    BY <1>1, <1>2, FirstCreateKeeps DEF Tracked, Accounted
  <2> QED BY <1>1, <1>2, <2>1, TailQueue
<1>4. Entries = Live(comp.wins) /\ Entries' = Live(comp.wins)
  BY DEF Entries, Then
<1>5. ~Entered(v) /\ ~Entered(v)'
  BY <1>1, <1>4, LiveType DEF Entered
<1>6. ~Child(v) /\ ~Child(v)'
  BY <1>1, <1>3, <1>5 DEF Tracked, Accounted, Heard, Child, Then
<1>7. Tracked(v)'
  BY <1>1, <1>3, <1>5, <1>6 DEF Tracked, Accounted, Heard, Agreed, Pictured
<1>8. Screen'
  <2>1. ASSUME NEW u \in Window, u # v PROVE Settled(queue', u) <=> Settled(queue, u)
    <3>1. Silent(queue, queue', u)
      BY <1>1, <1>2, <2>1, SilentTail DEF Telling
    <3>2. Visibility \cup Parting \cup {"configure"} \in SUBSET Kinds
      BY DEF Visibility, Parting, Kinds
    <3> QED BY <3>1, <3>2 DEF Settled, Silent
  <2>2. SettledStay
    BY <1>6, <2>1 DEF SettledStay, Shows, Child, Then
  <2>3. OrderStays
    BY DEF OrderStays, Then
  <2> QED BY <1>1, <2>2, <2>3, ScreenStays
<1>9. \A e \in Live(comp.wins) : Alike(e, e)
  BY DEF Alike
<1> QED BY <1>1, <1>2, <1>7, <1>8, <1>9, ReadKeeps DEF Then

LEMMA DrawnIs ==
  ASSUME comp \in CompType, NEW wins \in Seq(Entry), Drawn(wins)
  PROVE  /\ comp' \in CompType /\ comp'.wins = wins /\ comp'.owed
         /\ comp'.direct = comp.direct /\ comp'.canvas = comp.canvas /\ comp'.size = comp.size /\ comp'.todo = comp.todo
<1>1. comp' = [comp EXCEPT !.owed = TRUE, !.drawn = <<>>, !.wins = wins]
  BY DEF Drawn, Owing
<1>2. <<>> \in Seq(Window)
  OBVIOUS
<1> QED BY <1>1, <1>2 DEF CompType

(* What an event is about.                                                 *)
LEMMA AboutIs ==
  ASSUME Inv, NEW K \in SUBSET Kinds, \E w \in K : Read(w)
  PROVE  /\ pc \in {"poll", "events"} /\ queue # <<>> /\ queue' = Tail(queue) /\ queue \in Seq(Event)
         /\ comp \in CompType /\ comp.wins \in Seq(Entry) /\ Once(comp.wins) /\ comp.todo = <<>>
         /\ \E v \in Window :
              /\ Head(queue).of = v /\ Telling(Head(queue), K, v) /\ Telling(Head(queue), Kinds, v) /\ Tracked(v)
              /\ (Known <=> find(comp.wins, v)) /\ Its = The(comp.wins, v)
<1>1. /\ pc \in {"poll", "events"} /\ queue # <<>> /\ queue' = Tail(queue) /\ Head(queue).what \in K
  BY DEF Read
<1>2. queue \in Seq(Event) /\ comp \in CompType /\ comp.wins \in Seq(Entry) /\ Once(comp.wins) /\ comp.todo = <<>>
  BY <1>1, Adopted DEF Inv, TypeOK, CompType, Listed
<1>3. Head(queue) \in Event
  BY <1>1, <1>2, TailQueue
<1>4. Head(queue).of \in Window
  BY <1>1, <1>3, EventIs
<1>5. Tracked(Head(queue).of)
  BY <1>4 DEF Inv
<1>6. PICK v \in Window : v = Head(queue).of
  BY <1>4
<1>7. Telling(Head(queue), K, v) /\ Telling(Head(queue), Kinds, v)
  BY <1>1, <1>6 DEF Telling
<1> QED BY <1>1, <1>2, <1>5, <1>6, <1>7 DEF Known, Its

LEMMA OnDestroyKeeps ==
  ASSUME Inv, OnDestroy
  PROVE  Inv'
<1>1. Parting \in SUBSET Kinds /\ Then("events") /\ \E w \in Parting : Read(w)
  BY DEF OnDestroy, Kinds, Parting
<1>2. /\ pc \in {"poll", "events"} /\ queue # <<>> /\ queue' = Tail(queue) /\ queue \in Seq(Event)
      /\ comp \in CompType /\ comp.wins \in Seq(Entry) /\ Once(comp.wins)
  BY <1>1, AboutIs
<1>3. PICK v \in Window :
              /\ Head(queue).of = v /\ Telling(Head(queue), Parting, v) /\ Telling(Head(queue), Kinds, v) /\ Tracked(v)
              /\ (Known <=> find(comp.wins, v)) /\ Its = The(comp.wins, v)
  BY <1>1, AboutIs
<1>4. CASE ~find(comp.wins, v)
  <2>1. comp' = comp
    BY <1>3, <1>4 DEF OnDestroy
  <2>2. Telling(Head(queue), Kinds \ {"create"}, v)
    BY <1>3 DEF Telling, Parting
  <2> QED BY <1>1, <1>2, <1>4, <2>1, <2>2, UnknownKeeps
<1>5. CASE find(comp.wins, v)
  <2> DEFINE wins == Forgotten(comp.wins, v)
  <2>1. Drawn(wins)
    BY <1>3, <1>5 DEF OnDestroy
  <2>2. wins \in Seq(Entry) /\ Once(wins) /\ Live(wins) = {d \in Live(comp.wins) : d.id # v}
    BY <1>2, <1>5, ForgottenIs
  <2>3. PICK new : new = wins
    OBVIOUS
  <2> HIDE DEF wins
  <2>4. /\ comp' \in CompType /\ comp'.wins = new /\ comp'.owed
        /\ comp'.direct = comp.direct /\ comp'.canvas = comp.canvas /\ comp'.size = comp.size /\ comp'.todo = comp.todo
    BY <1>2, <2>1, <2>2, <2>3, DrawnIs
  <2>5. ~Child(v) /\ ~Child(v)'
    <3>1. Has(queue, Parting, v)
      BY <1>2, <1>3, TailQueue
    <3>2. ~Child(v)
      BY <1>3, <3>1 DEF Tracked, Accounted
    <3> QED BY <1>1, <3>2 DEF Child, Then
  <2>6. FirstCreate(queue', v) /\ ~Has(queue', {"create"}, v)
    BY <1>2, <1>3, FirstCreateKeeps DEF Tracked, Accounted
  <2>7. ~Entered(v)'
    <3>1. Entries' = Live(new)
      BY <1>1, <2>4 DEF Entries, Then
    <3>2. \A e \in Live(new) : e.id # v
      BY <2>2, <2>3
    <3> QED BY <3>1, <3>2 DEF Entered
  <2>13. ~Waits(v)'
    <3>1. comp.todo = <<>>
      BY <1>1, AboutIs
    <3> QED BY <2>4, <3>1, NoneWait DEF Waits
  <2>8. Tracked(v)'
    BY <2>5, <2>6, <2>7, <2>13 DEF Tracked, Accounted, Heard, Agreed, Pictured
  <2>9. Screen'
    BY <2>4 DEF Screen
  <2>10. \A u \in Window \ {v} : find(wins, u) <=> find(comp.wins, u)
    <3>1. \A u : find(wins, u) <=> \E e \in Live(wins) : e.id = u
      BY <2>2, LiveType
    <3>2. \A u : find(comp.wins, u) <=> \E e \in Live(comp.wins) : e.id = u
      BY <1>2, LiveType
    <3> QED BY <2>2, <3>1, <3>2
  <2>11. \A e \in Live(wins) : \E d \in Live(comp.wins) : Alike(e, d)
    BY <2>2 DEF Alike
  <2>12. x' = x /\ stack' = stack /\ desk' = desk /\ pc' = "events" /\ adding' = adding
    BY <1>1 DEF Then
  <2> QED BY <1>2, <1>3, <2>2, <2>3, <2>4, <2>8, <2>9, <2>10, <2>11, <2>12, ReadKeeps
<1> QED BY <1>4, <1>5

(* A listed window is mapped, unmapped or placed: the entry is right if it *)
(* says what the queue does not.                                           *)
LEMMA KnownKeeps ==
  ASSUME Inv, pc \in {"poll", "events"}, queue # <<>>, queue' = Tail(queue), Then("events"),
         NEW v \in Window, Telling(Head(queue), Visibility \cup {"configure"}, v), find(comp.wins, v),
         NEW wins \in Seq(Entry), Once(wins), Drawn(wins),
         NEW f \in Entry, f.id = v, Live(wins) = {d \in Live(comp.wins) : d.id # v} \cup {f},
         Child(v) =>
           /\ ~Has(queue', Visibility, v) => f.mapped = x[v].mapped
           /\ ~Has(queue', {"configure"}, v) => f.geom = x[v].geom
           /\ f.managed
           /\ v # comp.direct /\ f.mapped /\ ~Has(queue', Visibility, v) =>
                f.pict # "none" /\ (f.pict = "stale" => Resizes(queue', v, f.geom))
  PROVE  Inv'
<1>1. /\ queue \in Seq(Event) /\ comp \in CompType /\ comp.wins \in Seq(Entry) /\ Tracked(v)
      /\ x' = x /\ stack' = stack /\ desk' = desk /\ pc' = "events" /\ adding' = adding /\ Working /\ Working'
  BY DEF Inv, TypeOK, CompType, Then, Working
<1>2. /\ comp' \in CompType /\ comp'.wins = wins /\ comp'.owed
      /\ comp'.direct = comp.direct /\ comp'.canvas = comp.canvas /\ comp'.size = comp.size /\ comp'.todo = comp.todo
  BY <1>1, DrawnIs
<1>3. Telling(Head(queue), Kinds, v) /\ ~Telling(Head(queue), {"create"}, v) /\ ~Telling(Head(queue), Parting, v)
  BY DEF Telling, Kinds, Visibility, Parting
<1>4. \A u : find(wins, u) <=> find(comp.wins, u)
  <2>1. \A u : find(wins, u) <=> \E e \in Live(wins) : e.id = u
    BY LiveType
  <2>2. \A u : find(comp.wins, u) <=> \E e \in Live(comp.wins) : e.id = u
    BY <1>1, LiveType
  <2> QED BY <2>1, <2>2
<1>5. Entries' = Live(wins) /\ Child(v)' = Child(v)
  BY <1>1, <1>2 DEF Entries, Child
<1>6. Entered(v)'
  BY <1>5 DEF Entered
<1>7. Accounted(v)'
  <2>1. FirstCreate(queue', v)
    BY <1>1, FirstCreateKeeps DEF Tracked, Accounted
  <2>2. Has(queue', Parting, v) <=> Has(queue, Parting, v)
    BY <1>1, <1>3, TailQueue
  <2>3. ~Child(v) => Has(queue, Parting, v)
    <3>1. \E e \in Live(comp.wins) : e.id = v
      BY <1>1, LiveType
    <3>2. Heard(v)
      BY <3>1 DEF Heard, Entered, Entries
    <3> QED BY <1>1, <3>2 DEF Tracked, Accounted
  <2>4. Has(queue, Parting, v) => ~Child(v)
    BY <1>1 DEF Tracked, Accounted
  <2> QED BY <1>2, <1>4, <1>5, <1>6, <2>1, <2>2, <2>3, <2>4 DEF Accounted, Heard
<1>8. \A e \in Live(wins) : e.id = v => e = f
  OBVIOUS
<1>9. Agreed(v)'
  <2>1. \A b : MapsTo(queue, v, b) => MapsTo(queue', v, b)
    BY <1>1, LastKeeps DEF MapsTo
  <2>2. \A g : ConfsTo(queue, v, g) => ConfsTo(queue', v, g)
    BY <1>1, LastKeeps DEF ConfsTo
  <2> QED BY <1>1, <1>5, <1>6, <1>8, <2>1, <2>2 DEF Tracked, Agreed
<1>10. Pictured(v)'
  <2>1. Child(v) => (x[v].redirected <=> v # comp.direct)
    BY <1>1, LiveType DEF Tracked, Pictured
  <2> QED BY <1>1, <1>2, <1>5, <1>8, <2>1 DEF Pictured
<1>11. Tracked(v)' /\ Screen'
  BY <1>2, <1>7, <1>9, <1>10 DEF Tracked, Screen
<1>12. \A e \in Live(wins) : e.id # v => \E d \in Live(comp.wins) : Alike(e, d)
  BY DEF Alike
<1> QED BY <1>1, <1>2, <1>3, <1>4, <1>11, <1>12, ReadKeeps

LEMMA OnMapKeeps ==
  ASSUME Inv, OnMap
  PROVE  Inv'
<1>1. {"map"} \in SUBSET Kinds /\ Then("events") /\ \E w \in {"map"} : Read(w)
  BY DEF OnMap, Kinds
<1>2. /\ pc \in {"poll", "events"} /\ queue # <<>> /\ queue' = Tail(queue) /\ queue \in Seq(Event)
      /\ comp \in CompType /\ comp.wins \in Seq(Entry) /\ Once(comp.wins)
  BY <1>1, AboutIs
<1>3. PICK v \in Window :
              /\ Head(queue).of = v /\ Telling(Head(queue), {"map"}, v) /\ Telling(Head(queue), Kinds, v) /\ Tracked(v)
              /\ (Known <=> find(comp.wins, v)) /\ Its = The(comp.wins, v)
  BY <1>1, AboutIs
<1>4. CASE ~find(comp.wins, v)
  <2>1. comp' = comp
    BY <1>3, <1>4 DEF OnMap
  <2>2. Telling(Head(queue), Kinds \ {"create"}, v)
    BY <1>3 DEF Telling
  <2> QED BY <1>1, <1>2, <1>4, <2>1, <2>2, UnknownKeeps
<1>5. CASE find(comp.wins, v)
  <2> DEFINE m == [Its EXCEPT !.mapped = TRUE]
             e == get_pictures(m, comp.direct, x)
             f == IF Animated(e) /\ e.geom # "off" THEN [e EXCEPT !.anim = Frames] ELSE e
             wins == restack(Put(comp.wins, f))
  <2>1. Drawn(wins)
    BY <1>3, <1>5 DEF OnMap
  <2>2. Its \in Entry /\ Its \in Live(comp.wins) /\ Its.id = v /\ ~Its.ghost
    BY <1>2, <1>3, <1>5, TheIs, LiveType
  <2>3. m \in Entry /\ m.id = v /\ m.mapped /\ ~m.ghost /\ m.managed = Its.managed /\ m.geom = Its.geom
    BY <2>2 DEF Entry
  <2> HIDE DEF m
  <2>4. /\ e \in Entry /\ e.id = v /\ e.mapped /\ ~e.ghost /\ e.managed = Its.managed /\ e.geom = Its.geom
        /\ Its.managed /\ v # comp.direct /\ x[v].mapped /\ x[v].redirected => e.pict = "current"
    BY <2>3, GetPicturesIs
  <2> HIDE DEF e
  <2>5. /\ f \in Entry /\ f.id = v /\ f.mapped /\ ~f.ghost /\ f.managed = Its.managed /\ f.geom = Its.geom /\ f.pict = e.pict
    BY <2>4, Bounds DEF Entry
  <2> HIDE DEF f
  <2>6. Put(comp.wins, f) \in Seq(Entry) /\ Once(Put(comp.wins, f)) /\ Live(Put(comp.wins, f)) = {d \in Live(comp.wins) : d.id # v} \cup {f}
    BY <1>2, <1>5, <2>5, PutIs
  <2>7. stack \in Seq(Window)
    BY DEF Inv, TypeOK
  <2>8. wins \in Seq(Entry) /\ Once(wins) /\ Live(wins) = {d \in Live(comp.wins) : d.id # v} \cup {f}
    BY <2>6, <2>7, RestackIs
  <2> HIDE DEF wins
  <2>9. Telling(Head(queue), Visibility, v) /\ ~Telling(Head(queue), {"configure"}, v)
        /\ Telling(Head(queue), Visibility \cup {"configure"}, v)
    BY <1>3 DEF Telling, Visibility
  <2>10. ASSUME Child(v)
         PROVE  /\ ~Has(queue', Visibility, v) => x[v].mapped
                /\ ~Has(queue', {"configure"}, v) => f.geom = x[v].geom
                /\ f.managed /\ (x[v].redirected <=> v # comp.direct)
    <3>1. ~Has(queue', Visibility, v) => x[v].mapped = Mapping[Head(queue)]
      BY <1>2, <1>3, <2>9, <2>10, LastKeeps DEF Tracked, Agreed, MapsTo
    <3>2. Mapping[Head(queue)] = TRUE
      <4>1. Head(queue) \in Event
        BY <1>2, TailQueue
      <4> QED BY <1>3, <4>1 DEF Mapping, Telling
    <3>3. ~Has(queue', {"configure"}, v) => Its.geom = x[v].geom
      <4>1. Has(queue', {"configure"}, v) <=> Has(queue, {"configure"}, v)
        BY <1>2, <2>9, TailQueue
      <4> QED BY <1>3, <2>2, <2>10, <4>1 DEF Tracked, Agreed, Entries
    <3>4. Its.managed /\ (x[v].redirected <=> v # comp.direct)
      BY <1>3, <2>2, <2>10 DEF Tracked, Pictured
    <3> QED BY <2>5, <3>1, <3>2, <3>3, <3>4
  <2> QED BY <1>1, <1>2, <1>5, <2>1, <2>4, <2>5, <2>8, <2>9, <2>10, KnownKeeps
<1> QED BY <1>4, <1>5

(* A ghost is no live entry.                                               *)
LEMMA GhostIs ==
  ASSUME NEW wins \in Seq(Entry), Once(wins), NEW e \in Entry
  PROVE  LET with == Append(wins, make_ghost(e)) IN with \in Seq(Entry) /\ Once(with) /\ Live(with) = Live(wins)
<1>1. Frames \in 0..Frames
  BY Bounds
<1>2. make_ghost(e) \in Entry /\ make_ghost(e).ghost
  BY <1>1 DEF make_ghost, Entry
<1> QED BY <1>2, AppendIs

LEMMA OnUnmapKeeps ==
  ASSUME Inv, OnUnmap
  PROVE  Inv'
<1>1. {"unmap"} \in SUBSET Kinds /\ Then("events") /\ \E w \in {"unmap"} : Read(w)
  BY DEF OnUnmap, Kinds
<1>2. /\ pc \in {"poll", "events"} /\ queue # <<>> /\ queue' = Tail(queue) /\ queue \in Seq(Event)
      /\ comp \in CompType /\ comp.wins \in Seq(Entry) /\ Once(comp.wins)
  BY <1>1, AboutIs
<1>3. PICK v \in Window :
              /\ Head(queue).of = v /\ Telling(Head(queue), {"unmap"}, v) /\ Telling(Head(queue), Kinds, v) /\ Tracked(v)
              /\ (Known <=> find(comp.wins, v)) /\ Its = The(comp.wins, v)
  BY <1>1, AboutIs
<1>4. CASE ~find(comp.wins, v)
  <2>1. comp' = comp
    BY <1>3, <1>4 DEF OnUnmap
  <2>2. Telling(Head(queue), Kinds \ {"create"}, v)
    BY <1>3 DEF Telling
  <2> QED BY <1>1, <1>2, <1>4, <2>1, <2>2, UnknownKeeps
<1>5. CASE find(comp.wins, v)
  <2> DEFINE f == [Its EXCEPT !.mapped = FALSE, !.pict = "none"]
             gone == Put(comp.wins, f)
             leaves == Animated(Its) /\ Its.pict # "none" /\ Its.geom # "off"
             wins == IF leaves THEN restack(Append(gone, make_ghost(Its))) ELSE gone
  <2>1. Drawn(wins)
    BY <1>3, <1>5 DEF OnUnmap
  <2>2. Its \in Entry /\ Its \in Live(comp.wins) /\ Its.id = v /\ ~Its.ghost
    BY <1>2, <1>3, <1>5, TheIs, LiveType
  <2>3. f \in Entry /\ f.id = v /\ ~f.mapped /\ ~f.ghost /\ f.managed = Its.managed /\ f.geom = Its.geom
    BY <2>2 DEF Entry
  <2> HIDE DEF f
  <2>4. gone \in Seq(Entry) /\ Once(gone) /\ Live(gone) = {d \in Live(comp.wins) : d.id # v} \cup {f}
    BY <1>2, <1>5, <2>3, PutIs
  <2> HIDE DEF gone, leaves
  <2>5. wins \in Seq(Entry) /\ Once(wins) /\ Live(wins) = Live(gone)
    <3> DEFINE with == Append(gone, make_ghost(Its))
    <3>1. with \in Seq(Entry) /\ Once(with) /\ Live(with) = Live(gone)
      BY <2>2, <2>4, GhostIs
    <3>2. stack \in Seq(Window)
      BY DEF Inv, TypeOK
    <3> HIDE DEF with
    <3>3. restack(with) \in Seq(Entry) /\ Once(restack(with)) /\ Live(restack(with)) = Live(gone)
      BY <3>1, <3>2, RestackIs
    <3> QED BY <2>4, <3>3 DEF with
  <2> HIDE DEF wins
  <2>6. Telling(Head(queue), Visibility, v) /\ ~Telling(Head(queue), {"configure"}, v)
        /\ Telling(Head(queue), Visibility \cup {"configure"}, v)
    BY <1>3 DEF Telling, Visibility
  <2>7. ASSUME Child(v)
        PROVE  /\ ~Has(queue', Visibility, v) => ~x[v].mapped
               /\ ~Has(queue', {"configure"}, v) => f.geom = x[v].geom
               /\ f.managed
    <3>1. ~Has(queue', Visibility, v) => x[v].mapped = Mapping[Head(queue)]
      BY <1>2, <1>3, <2>6, <2>7, LastKeeps DEF Tracked, Agreed, MapsTo
    <3>2. Mapping[Head(queue)] = FALSE
      <4>1. Head(queue) \in Event
        BY <1>2, TailQueue
      <4> QED BY <1>3, <4>1 DEF Mapping, Telling
    <3>3. ~Has(queue', {"configure"}, v) => Its.geom = x[v].geom
      <4>1. Has(queue', {"configure"}, v) <=> Has(queue, {"configure"}, v)
        BY <1>2, <2>6, TailQueue
      <4> QED BY <1>3, <2>2, <2>7, <4>1 DEF Tracked, Agreed, Entries
    <3>4. Its.managed
      BY <1>3, <2>2, <2>7 DEF Tracked, Pictured
    <3> QED BY <2>3, <3>1, <3>2, <3>3, <3>4
  <2>8. f.mapped = FALSE
    BY <2>3 DEF Entry
  <2>9. x[v].mapped \in BOOLEAN
    BY DEF Inv, TypeOK
  <2> QED BY <1>1, <1>2, <1>5, <2>1, <2>3, <2>4, <2>5, <2>6, <2>7, <2>8, <2>9, KnownKeeps
<1> QED BY <1>4, <1>5

LEMMA on_configureKeeps ==
  ASSUME Inv, on_configure
  PROVE  Inv'
<1>1. {"configure"} \in SUBSET Kinds /\ Then("events") /\ \E w \in {"configure"} : Read(w)
  BY DEF on_configure, Kinds
<1>2. /\ pc \in {"poll", "events"} /\ queue # <<>> /\ queue' = Tail(queue) /\ queue \in Seq(Event)
      /\ comp \in CompType /\ comp.wins \in Seq(Entry) /\ Once(comp.wins)
  BY <1>1, AboutIs
<1>3. PICK v \in Window :
              /\ Head(queue).of = v /\ Telling(Head(queue), {"configure"}, v) /\ Telling(Head(queue), Kinds, v) /\ Tracked(v)
              /\ (Known <=> find(comp.wins, v)) /\ Its = The(comp.wins, v)
  BY <1>1, AboutIs
<1>4. CASE ~find(comp.wins, v)
  <2>1. comp' = comp
    BY <1>3, <1>4 DEF on_configure
  <2>2. Telling(Head(queue), Kinds \ {"create"}, v)
    BY <1>3 DEF Telling
  <2> QED BY <1>1, <1>2, <1>4, <2>1, <2>2, UnknownKeeps
<1>5. CASE find(comp.wins, v)
  <2> DEFINE e == Its
             g == Head(queue).geom
             leaves == g = "off" /\ e.geom # "off" /\ e.mapped /\ e.pict # "none" /\ Animated(e)
             f == [e EXCEPT !.geom = g, !.pict = IF leaves THEN "none" ELSE @]
             h == IF (Resized(e, g) \/ f.pict = "none") /\ e.mapped THEN get_pictures(f, comp.direct, x) ELSE f
             k == IF e.geom = "off" /\ g # "off" /\ Animated(e) THEN [h EXCEPT !.anim = Frames] ELSE h
             put == Put(comp.wins, k)
             wins == restack(put \o IF leaves THEN <<make_ghost(e)>> ELSE <<>>)
  <2>1. Drawn(wins)
    BY <1>3, <1>5 DEF on_configure
  <2>2. e \in Entry /\ e \in Live(comp.wins) /\ e.id = v /\ ~e.ghost
    BY <1>2, <1>3, <1>5, TheIs, LiveType
  <2>3. Head(queue) \in Event /\ g \in Geom /\ Head(queue).what = "configure" /\ e.geom \in Geom
    <3>1. Head(queue) \in Event
      BY <1>2, TailQueue
    <3> QED BY <1>3, <2>2, <3>1, EventIs DEF Telling, Entry
  <2> HIDE DEF e, g, leaves
  <2>4. /\ f \in Entry /\ f.id = v /\ ~f.ghost /\ f.mapped = e.mapped /\ f.managed = e.managed /\ f.geom = g
        /\ f.pict = "none" \/ f.pict = e.pict
    BY <2>2, <2>3 DEF Entry
  <2> HIDE DEF f
  <2>5. /\ h \in Entry /\ h.id = v /\ ~h.ghost /\ h.mapped = e.mapped /\ h.managed = e.managed /\ h.geom = g
        /\ e.managed /\ v # comp.direct /\ e.mapped /\ x[v].mapped /\ x[v].redirected =>
             h.pict = "current" \/ (h.pict = e.pict /\ h.pict # "none" /\ SameSize(e.geom, g))
    <3>1. CASE (Resized(e, g) \/ f.pict = "none") /\ e.mapped
      <4>1. h = get_pictures(f, comp.direct, x)
        BY <3>1
      <4> HIDE DEF h
      <4> QED BY <2>4, <4>1, GetPicturesIs
    <3>2. CASE ~((Resized(e, g) \/ f.pict = "none") /\ e.mapped)
      <4>1. h = f
        BY <3>2
      <4> HIDE DEF h
      <4> QED BY <2>4, <3>2, <4>1 DEF Resized
    <3> QED BY <3>1, <3>2
  <2> HIDE DEF h
  <2>6. k \in Entry /\ k.id = v /\ ~k.ghost /\ k.mapped = e.mapped /\ k.managed = e.managed /\ k.geom = g /\ k.pict = h.pict
    BY <2>5, Bounds DEF Entry
  <2> HIDE DEF k
  <2>7. put \in Seq(Entry) /\ Once(put) /\ Live(put) = {d \in Live(comp.wins) : d.id # v} \cup {k}
    BY <1>2, <1>5, <2>6, PutIs
  <2> HIDE DEF put
  <2>8. wins \in Seq(Entry) /\ Once(wins) /\ Live(wins) = Live(put)
    <3> DEFINE with == Append(put, make_ghost(e))
    <3>1. with \in Seq(Entry) /\ Once(with) /\ Live(with) = Live(put)
      BY <2>2, <2>7, GhostIs
    <3>2. stack \in Seq(Window)
      BY DEF Inv, TypeOK
    <3>3. with = put \o <<make_ghost(e)>> /\ put \o <<>> = put
      <4>1. make_ghost(e) \in Entry
        <5>1. Frames \in 0..Frames
          BY Bounds
        <5> QED BY <2>2, <5>1 DEF make_ghost, Entry
      <4> QED BY <2>7, <4>1
    <3> HIDE DEF with
    <3>4. restack(with) \in Seq(Entry) /\ Once(restack(with)) /\ Live(restack(with)) = Live(put)
      BY <3>1, <3>2, RestackIs
    <3>5. restack(put) \in Seq(Entry) /\ Once(restack(put)) /\ Live(restack(put)) = Live(put)
      BY <2>7, <3>2, RestackIs
    <3> QED BY <3>3, <3>4, <3>5
  <2> HIDE DEF wins
  <2>9. Telling(Head(queue), {"configure"}, v) /\ ~Telling(Head(queue), Visibility, v)
        /\ Telling(Head(queue), Visibility \cup {"configure"}, v)
    BY <1>3 DEF Telling, Visibility
  <2>10. Has(queue', Visibility, v) <=> Has(queue, Visibility, v)
    BY <1>2, <2>9, TailQueue
  <2>11. ASSUME Child(v)
         PROVE  /\ ~Has(queue', Visibility, v) => k.mapped = x[v].mapped
                /\ ~Has(queue', {"configure"}, v) => k.geom = x[v].geom
                /\ k.managed
                /\ v # comp.direct /\ k.mapped /\ ~Has(queue', Visibility, v) =>
                     k.pict # "none" /\ (k.pict = "stale" => Resizes(queue', v, k.geom))
    <3>1. ~Has(queue', {"configure"}, v) => x[v].geom = Placing[Head(queue)]
      BY <1>2, <1>3, <2>9, <2>11, LastKeeps DEF Tracked, Agreed, ConfsTo
    <3>2. Placing[Head(queue)] = g
      BY <2>3 DEF Placing, g
    <3>3. ~Has(queue, Visibility, v) => e.mapped = x[v].mapped
      BY <1>3, <2>2, <2>11 DEF Tracked, Agreed, Entries
    <3>4. /\ e.managed /\ (x[v].redirected <=> v # comp.direct)
          /\ v # comp.direct /\ e.mapped /\ ~Has(queue, Visibility, v) =>
               e.pict # "none" /\ (e.pict = "stale" => Resizes(queue, v, e.geom))
      BY <1>3, <2>2, <2>11 DEF Tracked, Pictured
    <3>5. SameSize(e.geom, g) /\ Resizes(queue, v, e.geom) => Resizes(queue', v, g)
      <4> SUFFICES ASSUME SameSize(e.geom, g), Resizes(queue, v, e.geom) PROVE Resizes(queue', v, g)
        OBVIOUS
      <4>1. Resizes(queue', v, e.geom)
        BY <1>2, TailResizes DEF g
      <4>2. PICK i \in Says(queue', {"configure"}, v) : ~SameSize(e.geom, queue'[i].geom)
        BY <4>1 DEF Resizes
      <4>3. queue'[i].geom \in Geom
        <5>1. queue' \in Seq(Event) /\ i \in DOMAIN queue' /\ queue'[i].what = "configure"
          BY <1>2, <4>2, TailQueue DEF Says, Telling
        <5>2. queue'[i] \in Event
          BY <5>1
        <5> QED BY <5>1, <5>2, EventIs
      <4>4. ~SameSize(g, queue'[i].geom)
        BY <2>3, <4>2, <4>3, SameSizeIs
      <4> QED BY <4>2, <4>4 DEF Resizes
    <3>6. ASSUME v # comp.direct, k.mapped, ~Has(queue', Visibility, v)
          PROVE  k.pict # "none" /\ (k.pict = "stale" => Resizes(queue', v, k.geom))
      <4>1. h.pict = "current" \/ (h.pict = e.pict /\ h.pict # "none" /\ SameSize(e.geom, g))
        BY <2>5, <2>6, <2>10, <3>3, <3>4, <3>6
      <4>2. e.pict = "stale" => Resizes(queue, v, e.geom)
        BY <2>6, <2>10, <3>4, <3>6
      <4> QED BY <2>6, <3>5, <4>1, <4>2
    <3> QED BY <2>6, <2>10, <3>1, <3>2, <3>3, <3>4, <3>6
  <2> QED BY <1>1, <1>2, <1>5, <2>1, <2>6, <2>7, <2>8, <2>9, <2>11, KnownKeeps
<1> QED BY <1>4, <1>5

LEMMA OnResizeKeeps ==
  ASSUME Inv, OnResize
  PROVE  Inv'
<1>1. /\ pc \in {"poll", "events"} /\ queue # <<>> /\ queue' = Tail(queue) /\ Head(queue).what = "resize"
      /\ x' = x /\ stack' = stack /\ desk' = desk /\ adding' = adding /\ pc' = "events"
  BY DEF OnResize, Read, Then
<1>2. /\ TypeOK /\ Phases /\ Desktops /\ Listed /\ queue \in Seq(Event) /\ comp \in CompType /\ desk \in {"gone"} \cup Sizes
      /\ Working /\ Working'
  BY <1>1 DEF Inv, TypeOK, CompType, Working, Sizes
<1>3. /\ queue' \in Seq(Event) /\ Head(queue) \in Event /\ 1 \in DOMAIN queue /\ queue[1] = Head(queue)
  BY <1>1, <1>2, TailQueue
<1>4. /\ comp' \in CompType /\ comp'.wins = comp.wins /\ comp'.direct = comp.direct /\ (comp.canvas => comp'.canvas)
      /\ comp'.todo = comp.todo
      /\ comp' = comp \/ comp'.owed
      /\ comp'.size = desk \/ desk = "gone"
  <2>1. CASE Head(queue).size = comp.size
    <3>1. comp' = comp
      BY <2>1 DEF OnResize
    <3>2. Head(queue).size = "large" /\ desk \in {"large", "gone"}
      BY <1>1, <1>2, <1>3 DEF Desktops
    <3> QED BY <1>2, <2>1, <3>1, <3>2
  <2>2. CASE Head(queue).size # comp.size
    <3>1. PICK size \in Size : comp' = setup_canvas(comp, size)
      BY <2>2 DEF OnResize
    <3>2. comp' = [comp EXCEPT !.owed = TRUE, !.drawn = <<>>, !.swapped = FALSE, !.canvas = TRUE, !.size = size]
      BY <3>1 DEF setup_canvas, Owing, OwingAll
    <3>3. size \in Sizes /\ (desk # "gone" => size = desk) /\ <<>> \in Seq(Window)
      BY <1>2, <3>1 DEF Size
    <3> QED BY <1>2, <3>2, <3>3 DEF CompType
  <2> QED BY <2>1, <2>2
<1>5. TypeOK'
  BY <1>1, <1>2, <1>3, <1>4 DEF TypeOK, CompType
<1>6. Phases'
  BY <1>1, <1>2, <1>4 DEF Phases, Working, Child
<1>7. Desktops'
  <2>1. Head(queue).what # "gone" /\ pc' # "detached"
    BY <1>1
  <2> QED BY <1>1, <1>2, <1>4, <2>1, DesktopsRead
<1>8. \A u : Silent(queue, queue', u)
  <2>1. \A u : ~Telling(Head(queue), Kinds, u)
    BY <1>1 DEF Telling, Kinds
  <2> QED BY <1>1, <1>2, <2>1, SilentTail
<1>9. Entries' = Entries /\ \A u : (Entered(u)' <=> Entered(u)) /\ (Waits(u)' <=> Waits(u))
  BY <1>1, <1>4 DEF Entries, Entered, Waits
<1>10. Listed'
  BY <1>1, <1>2, <1>4 DEF Listed
<1>11. ASSUME NEW u \in Window PROVE Tracked(u)'
  <2>1. Tracked(u) /\ Silent(queue, queue', u)
    BY <1>8 DEF Inv
  <2>2. \A e \in Live(comp.wins) : Alike(e, e)
    BY DEF Alike
  <2> QED BY <1>1, <1>2, <1>4, <1>9, <2>1, <2>2, UntouchedStays
<1>12. Screen'
  <2>1. CASE comp'.owed
    BY <2>1 DEF Screen
  <2>2. CASE comp' = comp
    <3>1. Visibility \cup Parting \cup {"configure"} \in SUBSET Kinds
      BY DEF Visibility, Parting, Kinds
    <3>2. SettledStay
      BY <1>1, <1>8, <3>1 DEF SettledStay, Shows, Child, Settled, Silent
    <3>3. OrderStays
      BY <1>1 DEF OrderStays
    <3> QED BY <1>2, <2>2, <3>2, <3>3, ScreenStays DEF Inv
  <2> QED BY <1>4, <2>1, <2>2
<1> QED BY <1>5, <1>6, <1>7, <1>10, <1>11, <1>12 DEF Inv

(* It came: it is listed already, or about to be, or it has gone.          *)
LEMMA OnCreateKeeps ==
  ASSUME Inv, OnCreate
  PROVE  Inv'
<1>1. {"create"} \in SUBSET Kinds /\ \E w \in {"create"} : Read(w)
  BY DEF OnCreate, Kinds
<1>2. /\ pc \in {"poll", "events"} /\ queue # <<>> /\ queue' = Tail(queue) /\ queue \in Seq(Event)
      /\ comp \in CompType /\ comp.wins \in Seq(Entry) /\ Once(comp.wins)
  BY <1>1, AboutIs
<1>3. PICK v \in Window :
              /\ Head(queue).of = v /\ Telling(Head(queue), {"create"}, v) /\ Telling(Head(queue), Kinds, v) /\ Tracked(v)
              /\ (Known <=> find(comp.wins, v)) /\ Its = The(comp.wins, v)
  BY <1>1, AboutIs
<1>4. x' = x /\ stack' = stack /\ desk' = desk /\ Working /\ stack \in Seq(Window) /\ TypeOK /\ Screen
  BY <1>2 DEF OnCreate, Mine, Inv, TypeOK, Working, Read
<1>5. \A K : ~("create" \in K) => (Has(queue', K, v) <=> Has(queue, K, v))
  <2>1. \A K : ~("create" \in K) => ~Telling(Head(queue), K, v)
    BY <1>3 DEF Telling
  <2> QED BY <1>2, <2>1, TailQueue
<1>6. /\ FirstCreate(queue', v) /\ ~Has(queue', {"create"}, v) /\ Has(queue, {"create"}, v)
      /\ \A b : MapsTo(queue, v, b) => MapsTo(queue', v, b)
      /\ \A g : ConfsTo(queue, v, g) => ConfsTo(queue', v, g)
      /\ \A g : Resizes(queue', v, g) <=> Resizes(queue, v, g)
  <2>1. FirstCreate(queue', v) /\ ~Has(queue', {"create"}, v)
    BY <1>2, <1>3, FirstCreateKeeps DEF Tracked, Accounted
  <2>2. Has(queue, {"create"}, v)
    BY <1>2, <1>3, TailQueue
  <2>3. \A b : MapsTo(queue, v, b) => MapsTo(queue', v, b)
    BY <1>2, LastKeeps DEF MapsTo
  <2>4. \A g : ConfsTo(queue, v, g) => ConfsTo(queue', v, g)
    BY <1>2, LastKeeps DEF ConfsTo
  <2>5. ~Telling(Head(queue), {"configure"}, v)
    BY <1>3 DEF Telling
  <2>6. \A g : Resizes(queue', v, g) <=> Resizes(queue, v, g)
    BY <1>2, <2>5, TailResizes
  <2> QED BY <2>1, <2>2, <2>3, <2>4, <2>6
<1>7. ~("create" \in Visibility) /\ ~("create" \in Parting) /\ ~("create" \in {"configure"})
      /\ ~("create" \in Visibility \cup Parting \cup {"configure"})
  BY DEF Visibility, Parting
<1>8. SettledStay /\ OrderStays
  <2>1. ASSUME NEW u \in Window PROVE Settled(queue', u) <=> Settled(queue, u)
    <3>1. CASE u = v
      BY <1>5, <1>7, <3>1 DEF Settled
    <3>2. CASE u # v
      <4>1. Silent(queue, queue', u)
        BY <1>2, <1>3, <3>2, SilentTail DEF Telling
      <4>2. Visibility \cup Parting \cup {"configure"} \in SUBSET Kinds
        BY DEF Visibility, Parting, Kinds
      <4> QED BY <4>1, <4>2 DEF Settled, Silent
    <3> QED BY <3>1, <3>2
  <2> QED BY <1>4, <2>1 DEF SettledStay, OrderStays, Shows, Child
<1>13. comp.todo = <<>> /\ ~Waits(v) /\ (comp'.todo = comp.todo => ~Waits(v)')
  <2>1. comp.todo = <<>>
    BY <1>1, AboutIs
  <2> QED BY <2>1, NoneWait DEF Waits
<1>9. CASE find(comp.wins, v) \/ x[v].at = "none"
  <2>1. pc' = "events" /\ adding' = adding /\ comp' = [comp EXCEPT !.wins = restack(comp.wins)]
    BY <1>3, <1>9 DEF OnCreate, Addable
  <2>2. restack(comp.wins) \in Seq(Entry) /\ Once(restack(comp.wins)) /\ Live(restack(comp.wins)) = Live(comp.wins)
    BY <1>2, <1>4, RestackIs
  <2>3. /\ comp' \in CompType /\ Once(comp'.wins) /\ Live(comp'.wins) = Live(comp.wins) /\ comp'.wins \in Seq(Entry)
        /\ comp'.direct = comp.direct /\ comp'.canvas = comp.canvas /\ comp'.size = comp.size /\ comp'.owed = comp.owed
        /\ comp'.drawn = comp.drawn /\ comp'.swapped = comp.swapped /\ comp'.todo = comp.todo
    BY <1>2, <2>1, <2>2 DEF CompType
  <2>4. \A u : find(comp'.wins, u) <=> find(comp.wins, u)
    <3>1. \A u : find(comp'.wins, u) <=> \E e \in Live(comp'.wins) : e.id = u
      BY <2>3, LiveType
    <3>2. \A u : find(comp.wins, u) <=> \E e \in Live(comp.wins) : e.id = u
      BY <1>2, LiveType
    <3> QED BY <2>3, <3>1, <3>2
  <2>5. Entries' = Live(comp.wins) /\ Entries = Live(comp.wins) /\ (Entered(v)' <=> Entered(v)) /\ (Child(v)' <=> Child(v))
    BY <1>2, <1>4, <2>1, <2>3 DEF Entries, Entered, Child
  <2>6. Accounted(v)'
    <3>1. Heard(v) /\ (Child(v) => Entered(v))
      <4>1. find(comp.wins, v) <=> Entered(v)
        BY <1>2, <2>5, LiveType DEF Entered
      <4> QED BY <1>6, <1>9, <4>1 DEF Heard, Child
    <3>2. Heard(v)' <=> Entered(v)
      BY <1>6, <1>13, <2>3, <2>5 DEF Heard
    <3> QED BY <1>3, <1>4, <1>5, <1>6, <1>7, <2>3, <2>4, <2>5, <3>1, <3>2 DEF Tracked, Accounted
  <2>7. Agreed(v)'
    BY <1>3, <1>4, <1>5, <1>6, <1>7, <1>13, <2>5 DEF Tracked, Agreed
  <2>8. Pictured(v)'
    BY <1>3, <1>4, <1>5, <1>6, <1>7, <2>3, <2>5 DEF Tracked, Pictured
  <2>9. Screen'
    BY <1>2, <1>4, <1>8, <2>3, <2>4, ScreenStays
  <2>10. \A e \in Live(comp'.wins) : \E d \in Live(comp.wins) : Alike(e, d)
    BY <2>3 DEF Alike
  <2>11. Tracked(v)'
    BY <2>6, <2>7, <2>8 DEF Tracked
  <2> QED BY <1>2, <1>3, <1>4, <2>1, <2>3, <2>4, <2>9, <2>10, <2>11, ReadKeeps
<1>10. CASE ~find(comp.wins, v) /\ x[v].at # "none"
  <2>1. pc' = "add" /\ adding' = NewEntry(v) /\ comp' = comp
    BY <1>3, <1>10 DEF OnCreate, Addable
  <2>2. /\ adding' \in Entry /\ adding'.id = v /\ ~adding'.ghost
        /\ adding'.mapped = x[v].mapped /\ adding'.geom = x[v].geom
    BY <1>4, <2>1, NewEntryIs
  <2>3. Entries' = Live(comp.wins) \cup {adding'}
    BY <2>1 DEF Entries
  <2>4. Entered(v)' /\ (Child(v)' <=> Child(v))
    BY <1>4, <2>2, <2>3 DEF Entered, Child
  <2>5. \A e \in Live(comp.wins) : e.id # v
    BY <1>2, <1>10, LiveType
  <2>6. Accounted(v)'
    <3>1. Heard(v)
      BY <1>6 DEF Heard
    <3> QED BY <1>3, <1>4, <1>5, <1>6, <1>7, <2>1, <2>4, <3>1 DEF Tracked, Accounted, Heard
  <2>7. Agreed(v)'
    BY <1>3, <1>4, <1>6, <2>2, <2>3, <2>4, <2>5 DEF Tracked, Agreed
  <2>8. Pictured(v)'
    BY <2>1, <2>5 DEF Pictured
  <2>9. Screen'
    BY <1>2, <1>4, <1>8, <2>1, ScreenStays
  <2>10. \A e \in Live(comp'.wins) : \E d \in Live(comp.wins) : Alike(e, d)
    BY <2>1 DEF Alike
  <2>11. Tracked(v)'
    BY <2>6, <2>7, <2>8 DEF Tracked
  <2> QED BY <1>2, <1>3, <1>4, <1>10, <2>1, <2>2, <2>9, <2>10, <2>11, ReadKeeps
<1> QED BY <1>9, <1>10

(* The first of the children that wait is begun, or has gone; after the    *)
(* last, the list is put in order.                                         *)
LEMMA AdoptKeeps ==
  ASSUME Inv, Adopt
  PROVE  Inv'
<1>1. /\ pc = "adopt" /\ x' = x /\ stack' = stack /\ desk' = desk /\ queue' = queue
      /\ TypeOK /\ Phases /\ Desktops /\ Listed /\ Screen /\ Working /\ stack \in Seq(Window)
      /\ comp \in CompType /\ comp.wins \in Seq(Entry) /\ Once(comp.wins) /\ comp.todo \in Seq(Window)
      /\ Entries = Live(comp.wins)
  BY DEF Adopt, Inv, TypeOK, CompType, Listed, Working, Entries
<1>2. \A u : Silent(queue, queue', u)
  BY <1>1, SilentSame
<1>3. SettledStay /\ OrderStays
  BY <1>1 DEF SettledStay, OrderStays, Shows, Child
<1>4. CASE comp.todo = <<>>
  <2>1. pc' = "events" /\ adding' = adding /\ comp' = [comp EXCEPT !.wins = restack(comp.wins)]
    BY <1>4 DEF Adopt
  <2>2. restack(comp.wins) \in Seq(Entry) /\ Once(restack(comp.wins)) /\ Live(restack(comp.wins)) = Live(comp.wins)
    BY <1>1, RestackIs
  <2>3. /\ comp' \in CompType /\ Once(comp'.wins) /\ Live(comp'.wins) = Live(comp.wins) /\ comp'.wins \in Seq(Entry)
        /\ comp'.direct = comp.direct /\ comp'.canvas = comp.canvas /\ comp'.size = comp.size /\ comp'.owed = comp.owed
        /\ comp'.drawn = comp.drawn /\ comp'.swapped = comp.swapped /\ comp'.todo = comp.todo
    BY <1>1, <2>1, <2>2 DEF CompType
  <2>4. \A u : find(comp'.wins, u) <=> find(comp.wins, u)
    <3>1. \A u : find(comp'.wins, u) <=> \E e \in Live(comp'.wins) : e.id = u
      BY <2>3, LiveType
    <3>2. \A u : find(comp.wins, u) <=> \E e \in Live(comp.wins) : e.id = u
      BY <1>1, LiveType
    <3> QED BY <2>3, <3>1, <3>2
  <2>5. /\ Entries' = Entries /\ (Working' <=> Working)
        /\ \A u : (Entered(u)' <=> Entered(u)) /\ (Waits(u)' <=> Waits(u))
    BY <1>1, <2>1, <2>3 DEF Entries, Entered, Waits, Working
  <2>6. TypeOK' /\ Phases' /\ Desktops' /\ Listed'
    BY <1>1, <1>4, <2>1, <2>3 DEF TypeOK, CompType, Phases, Desktops, Listed, Working, Child
  <2>7. \A e \in Live(comp.wins) : Alike(e, e)
    BY DEF Alike
  <2>8. ASSUME NEW u \in Window PROVE Tracked(u)'
    <3>1. Tracked(u) /\ x'[u] = x[u]
      BY <1>1 DEF Inv
    <3> QED BY <1>2, <2>3, <2>4, <2>5, <2>7, <3>1, UntouchedStays
  <2>9. Screen'
    BY <1>1, <1>3, <2>3, <2>4, <2>5, ScreenStays
  <2> QED BY <2>6, <2>8, <2>9 DEF Inv
<1>5. CASE comp.todo # <<>>
  <2>0. PICK v : v = Head(comp.todo)
    OBVIOUS
  <2>1. /\ comp' = [comp EXCEPT !.todo = Tail(comp.todo)]
        /\ IF Addable(v) THEN pc' = "add" /\ adding' = NewEntry(v) ELSE pc' = "adopt" /\ adding' = adding
    BY <1>1, <1>5, <2>0 DEF Adopt
  <2>2. v \in Window /\ Tail(comp.todo) \in Seq(Window) /\ ToSet(comp.todo) = {v} \cup ToSet(Tail(comp.todo))
    BY <1>1, <1>5, <2>0, TailSet
  <2>3. /\ comp' \in CompType /\ comp'.wins = comp.wins /\ comp'.todo = Tail(comp.todo)
        /\ comp'.direct = comp.direct /\ comp'.canvas = comp.canvas /\ comp'.size = comp.size /\ comp'.owed = comp.owed
        /\ comp'.drawn = comp.drawn /\ comp'.swapped = comp.swapped
    BY <1>1, <2>1, <2>2 DEF CompType
  <2>4. pc' \in {"add", "adopt"} /\ Working' /\ (pc' = "add" => Addable(v) /\ adding' = NewEntry(v))
    BY <2>1 DEF Working
  <2>5. NewEntry(v) \in Entry /\ NewEntry(v).id = v /\ ~NewEntry(v).ghost
        /\ NewEntry(v).mapped = x[v].mapped /\ NewEntry(v).geom = x[v].geom
    BY <1>1, <2>2, NewEntryIs
  <2>6. TypeOK'
    <3>1. adding' \in Entry \cup {None}
      BY <1>1, <2>1, <2>5 DEF TypeOK
    <3> QED BY <1>1, <2>3, <2>4, <3>1 DEF TypeOK, CompType
  <2>7. Phases' /\ Desktops'
    BY <1>1, <2>3, <2>4 DEF Phases, Desktops, Working, Child
  <2>8. Listed'
    BY <1>1, <2>3, <2>4, <2>5 DEF Listed, Addable
  <2>9. /\ Entries' = Live(comp.wins) \cup IF pc' = "add" THEN {NewEntry(v)} ELSE {}
        /\ \A u : u # v => (Waits(u)' <=> Waits(u))
        /\ Waits(v)
    BY <2>2, <2>3, <2>4 DEF Entries, Waits
  <2>10. \A e \in Live(comp.wins) : Alike(e, e)
    BY DEF Alike
  <2>11. ASSUME NEW u \in Window, u # v PROVE Tracked(u)'
    <3>1. Tracked(u) /\ x'[u] = x[u]
      BY <1>1 DEF Inv
    <3>2. Entered(u)' <=> Entered(u)
      BY <1>1, <2>5, <2>9, <2>11 DEF Entered
    <3>3. \A e \in Entries' : e.id = u => \E d \in Entries : d.id = u /\ e.mapped = d.mapped /\ e.geom = d.geom
      BY <1>1, <2>5, <2>9, <2>11
    <3> QED BY <1>1, <1>2, <2>3, <2>4, <2>9, <2>10, <2>11, <3>1, <3>2, <3>3, UntouchedStays
  <2>12. Tracked(v)'
    <3>1. Tracked(v) /\ Heard(v) /\ (Child(v)' <=> Child(v))
      BY <1>1, <2>2, <2>9 DEF Inv, Heard, Child
    <3>2. find(comp.wins, v) <=> \E e \in Live(comp.wins) : e.id = v
      BY <1>1, LiveType
    <3>3. Child(v) => Entered(v)'
      <4>1. CASE pc' = "add"
        BY <2>5, <2>9, <4>1 DEF Entered
      <4>2. CASE ~Addable(v)
        BY <2>9, <3>2, <4>2 DEF Entered, Addable, Child
      <4> QED BY <2>1, <4>1, <4>2
    <3>4. Accounted(v)'
      BY <1>1, <2>3, <3>1, <3>3 DEF Tracked, Accounted, Heard
    <3>5. Agreed(v)'
      BY <1>1, <2>5, <2>9, <3>1, <3>3 DEF Tracked, Agreed
    <3>6. Pictured(v)'
      BY <1>1, <2>3, <3>1 DEF Tracked, Pictured
    <3> QED BY <3>4, <3>5, <3>6 DEF Tracked
  <2>13. Screen'
    BY <1>1, <1>3, <2>3, ScreenStays
  <2> QED BY <2>6, <2>7, <2>8, <2>11, <2>12, <2>13 DEF Inv
<1> QED BY <1>4, <1>5

LEMMA RedirectIs ==
  ASSUME x \in [Window -> WindowType], NEW v \in Window
  PROVE  /\ Redirect(v) \in [Window -> WindowType]
         /\ \A u \in Window \ {v} : Redirect(v)[u] = x[u]
         /\ Redirect(v)[v].at = x[v].at /\ Redirect(v)[v].mapped = x[v].mapped /\ Redirect(v)[v].geom = x[v].geom
         /\ x[v].at # "none" => Redirect(v)[v].redirected
BY DEF Redirect, WindowType

(* The entry that was begun is listed; what happened to its window since   *)
(* is in the queue.                                                        *)
LEMMA add_windowKeeps ==
  ASSUME Inv, add_window
  PROVE  Inv'
<1>1. /\ pc = "add" /\ pc' \in {"events", "adopt"} /\ (comp.todo # <<>> => pc' = "adopt")
      /\ adding' = None /\ stack' = stack /\ desk' = desk /\ queue' = queue
      /\ TypeOK /\ Phases /\ Desktops /\ Listed /\ Screen /\ Working /\ Working' /\ stack \in Seq(Window)
      /\ comp \in CompType /\ comp.wins \in Seq(Entry) /\ Once(comp.wins) /\ x \in [Window -> WindowType]
      /\ adding \in Entry /\ ~adding.ghost /\ ~find(comp.wins, adding.id)
  BY DEF add_window, Inv, TypeOK, CompType, Listed, Working, WindowType
<1>2. PICK v \in Window : v = adding.id
  BY <1>1 DEF Entry
<1>3. /\ x' \in [Window -> WindowType] /\ \A u \in Window \ {v} : x'[u] = x[u]
      /\ x'[v].at = x[v].at /\ x'[v].mapped = x[v].mapped /\ x'[v].geom = x[v].geom
      /\ Child(v) => x'[v].redirected
  <2>1. x' = Redirect(v)
    BY <1>2 DEF add_window
  <2> QED BY <1>1, <2>1, RedirectIs DEF Child
<1>4. PICK f : f = Added(adding, x')
  OBVIOUS
<1>5. /\ f \in Entry /\ f.id = v /\ f.mapped = adding.mapped /\ f.geom = adding.geom /\ ~f.ghost
      /\ f.managed = x'[v].redirected
      /\ adding.mapped /\ v # comp.direct /\ x'[v].mapped /\ x'[v].redirected => f.pict = "current"
  BY <1>1, <1>2, <1>3, <1>4, AddedIs
<1> DEFINE some == adding.mapped /\ x'[v].redirected
<1>6. Owing(comp, some).wins = comp.wins
  BY <1>1 DEF Owing, CompType
<1>7. PICK wins : wins = IF comp.todo = <<>> THEN restack(Append(comp.wins, f)) ELSE Append(comp.wins, f)
  OBVIOUS
<1>8. comp' = [Owing(comp, some) EXCEPT !.wins = wins]
  BY <1>2, <1>4, <1>7 DEF add_window
<1> HIDE DEF some
<1>9. wins \in Seq(Entry) /\ Once(wins) /\ Live(wins) = Live(comp.wins) \cup {f}
  <2>1. Append(comp.wins, f) \in Seq(Entry) /\ Once(Append(comp.wins, f)) /\ Live(Append(comp.wins, f)) = Live(comp.wins) \cup {f}
    BY <1>1, <1>2, <1>5, AppendIs
  <2> QED BY <1>1, <1>7, <2>1, RestackIs
<1>10. /\ comp' \in CompType /\ comp'.wins = wins
       /\ comp'.direct = comp.direct /\ comp'.canvas = comp.canvas /\ comp'.size = comp.size /\ comp'.todo = comp.todo
       /\ comp'.owed \/ (comp'.owed = comp.owed /\ comp'.drawn = comp.drawn /\ comp'.swapped = comp.swapped)
  <2>1. CASE some
    <3>1. comp' = [comp EXCEPT !.owed = TRUE, !.drawn = <<>>, !.wins = wins]
      BY <1>8, <2>1 DEF Owing
    <3>2. <<>> \in Seq(Window)
      OBVIOUS
    <3> QED BY <1>1, <1>9, <3>1, <3>2 DEF CompType
  <2>2. CASE ~some
    <3>1. comp' = [comp EXCEPT !.wins = wins]
      BY <1>8, <2>2 DEF Owing
    <3> QED BY <1>1, <1>9, <3>1 DEF CompType
  <2> QED BY <2>1, <2>2
<1>11. TypeOK'
  BY <1>1, <1>3, <1>10 DEF TypeOK, CompType, WindowType
<1>12. \A u \in Window : (Child(u)' <=> Child(u)) /\ (Shows(u)' <=> Shows(u))
  <2>1. \A u \in Window : x'[u].at = x[u].at /\ x'[u].mapped = x[u].mapped /\ x'[u].geom = x[u].geom
    BY <1>3
  <2> QED BY <2>1 DEF Child, Shows
<1>13. Phases'
  BY <1>1, <1>10, <1>12 DEF Phases
<1>14. Desktops' /\ Listed'
  BY <1>1, <1>9, <1>10 DEF Desktops, Listed
<1>15. Entries = Live(comp.wins) \cup {adding} /\ Entries' = Live(comp.wins) \cup {f}
  BY <1>1, <1>9, <1>10 DEF Entries
<1>16. \A u : (Entered(u)' <=> Entered(u)) /\ (Waits(u)' <=> Waits(u))
  BY <1>2, <1>5, <1>10, <1>15 DEF Entered, Waits
<1>17. (\A u : find(wins, u) <=> find(comp.wins, u) \/ u = v) /\ \A e \in Live(comp.wins) : e.id # v
  <2>1. \A u : find(wins, u) <=> \E e \in Live(wins) : e.id = u
    BY <1>9, LiveType
  <2>2. \A u : find(comp.wins, u) <=> \E e \in Live(comp.wins) : e.id = u
    BY <1>1, LiveType
  <2> QED BY <1>1, <1>2, <1>5, <1>9, <2>1, <2>2
<1>18. ASSUME NEW u \in Window, u # v PROVE Tracked(u)'
  <2>1. Tracked(u) /\ Silent(queue, queue, u)
    BY SilentSame DEF Inv
  <2>2. \A e \in Live(wins) : e.id = u => \E d \in Live(comp.wins) : Alike(e, d)
    BY <1>5, <1>9, <1>18 DEF Alike
  <2>3. \A e \in Entries' : e.id = u => \E d \in Entries : d.id = u /\ e.mapped = d.mapped /\ e.geom = d.geom
    BY <1>5, <1>15, <1>18
  <2>4. find(comp'.wins, u) <=> find(comp.wins, u)
    BY <1>10, <1>17, <1>18
  <2> QED BY <1>1, <1>3, <1>10, <1>16, <1>18, <2>1, <2>2, <2>3, <2>4, UntouchedStays
<1>19. Tracked(v)'
  <2>1. Tracked(v) /\ Entered(v) /\ Entered(v)' /\ \A e \in Entries : e.id = v => e = adding
    BY <1>2, <1>15, <1>16, <1>17 DEF Inv, Entered
  <2>2. Accounted(v)'
    <3>1. find(comp'.wins, v)
      BY <1>10, <1>17
    <3> QED BY <1>1, <1>12, <2>1, <3>1 DEF Tracked, Accounted, Heard
  <2>3. \A e \in Entries' : e.id = v => e = f
    BY <1>15, <1>17
  <2>4. Agreed(v)'
    <3>1. Child(v) => adding \in Entries
      BY <1>15
    <3> QED BY <1>1, <1>2, <1>3, <1>5, <1>12, <2>1, <2>3, <3>1 DEF Tracked, Agreed
  <2>5. Pictured(v)'
    <3>1. \A e \in Live(wins) : e.id = v => e = f
      BY <1>9, <1>17
    <3>2. Child(v) => v # comp.direct
      BY <1>1, <1>2, <2>1 DEF Tracked, Accounted
    <3>3. Child(v) /\ f.mapped /\ ~Has(queue, Visibility, v) => x'[v].mapped
      BY <1>2, <1>3, <1>5, <1>15, <2>1 DEF Tracked, Agreed
    <3> QED BY <1>1, <1>3, <1>5, <1>10, <1>12, <3>1, <3>2, <3>3 DEF Pictured
  <2> QED BY <2>2, <2>4, <2>5 DEF Tracked
<1>20. Screen'
  <2>1. CASE comp'.owed
    BY <2>1 DEF Screen
  <2>2. CASE comp'.owed = comp.owed /\ comp'.drawn = comp.drawn /\ comp'.swapped = comp.swapped
    <3>1. SettledStay
      BY <1>1, <1>12 DEF SettledStay
    <3>2. OrderStays
      BY <1>1 DEF OrderStays
    <3>3. \A u : find(comp.wins, u) => find(comp'.wins, u)
      BY <1>10, <1>17
    <3> QED BY <1>1, <1>10, <2>2, <3>1, <3>2, <3>3, ScreenStays
  <2> QED BY <1>10, <2>1, <2>2
<1> QED BY <1>11, <1>13, <1>14, <1>18, <1>19, <1>20 DEF Inv

(* With nothing to read, every entry is right: all but its picture is the  *)
(* window's, and its picture unless the window is d.                       *)
Right(e, d) ==
  /\ e.managed /\ e.mapped = x[e.id].mapped /\ e.geom = x[e.id].geom
  /\ e.id # d /\ e.mapped => e.pict = "current"

LEMMA NothingSaid ==
  ASSUME NEW q, q = <<>>
  PROVE  /\ \A K, u : ~Has(q, K, u)
         /\ \A u : FirstCreate(q, u)
         /\ \A u, b : MapsTo(q, u, b) /\ ConfsTo(q, u, b) /\ ~Resizes(q, u, b)
<1>1. \A K, u : ~Has(q, K, u) /\ Says(q, K, u) = {}
  BY DEF Has, Says
<1> QED BY <1>1 DEF FirstCreate, MapsTo, ConfsTo, LastSays, Resizes

LEMMA RightIs ==
  ASSUME Inv, queue = <<>>, Working, pc \notin {"adopt", "add"}
  PROVE  /\ \A v \in Window : find(comp.wins, v) <=> Child(v)
         /\ \A e \in Live(comp.wins) : e \in Entry /\ e.id \in Window /\ Child(e.id) /\ Right(e, comp.direct)
         /\ \A v \in Window : Child(v) => (x[v].redirected <=> v # comp.direct)
<1>1. comp.wins \in Seq(Entry) /\ Entries = Live(comp.wins)
  BY DEF Inv, TypeOK, Entries
<1>2. \A K, u : ~Has(queue, K, u) /\ ~Waits(u)
  <2>1. \A u : ~Waits(u)
    BY Adopted DEF Inv
  <2> QED BY <2>1, NothingSaid
<1>3. \A v \in Window : Entered(v) <=> find(comp.wins, v)
  BY <1>1, LiveType DEF Entered
<1>4. \A v \in Window : find(comp.wins, v) <=> Child(v)
  BY <1>2, <1>3 DEF Inv, Tracked, Accounted, Heard
<1>5. ASSUME NEW e \in Live(comp.wins)
      PROVE  /\ e \in Entry /\ e.id \in Window /\ Child(e.id) /\ Right(e, comp.direct)
             /\ x[e.id].redirected <=> e.id # comp.direct
  <2>1. e \in Entry /\ e.id \in Window /\ find(comp.wins, e.id)
    BY <1>1, LiveType DEF Entry
  <2>2. Child(e.id) /\ Tracked(e.id)
    BY <1>4, <2>1 DEF Inv
  <2>3. e.mapped = x[e.id].mapped /\ e.geom = x[e.id].geom
    BY <1>1, <1>2, <2>2 DEF Tracked, Agreed
  <2>4. /\ e.managed /\ (x[e.id].redirected <=> e.id # comp.direct)
        /\ e.id # comp.direct /\ e.mapped => e.pict # "none" /\ (e.pict = "stale" => Resizes(queue, e.id, e.geom))
    BY <1>2, <2>2 DEF Tracked, Pictured
  <2>5. e.pict \in {"none", "current", "stale"} /\ ~Resizes(queue, e.id, e.geom)
    BY <2>1, NothingSaid DEF Entry
  <2> QED BY <2>1, <2>2, <2>3, <2>4, <2>5 DEF Right
<1>6. \A v \in Window : Child(v) => \E e \in Live(comp.wins) : e.id = v
  BY <1>1, <1>4, LiveType
<1> QED BY <1>4, <1>5, <1>6

(* Some of the numbers up to n: one of them is the greatest.               *)
LEMMA Greatest ==
  ASSUME NEW n \in Nat, NEW T \in SUBSET (1..n), T # {}
  PROVE  \E i \in T : \A j \in T : j <= i
<1> DEFINE U == {n - i : i \in T}
<1>1. \A i \in T : i \in Nat /\ n - i \in Nat
  OBVIOUS
<1>2. U \in SUBSET Nat /\ U # {}
  BY <1>1
<1>3. PICK k \in U : \A l \in U : k <= l
  <2> HIDE DEF U
  <2> QED BY <1>2, Least
<1>4. PICK i \in T : k = n - i
  OBVIOUS
<1>5. \A j \in T : n - i <= n - j
  BY <1>3, <1>4
<1>6. \A j \in T : j <= i
  BY <1>1, <1>5
<1> QED BY <1>6

(* The window that may be drawn by the server alone is one that is listed. *)
LEMMA TopIs ==
  ASSUME comp.wins \in Seq(Entry)
  PROVE  Top = None \/ \E e \in Live(comp.wins) : e.id = Top
<1> DEFINE up == {i \in DOMAIN comp.wins : comp.wins[i].mapped /\ ~comp.wins[i].ghost}
           e == comp.wins[CHOOSE i \in up : \A j \in up : j <= i]
<1>1. Top = IF up = {} THEN None ELSE IF CoversAll(e) THEN e.id ELSE None
  BY DEF Top
<1>2. up \in SUBSET (1..Len(comp.wins)) /\ Len(comp.wins) \in Nat /\ up \subseteq Living(comp.wins)
  BY LivingIs
<1>3. ASSUME up # {} PROVE e \in Live(comp.wins)
  <2>1. \E i \in up : \A j \in up : j <= i
    <3> HIDE DEF up
    <3> QED BY <1>2, <1>3, Greatest
  <2> QED BY <1>2, <2>1 DEF Live
<1> HIDE DEF up, e
<1> QED BY <1>1, <1>3

LEMMA check_directKeeps ==
  ASSUME Inv, check_direct
  PROVE  Inv'
<1>1. /\ pc \in {"poll", "events"} /\ queue = <<>> /\ pc' = "paint" /\ stack' = stack /\ desk' = desk
      /\ queue' = queue /\ adding' = adding
      /\ TypeOK /\ Phases /\ Desktops /\ Listed /\ Working /\ Working' /\ pc \notin {"adopt", "add"}
      /\ comp.todo = <<>> /\ comp \in CompType /\ comp.wins \in Seq(Entry) /\ Once(comp.wins) /\ x \in [Window -> WindowType]
      /\ comp.direct \in Window \cup {None}
  <2>1. pc \notin {"adopt", "add"} /\ Phases
    BY DEF check_direct, Inv
  <2>2. comp.todo = <<>>
    BY <2>1, Adopted
  <2> QED BY <2>1, <2>2 DEF check_direct, Inv, TypeOK, CompType, Listed, Working, WindowType
<1>2. CASE Top = comp.direct
  <2>1. x' = x /\ comp' = comp
    BY <1>2 DEF check_direct
  <2>2. TypeOK' /\ Phases' /\ Desktops'
    BY <1>1, <2>1 DEF TypeOK, Phases, Desktops, Working, Child
  <2>3. Listed' /\ Screen' /\ \A u \in Window : Tracked(u)'
    BY <1>1, <2>1, SilentSame, WindowsStay
  <2> QED BY <2>2, <2>3 DEF Inv
<1>3. CASE Top # comp.direct
  <2> DEFINE d == comp.direct
             y == IF d = None THEN x ELSE Redirect(d)
             wins == IF d = None THEN comp.wins ELSE Undirect(comp, y)
  <2>1. PICK top : top = Top
    OBVIOUS
  <2>2. /\ x' = IF top = None THEN y ELSE [y EXCEPT ![top].redirected = FALSE]
        /\ comp' = Directed(comp, wins, top)
    BY <1>3, <2>1 DEF check_direct
  <2>3. /\ \A v \in Window : find(comp.wins, v) <=> Child(v)
        /\ \A e \in Live(comp.wins) : e \in Entry /\ e.id \in Window /\ Child(e.id) /\ Right(e, d)
        /\ \A v \in Window : Child(v) => (x[v].redirected <=> v # d)
    BY <1>1, RightIs
  <2>4. top = None \/ (top \in Window /\ find(comp.wins, top))
    <3>1. top = None \/ \E e \in Live(comp.wins) : e.id = top
      BY <1>1, <2>1, TopIs
    <3> QED BY <1>1, <2>3, <3>1, LiveType
  <2>5. /\ y \in [Window -> WindowType]
        /\ \A u \in Window : /\ y[u].at = x[u].at /\ y[u].mapped = x[u].mapped /\ y[u].geom = x[u].geom
                             /\ u # d => y[u] = x[u]
                             /\ Child(u) => y[u].redirected
    <3>1. CASE d = None
      BY <1>1, <2>3, <3>1, Bounds
    <3>2. CASE d # None
      <4>1. d \in Window /\ y = Redirect(d)
        BY <1>1, <3>2
      <4> HIDE DEF y, d
      <4> QED BY <1>1, <2>3, <4>1, RedirectIs DEF Child
    <3> QED BY <3>1, <3>2
  <2>6. PICK old : old = wins
    OBVIOUS
  <2>7. /\ old \in Seq(Entry) /\ Once(old)
        /\ \A v : find(old, v) <=> find(comp.wins, v)
        /\ \A e \in Live(old) : e \in Entry /\ Child(e.id) /\ Right(e, None)
    <3>1. CASE d = None \/ (d # None /\ ~find(comp.wins, d))
      <4>1. old = comp.wins
        BY <2>6, <3>1 DEF Undirect
      <4>2. \A e \in Live(comp.wins) : e.id # None /\ (d = None \/ e.id # d)
        BY <1>1, <2>3, <3>1, LiveType, Bounds
      <4> HIDE DEF d
      <4> QED BY <1>1, <2>3, <4>1, <4>2 DEF Right
    <3>2. CASE d # None /\ find(comp.wins, d)
      <4> DEFINE e == The(comp.wins, d)
                 m == [e EXCEPT !.managed = y[e.id].redirected]
                 f == get_pictures(m, None, y)
      <4>1. wins = Put(comp.wins, f)
        BY <3>2 DEF Undirect
      <4>2. e \in Live(comp.wins) /\ e.id = d /\ e \in Entry /\ ~e.ghost
        BY <1>1, <3>2, TheIs, LiveType
      <4>3. d \in Window /\ Child(d) /\ e.mapped = x[d].mapped /\ e.geom = x[d].geom
        BY <2>3, <4>2 DEF Right
      <4> HIDE DEF e, d, y, wins
      <4>4. y[d].redirected = TRUE /\ y[d].mapped = x[d].mapped /\ d # None
        BY <2>5, <4>3, Bounds DEF WindowType
      <4>5. /\ m \in Entry /\ m.id = d /\ ~m.ghost /\ m.managed /\ m.mapped = e.mapped /\ m.geom = e.geom
        BY <4>2, <4>4 DEF Entry
      <4> HIDE DEF m
      <4>6. /\ f \in Entry /\ f.id = d /\ ~f.ghost /\ f.managed /\ f.mapped = e.mapped /\ f.geom = e.geom
            /\ f.mapped => f.pict = "current"
        BY <4>3, <4>4, <4>5, GetPicturesIs
      <4> HIDE DEF f
      <4>7. wins \in Seq(Entry) /\ Once(wins) /\ Live(wins) = {c \in Live(comp.wins) : c.id # d} \cup {f}
        BY <1>1, <3>2, <4>1, <4>6, PutIs
      <4>8. \A v : find(wins, v) <=> find(comp.wins, v)
        <5>1. \A v : find(wins, v) <=> \E c \in Live(wins) : c.id = v
          BY <4>7, LiveType
        <5>2. \A v : find(comp.wins, v) <=> \E c \in Live(comp.wins) : c.id = v
          BY <1>1, LiveType
        <5> QED BY <4>2, <4>6, <4>7, <5>1, <5>2
      <4>9. Right(f, None)
        BY <4>3, <4>6 DEF Right
      <4>10. \A c \in Live(comp.wins) : c.id # d => Right(c, None)
        BY <2>3 DEF Right
      <4> QED BY <2>3, <2>6, <4>3, <4>6, <4>7, <4>8, <4>9, <4>10
    <3> QED BY <3>1, <3>2
  <2>8. PICK new : new = IF top = None THEN old ELSE Put(old, [The(old, top) EXCEPT !.pict = "none"])
    OBVIOUS
  <2>9. /\ new \in Seq(Entry) /\ Once(new)
        /\ \A v : find(new, v) <=> find(comp.wins, v)
        /\ \A e \in Live(new) : e \in Entry /\ Child(e.id) /\ Right(e, top)
    <3>1. CASE top = None
      BY <2>7, <2>8, <3>1
    <3>2. CASE top # None
      <4> DEFINE e == The(old, top)
                 f == [e EXCEPT !.pict = "none"]
      <4>1. new = Put(old, f)
        BY <2>8, <3>2
      <4>2. find(old, top)
        BY <2>4, <2>7, <3>2
      <4>3. e \in Live(old) /\ e.id = top /\ e \in Entry /\ ~e.ghost
        BY <2>7, <4>2, TheIs, LiveType
      <4>4. Child(top) /\ Right(e, None)
        BY <2>7, <4>3
      <4> HIDE DEF e
      <4>5. f \in Entry /\ f.id = top /\ ~f.ghost /\ Right(f, top)
        BY <4>3, <4>4 DEF Entry, Right
      <4> HIDE DEF f
      <4>6. new \in Seq(Entry) /\ Once(new) /\ Live(new) = {c \in Live(old) : c.id # top} \cup {f}
        BY <2>7, <4>1, <4>2, <4>5, PutIs
      <4>7. \A v : find(new, v) <=> find(old, v)
        <5>1. \A v : find(new, v) <=> \E c \in Live(new) : c.id = v
          BY <4>6, LiveType
        <5>2. \A v : find(old, v) <=> \E c \in Live(old) : c.id = v
          BY <2>7, LiveType
        <5> QED BY <4>3, <4>5, <4>6, <5>1, <5>2
      <4>8. \A c \in Live(old) : Right(c, top)
        <5>1. \A c \in Live(old) : c.id # None
          BY <2>7, Bounds DEF Entry
        <5> QED BY <2>7, <5>1 DEF Right
      <4> QED BY <2>7, <4>4, <4>5, <4>6, <4>7, <4>8
    <3> QED BY <3>1, <3>2
  <2>10. /\ comp' \in CompType /\ comp'.wins = new /\ comp'.direct = top /\ comp'.size = comp.size /\ comp'.todo = comp.todo
         /\ top = None => comp'.canvas
         /\ comp'.owed \/ top # None
    <3>1. comp' = [OwingAll(comp, d # None) EXCEPT !.direct = top, !.canvas = (top = None), !.wins = new]
      <4> HIDE DEF wins, d
      <4> QED BY <2>2, <2>6, <2>8 DEF Directed, d
    <3>2. CASE d = None
      <4>1. comp' = [comp EXCEPT !.direct = top, !.canvas = (top = None), !.wins = new]
        BY <3>1, <3>2 DEF OwingAll
      <4> QED BY <1>1, <1>3, <2>1, <2>4, <2>9, <3>2, <4>1 DEF CompType
    <3>3. CASE d # None
      <4>1. comp' = [comp EXCEPT !.owed = TRUE, !.drawn = <<>>, !.swapped = FALSE,
                                 !.direct = top, !.canvas = (top = None), !.wins = new]
        BY <3>1, <3>3 DEF Owing, OwingAll
      <4>2. <<>> \in Seq(Window)
        OBVIOUS
      <4> QED BY <1>1, <2>4, <2>9, <4>1, <4>2 DEF CompType
    <3> QED BY <3>2, <3>3
  <2> HIDE DEF wins, y, d
  <2>11. /\ x' \in [Window -> WindowType]
         /\ \A u \in Window : /\ x'[u].at = x[u].at /\ x'[u].mapped = x[u].mapped /\ x'[u].geom = x[u].geom
                              /\ Child(u) => (x'[u].redirected <=> u # top)
    <3>1. CASE top = None
      BY <2>2, <2>5, <3>1, Bounds
    <3>2. CASE top # None
      <4>1. x' = [y EXCEPT ![top].redirected = FALSE] /\ top \in Window
        BY <2>2, <2>4, <3>2
      <4>2. x' \in [Window -> WindowType]
        <5>1. y[top] \in WindowType
          BY <2>5, <4>1
        <5>2. [y[top] EXCEPT !.redirected = FALSE] \in WindowType
          BY <5>1 DEF WindowType
        <5>3. x' = [u \in Window |-> IF u = top THEN [y[top] EXCEPT !.redirected = FALSE] ELSE y[u]]
          BY <2>5, <4>1
        <5> QED BY <2>5, <5>2, <5>3
      <4>3. \A u \in Window : x'[u] = IF u = top THEN [y[u] EXCEPT !.redirected = FALSE] ELSE y[u]
        BY <2>5, <4>1
      <4> QED BY <2>5, <4>2, <4>3 DEF WindowType
    <3> QED BY <3>1, <3>2
  <2>12. \A u \in Window : Child(u)' <=> Child(u)
    BY <2>11 DEF Child
  <2>13. TypeOK'
    BY <1>1, <2>10, <2>11 DEF TypeOK, CompType, WindowType
  <2>14. Phases' /\ Desktops' /\ Listed' /\ Screen'
    <3>1. Phases'
      BY <1>1, <2>10, <2>12 DEF Phases
    <3>2. Desktops'
      BY <1>1, <2>10 DEF Desktops, Working
    <3>3. Listed'
      BY <1>1, <2>9, <2>10 DEF Listed
    <3>4. Screen'
      BY <2>10 DEF Screen
    <3> QED BY <3>1, <3>2, <3>3, <3>4
  <2>15. ASSUME NEW u \in Window PROVE Tracked(u)'
    <3>1. queue' = <<>>
      BY <1>1
    <3>2. \A K, w : ~Has(queue', K, w)
      BY <3>1, NothingSaid
    <3>3. \A w : FirstCreate(queue', w)
      BY <3>1, NothingSaid
    <3>4. \A w, b : MapsTo(queue', w, b) /\ ConfsTo(queue', w, b)
      BY <3>1, NothingSaid
    <3>5. Entries' = Live(new)
      BY <1>1, <2>10 DEF Entries
    <3>6. find(new, u) <=> \E e \in Live(new) : e.id = u
      BY <2>9, LiveType
    <3>7. (Entered(u)' <=> Child(u)) /\ (find(new, u) <=> Child(u))
      BY <2>3, <2>9, <3>5, <3>6 DEF Entered
    <3>12. ~Waits(u)'
      BY <1>1, <2>10, NoneWait DEF Waits
    <3>8. Accounted(u)'
      BY <2>10, <2>12, <3>2, <3>3, <3>7, <3>12 DEF Accounted, Heard
    <3>9. \A e \in Live(new) : e.id = u =>
            /\ e.managed /\ e.mapped = x'[u].mapped /\ e.geom = x'[u].geom
            /\ u # top /\ e.mapped => e.pict = "current"
      BY <2>9, <2>11 DEF Right
    <3>10. Agreed(u)'
      BY <2>12, <3>4, <3>5, <3>7, <3>9 DEF Agreed
    <3>11. Pictured(u)'
      BY <2>10, <2>11, <2>12, <3>9 DEF Pictured
    <3> QED BY <3>8, <3>10, <3>11 DEF Tracked
  <2> QED BY <2>13, <2>14, <2>15 DEF Inv
<1> QED BY <1>2, <1>3

(* A frame shows each window of which there is nothing to read.            *)
LEMMA FrameScreen ==
  ASSUME Inv, pc = "paint", comp.direct = None, x' = x, stack' = stack, queue' = queue, comp' = Frame
  PROVE  Screen'
<1>1. /\ stack \in Seq(Window) /\ IsInjective(stack) /\ comp \in CompType /\ comp.wins \in Seq(Entry) /\ Once(comp.wins)
      /\ Working /\ Entries = Live(comp.wins)
  BY DEF Inv, TypeOK, CompType, Listed, Working, Entries
<1>2. /\ \A v : find(Frame.wins, v) <=> find(comp.wins, v)
  BY <1>1, FrameIs
<1> SUFFICES ASSUME ~Frame.owed, ~Frame.swapped
             PROVE  /\ IsInjective(Frame.drawn)
                    /\ \A v \in ToSet(Frame.drawn) : find(Frame.wins, v)
                    /\ \A v \in Window : Settled(queue, v) => (v \in ToSet(Frame.drawn) <=> Shows(v))
                    /\ \A i, j \in DOMAIN Frame.drawn : \A k, l \in DOMAIN stack :
                         /\ Settled(queue, Frame.drawn[i]) /\ Settled(queue, Frame.drawn[j])
                         /\ stack[k] = Frame.drawn[i] /\ stack[l] = Frame.drawn[j] /\ i < j
                         => k < l
  BY DEF Screen, Shows, Child
<1>3. /\ IsInjective(Frame.drawn)
      /\ \A v : v \in ToSet(Frame.drawn) <=>
           \E e \in Live(comp.wins) : e.id = v /\ e.mapped /\ e.pict # "none" /\ e.geom # "off"
      /\ \A i, j \in DOMAIN Frame.drawn : \A k, l \in DOMAIN stack :
           stack[k] = Frame.drawn[i] /\ stack[l] = Frame.drawn[j] /\ i < j => k < l
  BY <1>1, FrameShows
<1>4. \A v \in ToSet(Frame.drawn) : find(Frame.wins, v)
  BY <1>1, <1>2, <1>3, LiveType
<1>5. ASSUME NEW v \in Window, Settled(queue, v) PROVE v \in ToSet(Frame.drawn) <=> Shows(v)
  <2>1. ~Has(queue, Visibility, v) /\ ~Has(queue, Parting, v) /\ ~Has(queue, {"configure"}, v)
    BY <1>5 DEF Settled, Has, Telling
  <2>2. Tracked(v) /\ v # comp.direct
    BY Bounds DEF Inv
  <2>3. Entered(v) => Child(v)
    BY <2>1, <2>2 DEF Tracked, Accounted, Heard
  <2>4. Shows(v) => Entered(v)
    <3>1. ~Waits(v)
      BY Adopted DEF Inv
    <3> QED BY <1>1, <2>1, <2>2, <3>1 DEF Tracked, Agreed, Shows
  <2>5. \A e \in Live(comp.wins) : e.id = v =>
          /\ Child(v) /\ e.mapped = x[v].mapped /\ e.geom = x[v].geom
          /\ e.mapped => e.pict # "none"
    <3> SUFFICES ASSUME NEW e \in Live(comp.wins), e.id = v
                 PROVE  /\ Child(v) /\ e.mapped = x[v].mapped /\ e.geom = x[v].geom
                        /\ e.mapped => e.pict # "none"
      OBVIOUS
    <3>1. Child(v)
      BY <1>1, <2>3 DEF Entered
    <3>2. e.mapped = x[v].mapped /\ e.geom = x[v].geom
      BY <1>1, <2>1, <2>2, <3>1 DEF Tracked, Agreed
    <3>3. e.mapped => e.pict # "none"
      BY <2>1, <2>2, <3>1 DEF Tracked, Pictured
    <3> QED BY <3>1, <3>2, <3>3
  <2> QED BY <1>1, <1>3, <2>4, <2>5 DEF Entered, Shows
<1> QED BY <1>3, <1>4, <1>5

LEMMA paintKeeps ==
  ASSUME Inv, paint
  PROVE  Inv'
<1>1. /\ pc = "paint" /\ pc' = "poll" /\ x' = x /\ stack' = stack /\ desk' = desk /\ queue' = queue /\ adding' = adding
      /\ TypeOK /\ Phases /\ Desktops /\ Listed /\ Screen /\ Working /\ Working' /\ stack \in Seq(Window)
      /\ comp \in CompType /\ comp.wins \in Seq(Entry) /\ Once(comp.wins)
  BY DEF paint, Inv, TypeOK, CompType, Listed, Working
<1>2. CASE comp' = comp
  <2>1. TypeOK' /\ Phases' /\ Desktops'
    BY <1>1, <1>2 DEF TypeOK, Phases, Desktops, Working, Child
  <2>2. Listed' /\ Screen' /\ \A u \in Window : Tracked(u)'
    BY <1>1, <1>2, SilentSame, WindowsStay
  <2> QED BY <2>1, <2>2 DEF Inv
<1>3. ASSUME comp' \in CompType, Once(comp'.wins), comp'.direct = comp.direct, comp'.canvas = comp.canvas, comp'.size = comp.size,
             comp'.todo = comp.todo,
             \A v : find(comp'.wins, v) <=> find(comp.wins, v),
             \A e \in Live(comp'.wins) : \E d \in Live(comp.wins) : Alike(e, d),
             Screen'
      PROVE  Inv'
  <2>1. TypeOK' /\ Phases' /\ Desktops' /\ Listed'
    BY <1>1, <1>3 DEF TypeOK, CompType, Phases, Desktops, Listed, Working, Child
  <2>2. Entries = Live(comp.wins) /\ Entries' = Live(comp'.wins)
    BY <1>1 DEF Entries
  <2>3. ASSUME NEW u \in Window PROVE Tracked(u)'
    <3>1. Tracked(u) /\ Silent(queue, queue', u) /\ x'[u] = x[u]
      BY <1>1, SilentSame DEF Inv
    <3>2. Entered(u)' <=> Entered(u)
      <4>1. comp'.wins \in Seq(Entry)
        BY <1>3 DEF CompType
      <4>2. (find(comp.wins, u) <=> \E e \in Live(comp.wins) : e.id = u)
            /\ (find(comp'.wins, u) <=> \E e \in Live(comp'.wins) : e.id = u)
        BY <1>1, <4>1, LiveType
      <4> QED BY <1>3, <2>2, <4>2 DEF Entered
    <3>3. \A e \in Live(comp'.wins) : e.id = u => \E d \in Live(comp.wins) : Alike(e, d)
      BY <1>3
    <3>4. \A e \in Entries' : e.id = u => \E d \in Entries : d.id = u /\ e.mapped = d.mapped /\ e.geom = d.geom
      BY <2>2, <3>3 DEF Alike
    <3>5. Waits(u)' <=> Waits(u)
      BY <1>3 DEF Waits
    <3> QED BY <1>1, <1>3, <3>1, <3>2, <3>3, <3>4, <3>5, UntouchedStays
  <2> QED BY <1>3, <2>1, <2>3 DEF Inv
<1>4. CASE comp.direct # None
  <2>1. comp' = [comp EXCEPT !.owed = FALSE, !.drawn = <<>>]
    <3>1. comp' = [Owing(comp, TRUE) EXCEPT !.owed = FALSE]
      BY <1>4 DEF paint
    <3> QED BY <1>1, <3>1 DEF Owing, CompType
  <2>2. <<>> \in Seq(Window)
    OBVIOUS
  <2>3. /\ comp' \in CompType /\ comp'.wins = comp.wins
        /\ comp'.direct = comp.direct /\ comp'.canvas = comp.canvas /\ comp'.size = comp.size /\ comp'.todo = comp.todo
    BY <1>1, <2>1, <2>2 DEF CompType
  <2>4. Screen'
    BY <1>4, <2>3 DEF Screen
  <2>5. \A e \in Live(comp.wins) : Alike(e, e)
    BY DEF Alike
  <2> QED BY <1>1, <1>3, <2>3, <2>4, <2>5
<1>5. CASE comp.direct = None /\ comp' = Frame
  <2>1. Screen'
    BY <1>1, <1>5, FrameScreen
  <2>2. /\ Frame \in CompType /\ Once(Frame.wins)
        /\ Frame.direct = comp.direct /\ Frame.canvas = comp.canvas /\ Frame.size = comp.size /\ Frame.todo = comp.todo
        /\ \A v : find(Frame.wins, v) <=> find(comp.wins, v)
        /\ \A e \in Live(Frame.wins) : \E d \in Live(comp.wins) : e = [d EXCEPT !.anim = e.anim]
    BY <1>1, FrameIs
  <2>3. \A e \in Live(Frame.wins) : \E d \in Live(comp.wins) : Alike(e, d)
    <3>1. \A d \in Live(comp.wins) : \A e : e = [d EXCEPT !.anim = e.anim] => Alike(e, d)
      BY <1>1, LiveType DEF Entry, Alike
    <3> QED BY <2>2, <3>1
  <2> QED BY <1>3, <1>5, <2>1, <2>2, <2>3
<1> QED BY <1>2, <1>4, <1>5 DEF paint

----------------------------------------------------------------------------
(* What follows.                                                           *)

LEMMA InitHolds == Init => Inv
<1> SUFFICES ASSUME Init PROVE Inv
  OBVIOUS
<1>1. TypeOK
  <2>1. <<>> \in Seq(Window) /\ <<>> \in Seq(Event) /\ <<>> \in Seq(Entry) /\ IsInjective(<<>>)
    BY DEF IsInjective
  <2> QED BY <2>1 DEF Init, TypeOK, NoWindow, NoComp, Geom, Sizes
<1>2. Phases /\ ~Working
  BY DEF Init, Phases, Working, Child, NoWindow, NoComp, ToSet
<1>3. Desktops
  BY DEF Init, Desktops, Working
<1>4. queue = <<>>
  BY DEF Init
<1> QED BY <1>1, <1>2, <1>3, <1>4, DeafKeeps

LEMMA Inductive == Inv /\ [Next]_vars => Inv'
<1> SUFFICES ASSUME Inv, [Next]_vars PROVE Inv'
  OBVIOUS
<1>1. CASE Programs
  BY <1>1, ProgramsKeep
<1>2. CASE Attach \/ attach \/ Adopt \/ add_window
  BY <1>2, AttachKeeps, attachKeeps, AdoptKeeps, add_windowKeeps
<1>3. CASE Events
  BY <1>3, OnGoneKeeps, OnResizeKeeps, OnCreateKeeps, OnDestroyKeeps, OnMapKeeps, OnUnmapKeeps,
     on_configureKeeps DEF Events
<1>4. CASE check_direct \/ paint
  BY <1>4, check_directKeeps, paintKeeps
<1>5. CASE UNCHANGED vars
  <2>1. x' = x /\ stack' = stack /\ desk' = desk /\ queue' = queue /\ pc' = pc /\ adding' = adding /\ comp' = comp
    BY <1>5 DEF vars
  <2>2. TypeOK' /\ Phases' /\ Desktops'
    BY <2>1 DEF Inv, TypeOK, Phases, Desktops, Working, Child
  <2>3. Listed' /\ Screen' /\ \A u \in Window : Tracked(u)'
    BY <2>1, SilentSame, WindowsStay
  <2> QED BY <2>2, <2>3 DEF Inv
<1> QED BY <1>1, <1>2, <1>3, <1>4, <1>5 DEF Next, Loop

LEMMA Always == Spec => []Inv
BY InitHolds, Inductive, PTL DEF Spec

LEMMA QuietIs ==
  ASSUME Inv, Quiet
  PROVE  queue = <<>> /\ Working /\ pc \notin {"adopt", "add"}
BY DEF Quiet, Working

LEMMA BookkeptHolds == Inv => Bookkept
<1> SUFFICES ASSUME Inv, Quiet
             PROVE  /\ comp.size = desk \/ desk = "gone"
                    /\ \A i, j \in DOMAIN comp.wins \ Ghosts(comp.wins) : comp.wins[i].id = comp.wins[j].id => i = j
                    /\ \A v \in Window :
                         /\ find(comp.wins, v) <=> v \in Children
                         /\ v \in Children =>
                              LET e == The(comp.wins, v) IN e.managed /\ e.mapped = x[v].mapped /\ e.geom = x[v].geom
  BY DEF Bookkept
<1>1. queue = <<>> /\ Working /\ pc \notin {"adopt", "add"}
  BY QuietIs
<1>2. comp.size = desk \/ desk = "gone"
  BY <1>1 DEF Inv, Desktops
<1>3. \A i, j \in DOMAIN comp.wins \ Ghosts(comp.wins) : comp.wins[i].id = comp.wins[j].id => i = j
  BY DEF Inv, Listed, Once, Living
<1>4. comp.wins \in Seq(Entry) /\ Once(comp.wins)
  BY DEF Inv, TypeOK, Listed
<1>5. /\ \A v \in Window : find(comp.wins, v) <=> Child(v)
      /\ \A e \in Live(comp.wins) : e \in Entry /\ e.id \in Window /\ Child(e.id) /\ Right(e, comp.direct)
  BY <1>1, RightIs
<1>6. ASSUME NEW v \in Window, find(comp.wins, v)
      PROVE  LET e == The(comp.wins, v) IN e.managed /\ e.mapped = x[v].mapped /\ e.geom = x[v].geom
  BY <1>4, <1>5, <1>6, TheIs DEF Right
<1> QED BY <1>2, <1>3, <1>5, <1>6 DEF Children, Child

(* However out of date what sg-deskcomp reads is, what it keeps is of its  *)
(* kind and, with nothing left to read, is each of the desktop's windows   *)
(* once, as the server has it.                                             *)
THEOREM Sound == Spec => []ListSound
<1>1. Inv => ListSound
  BY BookkeptHolds DEF Inv, ListSound
<1> QED BY <1>1, Always, PTL

(* With nothing left to read and the screen drawn since, a window that has *)
(* the screen to itself is not redirected, each other one is and its       *)
(* picture, if it is mapped, is what the server keeps now, and unless one  *)
(* has the screen to itself the canvas is there.                           *)
THEOREM WaysStayCurrent == Spec => []WaysCurrent
<1>1. Inv => WaysCurrent
  <2> SUFFICES ASSUME Inv, Quiet
               PROVE  /\ comp.direct = None => comp.canvas
                      /\ \A v \in Children :
                           IF v = comp.direct THEN ~x[v].redirected
                           ELSE x[v].redirected /\ (x[v].mapped => The(comp.wins, v).pict = "current")
    BY DEF WaysCurrent
  <2>1. queue = <<>> /\ Working /\ pc \notin {"adopt", "add"}
    BY QuietIs
  <2>2. comp.direct = None => comp.canvas
    BY <2>1 DEF Inv, Phases
  <2>3. comp.wins \in Seq(Entry) /\ Once(comp.wins)
    BY DEF Inv, TypeOK, Listed
  <2>4. /\ \A v \in Window : find(comp.wins, v) <=> Child(v)
        /\ \A e \in Live(comp.wins) : e \in Entry /\ e.id \in Window /\ Child(e.id) /\ Right(e, comp.direct)
        /\ \A v \in Window : Child(v) => (x[v].redirected <=> v # comp.direct)
    BY <2>1, RightIs
  <2>5. ASSUME NEW v \in Window, Child(v), v # comp.direct, x[v].mapped
        PROVE  The(comp.wins, v).pict = "current"
    BY <2>3, <2>4, <2>5, TheIs DEF Right
  <2> QED BY <2>2, <2>4, <2>5 DEF Children, Child
<1> QED BY <1>1, Always, PTL

(* When nothing is owed, and the whole screen was drawn since a ghost's end *)
(* last put windows in another order, the last frame drew what the desktop *)
(* has to show, in the server's order: no change of the order, nor of a    *)
(* window, leaves the screen as it was.                                    *)
THEOREM ScreenHolds == Spec => []ScreenIsServers
<1>1. Inv => ScreenIsServers
  <2> DEFINE I == {i \in DOMAIN stack : x[stack[i]].mapped /\ x[stack[i]].geom # "off"}
             t == Picked(stack, I)
  <2> SUFFICES ASSUME Inv, Quiet, comp.direct = None, ~comp.owed, ~comp.swapped PROVE comp.drawn = t
    BY DEF ScreenIsServers
  <2>1. queue = <<>> /\ Working /\ stack \in Seq(Window) /\ IsInjective(stack) /\ comp.drawn \in Seq(Window)
    BY QuietIs DEF Inv, TypeOK
  <2>2. \A v : Settled(queue, v)
    BY <2>1, NothingSaid DEF Settled
  <2>3. /\ IsInjective(comp.drawn)
        /\ \A v \in Window : v \in ToSet(comp.drawn) <=> Shows(v)
        /\ \A i, j \in DOMAIN comp.drawn : \A k, l \in DOMAIN stack :
             stack[k] = comp.drawn[i] /\ stack[l] = comp.drawn[j] /\ i < j => k < l
    BY <2>1, <2>2 DEF Inv, Screen
  <2>4. I \in SUBSET DOMAIN stack /\ \A i \in DOMAIN stack : i \in I <=> Shows(stack[i])
    <3>1. \A i \in DOMAIN stack : stack[i] \in Window /\ stack[i] \in ToSet(stack)
      BY <2>1 DEF ToSet
    <3>2. \A i \in DOMAIN stack : Child(stack[i])
      BY <3>1 DEF Inv, Phases
    <3> QED BY <3>2 DEF Shows
  <2> HIDE DEF I
  <2>5. t \in Seq(Window) /\ Picks(t, stack, I)
    BY <2>1, <2>4, PickedIs
  <2> HIDE DEF t
  <2>6. PICK p \in [DOMAIN t -> I] :
           /\ \A k \in DOMAIN t : t[k] = stack[p[k]]
           /\ \A k, l \in DOMAIN t : k < l <=> p[k] < p[l]
           /\ \A i \in I : \E k \in DOMAIN t : p[k] = i
    BY <2>5 DEF Picks
  <2>7. \A k \in DOMAIN t : p[k] \in DOMAIN stack /\ p[k] \in Int /\ k \in Int
    BY <2>1, <2>4, <2>5, <2>6
  <2>8. IsInjective(t)
    <3>1. \A k, l \in DOMAIN t : t[k] = t[l] => p[k] = p[l]
      BY <2>1, <2>6, <2>7 DEF IsInjective
    <3>2. \A k, l \in DOMAIN t : p[k] = p[l] => k = l
      BY <2>6, <2>7
    <3> QED BY <3>1, <3>2 DEF IsInjective
  <2>9. ToSet(t) = ToSet(comp.drawn)
    <3>1. ASSUME NEW v \in Window PROVE v \in ToSet(t) <=> Shows(v)
      <4>1. Shows(v) => \E i \in DOMAIN stack : stack[i] = v
        BY DEF Shows, Inv, Phases, ToSet
      <4> QED BY <2>4, <2>6, <2>7, <4>1 DEF ToSet
    <3>2. ToSet(t) \subseteq Window /\ ToSet(comp.drawn) \subseteq Window
      BY <2>1, <2>5 DEF ToSet
    <3> QED BY <2>3, <3>1, <3>2
  <2>10. \A i, j \in DOMAIN comp.drawn : \A k, l \in DOMAIN t : comp.drawn[i] = t[k] /\ comp.drawn[j] = t[l] /\ i < j => k < l
    BY <2>3, <2>6, <2>7
  <2> QED BY <2>1, <2>3, <2>5, <2>8, <2>9, <2>10, SameOrder
<1> QED BY <1>1, Always, PTL
=============================================================================
