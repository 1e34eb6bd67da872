---------------------------- MODULE DisplaysProofs ----------------------------
(***************************************************************************)
(* What holds of elevated displays, of what their clients are offered and  *)
(* of the clipboards between them, for any displays and texts.             *)
(*                                                                         *)
(* The heap of sources is followed through the functions the handlers are  *)
(* composed of: SoundBut says of it, but for a source x that no seat has   *)
(* yet, that every source is the selection of one seat and every proxy     *)
(* wraps what it should; each function keeps it so, and it bounds the      *)
(* sources there are by the seats.                                         *)
(***************************************************************************)
EXTENDS Displays, FiniteSetTheorems, TLAPS

Heap == [src : [Slot -> Source], sel : [Seat -> Slot \cup {NoSource}]]

(* What a proxy in the heap is: of text, as the source it wraps, which is  *)
(* a display's own or, on a display, what the session has selected.        *)
Proxy(h, p) ==
  LET s == h.src[p]
  IN /\ s.content \in Text /\ s.inner \in Slot /\ s.content = h.src[s.inner].content
     /\ s.target = Session => h.src[s.inner].kind = "real" /\ \E d \in Display : h.sel[d] = s.inner
     /\ s.target # Session => h.sel[Session] = s.inner

(* Each seat has a selection of its own, each source is one, and each      *)
(* proxy the one of the seat it was made for; but for x.                   *)
SoundBut(h, x) ==
  /\ h \in Heap
  /\ \A s \in Seat : h.sel[s] # NoSource => h.sel[s] # x /\ h.src[h.sel[s]].kind # "free"
  /\ \A s \in Seat, t \in Seat : h.sel[s] = h.sel[t] /\ h.sel[s] # NoSource => s = t
  /\ \A i \in Slot : h.src[i].kind # "proxy" => h.src[i].inner = NoSource
  /\ \A i \in Slot : h.src[i].kind = "real" /\ i # x => \E s \in Seat : h.sel[s] = i
  /\ \A p \in Slot : h.src[p].kind = "proxy" /\ p # x => Proxy(h, p) /\ h.sel[h.src[p].target] = p

Sound(h) == SoundBut(h, NoSource)

LEMMA SeatsAre ==
  /\ NoSource \notin Slot /\ Session \in Seat /\ Session \notin Display
  /\ \A s \in Seat : s # Session => s \in Display
BY SessionIsNoDisplay DEF NoSource, Slot, Seat

LEMMA HeapIs ==
  ASSUME NEW h \in Heap
  PROVE  /\ \A i \in Slot : /\ h.src[i] \in Source /\ h.src[i].kind \in {"free", "real", "proxy"}
                            /\ h.src[i].content \in Text \cup {Image, Nothing}
                            /\ h.src[i].inner \in Slot \cup {NoSource} /\ h.src[i].target \in Seat
         /\ \A s \in Seat : h.sel[s] \in Slot \cup {NoSource}
BY DEF Heap, Source

LEMMA FreeIs ==
  /\ Free \in Source /\ Free.kind = "free" /\ Free.inner = NoSource
BY DEF Free, Source, Seat

(* There is always a slot left.                                            *)
LEMMA SlotIsFree ==
  ASSUME NEW h, Sound(h)
  PROVE  FreeSlot(h) \in Slot /\ h.src[FreeSlot(h)].kind = "free"
<1>1. \E i \in Slot : h.src[i].kind = "free"
  <2> SUFFICES ASSUME \A i \in Slot : h.src[i].kind # "free"
               PROVE  FALSE
    OBVIOUS
  <2>1. \A i \in Slot : \E s \in Seat : h.sel[s] = i
    <3> SUFFICES ASSUME NEW i \in Slot
                 PROVE  \E s \in Seat : h.sel[s] = i
      OBVIOUS
    <3>1. h \in Heap /\ i # NoSource
      BY SeatsAre DEF Sound, SoundBut
    <3>2. h.src[i].kind \in {"real", "proxy"} /\ h.src[i].target \in Seat
      BY <3>1, HeapIs
    <3> QED BY <3>1, <3>2 DEF Sound, SoundBut
  <2> DEFINE f == [i \in Slot |-> CHOOSE s \in Seat : h.sel[s] = i]
  <2>2. \A i \in Slot : f[i] \in Seat /\ h.sel[f[i]] = i
    BY <2>1
  <2> HIDE DEF f
  <2>3. f \in Injection(Slot, Seat)
    <3>1. f \in [Slot -> Seat]
      BY <2>2 DEF f
    <3>2. \A i, j \in Slot : f[i] = f[j] => i = j
      BY <2>2
    <3> QED BY <3>1, <3>2 DEF Injection, IsInjective
  <2>4. IsFiniteSet(Seat) /\ Cardinality(Seat) <= Cardinality(Display) + 1 /\ Cardinality(Display) \in Nat
    BY DisplaysAreFinite, FS_AddElement, FS_CardinalityType DEF Seat
  <2>5. Cardinality(Slot) = MaxSource
    <3>1. MaxSource \in Nat /\ 1 \in Int /\ MaxSource \in Int
      BY SlotsSuffice
    <3>2. Cardinality(1..MaxSource) = IF 1 > MaxSource THEN 0 ELSE MaxSource - 1 + 1
      BY <3>1, FS_Interval, Zenon
    <3> QED BY <3>1, <3>2 DEF Slot
  <2>6. Cardinality(Slot) <= Cardinality(Seat)
    BY <2>3, <2>4, FS_Injection
  <2>7. Cardinality(Seat) \in Nat
    BY <2>4, FS_CardinalityType
  <2> QED BY <2>4, <2>5, <2>6, <2>7, SlotsSuffice
<1> QED BY <1>1 DEF FreeSlot

(* What goes with a source: Destroy's own words.                           *)
Fall(h, set) ==
  {p \in Slot : h.src[p].kind = "proxy" /\ h.src[p].inner \in set /\ h.sel[h.src[p].target] = p}
Gone(h, i) == {i} \cup Fall(h, {i}) \cup Fall(h, Fall(h, {i}))

LEMMA DestroyIs ==
  ASSUME NEW h, NEW x \in Slot \cup {NoSource}, SoundBut(h, x), NEW i \in Slot, i # x,
         x # NoSource => h.src[x].inner \notin Gone(h, i)
  PROVE  LET g == Destroy(h, i)
         IN  /\ SoundBut(g, x)
             /\ \A k \in Slot : g.src[k] = IF k \in Gone(h, i) THEN Free ELSE h.src[k]
             /\ \A s \in Seat : g.sel[s] = IF h.sel[s] \in Gone(h, i) THEN NoSource ELSE h.sel[s]
             /\ x \notin Gone(h, i)
<1> DEFINE g == Destroy(h, i)
           G == Gone(h, i)
<1>1. h \in Heap
  BY DEF SoundBut
<1>2. G \subseteq Slot /\ i \in G
  BY DEF Gone, Fall
<1>3. x \notin G
  <2>1. ASSUME NEW p \in Slot, h.sel[h.src[p].target] = p
        PROVE  p # x
    BY <1>1, <2>1, HeapIs, SeatsAre DEF SoundBut
  <2> QED BY <2>1, SeatsAre DEF Gone, Fall
<1>4. \A k \in Slot : k \notin G => h.src[k].inner \notin G
  <2> SUFFICES ASSUME NEW k \in Slot, k \notin G, h.src[k].inner \in G
               PROVE  FALSE
    OBVIOUS
  <2>1. k # x /\ h.src[k].inner \in Slot
    BY <1>2, SeatsAre
  <2>2. h.src[k].kind = "proxy" /\ Proxy(h, k) /\ h.sel[h.src[k].target] = k
    <3>1. h.src[k].kind = "proxy"
      BY <2>1, SeatsAre DEF SoundBut
    <3> QED BY <2>1, <3>1 DEF SoundBut
  <2>3. h.src[k].inner \in Fall(h, Fall(h, {i}))
    BY <2>2 DEF Gone, Fall
  <2>4. PICK r \in Slot : /\ r = h.src[k].inner /\ h.src[r].kind = "proxy" /\ h.src[r].inner \in Fall(h, {i})
                          /\ h.sel[h.src[r].target] = r
    BY <2>3 DEF Fall
  <2>5. h.src[k].target # Session /\ h.sel[Session] = r
    BY <2>2, <2>4 DEF Proxy
  <2>6. h.src[r].target = Session /\ r # x
    <3>1. h.src[r].target \in Seat /\ Session \in Seat /\ r # NoSource
      BY <1>1, <2>4, HeapIs, SeatsAre
    <3>2. h.src[r].target = Session
      <4>1. \A s \in Seat, t \in Seat : h.sel[s] = h.sel[t] /\ h.sel[s] # NoSource => s = t
        BY DEF SoundBut
      <4> QED BY <2>4, <2>5, <3>1, <4>1
    <3> QED BY <2>5, <3>1, <3>2 DEF SoundBut
  <2>7. h.src[h.src[r].inner].kind = "real"
    BY <2>4, <2>6 DEF SoundBut, Proxy
  <2> QED BY <2>4, <2>7 DEF Fall
<1>5. g = [src |-> [k \in Slot |-> IF k \in G THEN Free
                                   ELSE IF h.src[k].inner \in G THEN [h.src[k] EXCEPT !.inner = NoSource]
                                   ELSE h.src[k]],
           sel |-> [s \in Seat |-> IF h.sel[s] \in G THEN NoSource ELSE h.sel[s]]]
  BY DEF Destroy, Gone, Fall
<1> HIDE DEF g, G
<1>6. /\ \A k \in Slot : g.src[k] = IF k \in G THEN Free ELSE h.src[k]
      /\ \A s \in Seat : g.sel[s] = IF h.sel[s] \in G THEN NoSource ELSE h.sel[s]
  BY <1>4, <1>5
<1>7. g \in Heap
  <2> DEFINE a == [k \in Slot |-> IF k \in G THEN Free
                                   ELSE IF h.src[k].inner \in G THEN [h.src[k] EXCEPT !.inner = NoSource]
                                   ELSE h.src[k]]
             b == [s \in Seat |-> IF h.sel[s] \in G THEN NoSource ELSE h.sel[s]]
  <2>1. a \in [Slot -> Source]
    <3>1. \A k \in Slot : a[k] = IF k \in G THEN Free ELSE h.src[k]
      BY <1>4
    <3>2. \A k \in Slot : a[k] \in Source
      <4> HIDE DEF a
      <4> QED BY <1>1, <3>1, HeapIs, FreeIs
    <3>3. a = [k \in Slot |-> a[k]]
      OBVIOUS
    <3> HIDE DEF a
    <3> QED BY <3>2, <3>3
  <2>2. b \in [Seat -> Slot \cup {NoSource}]
    BY <1>1, HeapIs
  <2> HIDE DEF a, b
  <2>3. g = [src |-> a, sel |-> b]
    BY <1>5 DEF a, b
  <2> QED BY <2>1, <2>2, <2>3 DEF Heap
<1>8. SoundBut(g, x)
  <2>1. \A s \in Seat : g.sel[s] # NoSource => g.sel[s] = h.sel[s] /\ g.sel[s] \notin G /\ g.sel[s] \in Slot
    BY <1>1, <1>6, HeapIs
  <2>2. \A k \in Slot : g.src[k].kind # "free" => g.src[k] = h.src[k] /\ k \notin G
    BY <1>6, FreeIs
  <2>3. \A s \in Seat : g.sel[s] # NoSource => g.sel[s] # x /\ g.src[g.sel[s]].kind # "free"
    BY <1>6, <2>1 DEF SoundBut
  <2>4. \A s \in Seat, t \in Seat : g.sel[s] = g.sel[t] /\ g.sel[s] # NoSource => s = t
    BY <2>1 DEF SoundBut
  <2>5. \A k \in Slot : g.src[k].kind # "proxy" => g.src[k].inner = NoSource
    BY <1>6, FreeIs DEF SoundBut
  <2>6. \A k \in Slot : g.src[k].kind = "real" /\ k # x => \E s \in Seat : g.sel[s] = k
    BY <1>6, <2>2 DEF SoundBut
  <2>7. ASSUME NEW p \in Slot, g.src[p].kind = "proxy", p # x
        PROVE  Proxy(g, p) /\ g.sel[g.src[p].target] = p
    <3>1. g.src[p] = h.src[p] /\ p \notin G /\ h.src[p].inner \notin G /\ h.src[p].target \in Seat
      BY <1>1, <1>4, <2>2, <2>7, HeapIs
    <3>2. Proxy(h, p) /\ h.sel[h.src[p].target] = p /\ h.src[p].inner \in Slot
      BY <2>7, <3>1 DEF SoundBut, Proxy
    <3>3. g.src[h.src[p].inner] = h.src[h.src[p].inner]
      BY <1>6, <3>1, <3>2
    <3>4. \A s \in Seat : h.sel[s] = h.src[p].inner => g.sel[s] = h.src[p].inner
      BY <1>6, <3>1
    <3>5. g.sel[h.src[p].target] = p
      BY <1>6, <3>1, <3>2
    <3> QED BY <3>1, <3>2, <3>3, <3>4, <3>5, SeatsAre DEF Proxy, Seat
  <2> QED BY <1>7, <2>3, <2>4, <2>5, <2>6, <2>7 DEF SoundBut
<1> QED BY <1>3, <1>6, <1>8 DEF g, G

(* What does not go with a seat's selection.                               *)
LEMMA GoneIs ==
  ASSUME NEW h, NEW x \in Slot \cup {NoSource}, SoundBut(h, x), NEW seat \in Seat, h.sel[seat] # NoSource
  PROVE  /\ \A k \in Slot : h.src[k].kind # "proxy" /\ k # h.sel[seat] => k \notin Gone(h, h.sel[seat])
         /\ seat # Session /\ (h.sel[Session] # NoSource => h.src[h.sel[Session]].inner # h.sel[seat])
              => Gone(h, h.sel[seat]) = {h.sel[seat]}
<1>1. \A k \in Slot : h.src[k].kind # "proxy" /\ k # h.sel[seat] => k \notin Gone(h, h.sel[seat])
  BY DEF Gone, Fall
<1>2. ASSUME seat # Session, h.sel[Session] # NoSource => h.src[h.sel[Session]].inner # h.sel[seat]
      PROVE  Gone(h, h.sel[seat]) = {h.sel[seat]}
  <2>1. Fall(h, {h.sel[seat]}) = {}
    <3> SUFFICES ASSUME NEW p \in Slot, h.src[p].kind = "proxy", h.src[p].inner = h.sel[seat],
                        h.sel[h.src[p].target] = p
                 PROVE  FALSE
      BY DEF Fall
    <3>1. p # x /\ h.src[p].target \in Seat
      BY HeapIs, SeatsAre DEF SoundBut
    <3>2. Proxy(h, p)
      BY <3>1 DEF SoundBut
    <3>3. CASE h.src[p].target = Session
      BY <1>2, <3>3, SeatsAre
    <3>4. CASE h.src[p].target # Session
      <4>1. h.sel[Session] = h.sel[seat] /\ h.sel[Session] # NoSource
        BY <3>2, <3>4, SeatsAre DEF Proxy
      <4> QED BY <1>2, <4>1, SeatsAre DEF SoundBut
    <3> QED BY <3>3, <3>4
  <2>2. Fall(h, Fall(h, {h.sel[seat]})) = {}
    BY <2>1 DEF Fall
  <2> QED BY <2>1, <2>2 DEF Gone
<1> QED BY <1>1, <1>2

(* The source the seat is given now is one no seat has yet, and sound.     *)
LEMMA SetIs ==
  ASSUME NEW h, NEW x \in Slot, SoundBut(h, x), NEW seat \in Seat, h.src[x].kind # "free",
         h.src[x].kind = "proxy" => h.src[x].target = seat /\ Proxy(h, x),
         h.sel[seat] # NoSource => h.src[x].inner \notin Gone(h, h.sel[seat])
  PROVE  LET g == SetSelection(h, seat, x)
             G == IF h.sel[seat] = NoSource THEN {} ELSE Gone(h, h.sel[seat])
         IN  /\ Sound(g)
             /\ x \notin G
             /\ \A k \in Slot : g.src[k] = IF k \in G THEN Free ELSE h.src[k]
             /\ \A s \in Seat : g.sel[s] = IF s = seat THEN x ELSE IF h.sel[s] \in G THEN NoSource ELSE h.sel[s]
<1> DEFINE G == IF h.sel[seat] = NoSource THEN {} ELSE Gone(h, h.sel[seat])
           m == IF h.sel[seat] = NoSource THEN h ELSE Destroy(h, h.sel[seat])
           g == [m EXCEPT !.sel[seat] = x]
<1>1. h \in Heap /\ h.sel[seat] \in Slot \cup {NoSource} /\ h.sel[seat] # x /\ x # NoSource
  BY HeapIs, SeatsAre DEF SoundBut
<1>2. SetSelection(h, seat, x) = g
  BY <1>1 DEF SetSelection
<1>3. /\ SoundBut(m, x) /\ x \notin G
      /\ \A k \in Slot : m.src[k] = IF k \in G THEN Free ELSE h.src[k]
      /\ \A s \in Seat : m.sel[s] = IF h.sel[s] \in G THEN NoSource ELSE h.sel[s]
  <2>1. CASE h.sel[seat] = NoSource
    BY <2>1
  <2>2. CASE h.sel[seat] # NoSource
    <3>1. h.sel[seat] \in Slot
      BY <1>1, <2>2
    <3> QED BY <1>1, <2>2, <3>1, DestroyIs
  <2> QED BY <2>1, <2>2
<1>4. m.sel[seat] = NoSource /\ h.src[x].inner \notin G
  BY <1>3 DEF Gone
<1> HIDE DEF m, G
<1>5. m \in Heap
  BY <1>3 DEF SoundBut
<1>6. /\ g \in Heap /\ g.src = m.src
      /\ \A s \in Seat : g.sel[s] = IF s = seat THEN x ELSE m.sel[s]
  BY <1>5 DEF Heap
<1> HIDE DEF g
<1>7. \A s \in Seat : g.sel[s] # NoSource /\ s # seat => g.sel[s] = m.sel[s] /\ m.sel[s] # NoSource /\ m.sel[s] # x
  BY <1>3, <1>6 DEF SoundBut
<1>8. Proxy(m, x) \/ h.src[x].kind # "proxy"
  <2> SUFFICES ASSUME h.src[x].kind = "proxy"
               PROVE  Proxy(m, x)
    OBVIOUS
  <2>1. m.src[x] = h.src[x] /\ Proxy(h, x) /\ h.src[x].inner \in Slot /\ h.src[x].target \in Seat
    BY <1>1, <1>3, HeapIs DEF Proxy
  <2>2. m.src[h.src[x].inner] = h.src[h.src[x].inner]
    BY <1>3, <1>4, <2>1
  <2>3. \A s \in Seat : h.sel[s] = h.src[x].inner => m.sel[s] = h.src[x].inner
    BY <1>3, <1>4
  <2> QED BY <2>1, <2>2, <2>3, SeatsAre DEF Proxy, Seat
<1>9. ASSUME NEW p \in Slot, g.src[p].kind = "proxy"
      PROVE  Proxy(g, p) /\ g.sel[g.src[p].target] = p
  <2>1. m.src[p].kind = "proxy" /\ g.src[p] = m.src[p] /\ m.src[p].target \in Seat
    BY <1>5, <1>6, <1>9, HeapIs
  <2>2. Proxy(m, p) /\ (p # x => m.sel[m.src[p].target] = p) /\ (p = x => m.src[p].target = seat)
    <3>1. CASE p = x
      <4>1. m.src[p] = h.src[x]
        BY <1>3, <3>1
      <4> QED BY <1>8, <2>1, <3>1, <4>1
    <3>2. CASE p # x
      BY <1>3, <2>1, <3>2 DEF SoundBut
    <3> QED BY <3>1, <3>2
  <2>3. g.sel[g.src[p].target] = p
    <3>1. p # x => m.src[p].target # seat
      BY <1>4, <2>2, SeatsAre
    <3> QED BY <1>6, <2>1, <2>2, <3>1
  <2>4. m.src[p].inner \in Slot /\ m.src[p].inner # NoSource
    BY <2>2, SeatsAre DEF Proxy
  <2>5. \A s \in Seat : m.sel[s] = m.src[p].inner => g.sel[s] = m.src[p].inner
    BY <1>4, <1>6, <2>4
  <2> QED BY <1>6, <2>1, <2>2, <2>3, <2>5, SeatsAre DEF Proxy, Seat
<1>10. \A s \in Seat : g.sel[s] # NoSource => g.src[g.sel[s]].kind # "free"
  <2> SUFFICES ASSUME NEW s \in Seat, g.sel[s] # NoSource
               PROVE  g.src[g.sel[s]].kind # "free"
    OBVIOUS
  <2>1. CASE s = seat
    BY <1>3, <1>6, <2>1
  <2>2. CASE s # seat
    BY <1>3, <1>6, <1>7, <2>2 DEF SoundBut
  <2> QED BY <2>1, <2>2
<1>11. \A s \in Seat, t \in Seat : g.sel[s] = g.sel[t] /\ g.sel[s] # NoSource => s = t
  BY <1>3, <1>6, <1>7 DEF SoundBut
<1>12. \A i \in Slot : g.src[i].kind # "proxy" => g.src[i].inner = NoSource
  BY <1>3, <1>6 DEF SoundBut
<1>13. \A i \in Slot : g.src[i].kind = "real" => \E s \in Seat : g.sel[s] = i
  <2> SUFFICES ASSUME NEW i \in Slot, g.src[i].kind = "real"
               PROVE  \E s \in Seat : g.sel[s] = i
    OBVIOUS
  <2>1. CASE i = x
    BY <1>6, <2>1
  <2>2. CASE i # x
    <3>1. PICK s \in Seat : m.sel[s] = i
      BY <1>3, <1>6, <2>2 DEF SoundBut
    <3>2. s # seat
      BY <1>4, <3>1, SeatsAre
    <3> QED BY <1>6, <3>1, <3>2
  <2> QED BY <2>1, <2>2
<1>14. \A s \in Seat : g.sel[s] # NoSource => g.sel[s] # NoSource /\ g.src[g.sel[s]].kind # "free"
  BY <1>10
<1>15. Sound(g)
  BY <1>6, <1>9, <1>11, <1>12, <1>13, <1>14 DEF Sound, SoundBut
<1>16. /\ \A k \in Slot : g.src[k] = IF k \in G THEN Free ELSE h.src[k]
       /\ \A s \in Seat : g.sel[s] = IF s = seat THEN x ELSE IF h.sel[s] \in G THEN NoSource ELSE h.sel[s]
  BY <1>3, <1>6
<1> QED BY <1>2, <1>3, <1>15, <1>16 DEF G

(* A seat's selection is cleared, and what follows from it.                *)
LEMMA ClearIs ==
  ASSUME NEW h, Sound(h), NEW seat \in Seat
  PROVE  LET g == SetSelection(h, seat, NoSource)
         IN  /\ Sound(g) /\ g.sel[seat] = NoSource
             /\ \A k \in Slot : g.src[k] \in {h.src[k], Free}
             /\ \A s \in Seat : g.sel[s] \in {h.sel[s], NoSource}
<1> DEFINE m == IF h.sel[seat] = NoSource THEN h ELSE Destroy(h, h.sel[seat])
           g == [m EXCEPT !.sel[seat] = NoSource]
<1>1. h \in Heap /\ h.sel[seat] \in Slot \cup {NoSource}
  BY HeapIs DEF Sound, SoundBut
<1>2. SetSelection(h, seat, NoSource) = g
  BY <1>1 DEF SetSelection
<1>3. /\ Sound(m) /\ m.sel[seat] = NoSource
      /\ \A k \in Slot : m.src[k] \in {h.src[k], Free}
      /\ \A s \in Seat : m.sel[s] \in {h.sel[s], NoSource}
  <2>1. CASE h.sel[seat] = NoSource
    BY <2>1
  <2>2. CASE h.sel[seat] # NoSource
    <3>1. h.sel[seat] \in Slot /\ h.sel[seat] \in Gone(h, h.sel[seat])
      BY <1>1, <2>2 DEF Gone
    <3> QED BY <2>2, <3>1, DestroyIs, SeatsAre DEF Sound
  <2> QED BY <2>1, <2>2
<1> HIDE DEF m
<1>4. m \in Heap
  BY <1>3 DEF Sound, SoundBut
<1>5. /\ g \in Heap /\ g.src = m.src /\ \A s \in Seat : g.sel[s] = m.sel[s]
  BY <1>3, <1>4 DEF Heap
<1> HIDE DEF g
<1>6. Sound(g)
  <2>1. \A p \in Slot : Proxy(m, p) => Proxy(g, p)
    BY <1>5, SeatsAre DEF Proxy, Seat
  <2>2. \A p \in Slot : m.src[p].target \in Seat
    BY <1>4, HeapIs
  <2> QED BY <1>3, <1>5, <2>1, <2>2 DEF Sound, SoundBut
<1> QED BY <1>2, <1>3, <1>5, <1>6

(* A source is made, and no seat has it yet.                               *)
LEMMA MadeIs ==
  ASSUME NEW h, Sound(h), NEW r \in Source, r.kind # "free", r.kind # "proxy" => r.inner = NoSource
  PROVE  LET i == FreeSlot(h)
             g == [h EXCEPT !.src[i] = r]
         IN  /\ SoundBut(g, i) /\ i \in Slot
             /\ \A k \in Slot : g.src[k] = IF k = i THEN r ELSE h.src[k]
             /\ g.sel = h.sel /\ \A s \in Seat : h.sel[s] # i
             /\ h.src[i].kind = "free"
<1> DEFINE i == FreeSlot(h)
           g == [h EXCEPT !.src[i] = r]
<1>1. i \in Slot /\ h.src[i].kind = "free" /\ h \in Heap
  BY SlotIsFree DEF Sound, SoundBut
<1> HIDE DEF i
<1>2. /\ g \in Heap /\ g.sel = h.sel
      /\ \A k \in Slot : g.src[k] = IF k = i THEN r ELSE h.src[k]
  BY <1>1 DEF Heap
<1>3. \A s \in Seat : h.sel[s] # i
  BY <1>1, SeatsAre DEF Sound, SoundBut
<1> HIDE DEF g
<1>4. ASSUME NEW p \in Slot, g.src[p].kind = "proxy", p # i
      PROVE  Proxy(g, p) /\ g.sel[g.src[p].target] = p
  <2>1. g.src[p] = h.src[p] /\ Proxy(h, p) /\ h.sel[h.src[p].target] = p
    BY <1>2, <1>4, SeatsAre DEF Sound, SoundBut
  <2>2. h.src[p].inner \in Slot /\ h.src[p].inner # i
    BY <1>1, <1>3, <2>1, SeatsAre DEF Proxy
  <2>3. g.src[h.src[p].inner] = h.src[h.src[p].inner]
    BY <1>2, <2>2
  <2> QED BY <1>2, <2>1, <2>3 DEF Proxy
<1>5. SoundBut(g, i)
  <2>1. \A s \in Seat : g.sel[s] # NoSource =>
          h.sel[s] = g.sel[s] /\ g.sel[s] # i /\ g.sel[s] \in Slot /\ h.src[g.sel[s]].kind # "free"
    BY <1>1, <1>2, <1>3, HeapIs DEF Sound, SoundBut
  <2>2. \A s \in Seat : g.sel[s] # NoSource => g.sel[s] # i /\ g.src[g.sel[s]].kind # "free"
    BY <1>2, <2>1
  <2>3. \A s \in Seat, t \in Seat : g.sel[s] = g.sel[t] /\ g.sel[s] # NoSource => s = t
    BY <1>2 DEF Sound, SoundBut
  <2>4. \A k \in Slot : g.src[k].kind # "proxy" => g.src[k].inner = NoSource
    BY <1>2 DEF Sound, SoundBut
  <2>5. \A k \in Slot : g.src[k].kind = "real" /\ k # i => \E s \in Seat : g.sel[s] = k
    BY <1>2, SeatsAre DEF Sound, SoundBut
  <2> QED BY <1>2, <1>4, <2>2, <2>3, <2>4, <2>5 DEF SoundBut
<1> QED BY <1>1, <1>2, <1>3, <1>5 DEF i, g

(* A program copies.                                                       *)
LEMMA CopiedIs ==
  ASSUME NEW h, Sound(h), NEW seat \in Seat, NEW what \in Text \cup {Image}
  PROVE  LET g == Copied(h, seat, what)
             i == g.sel[seat]
         IN  /\ Sound(g) /\ i \in Slot /\ g.src[i].kind = "real" /\ g.src[i].content = what
             /\ \A s \in Seat : s # seat => g.sel[s] \in {h.sel[s], NoSource}
             /\ \A k \in Slot : k # i => g.src[k] \in {h.src[k], Free}
<1> DEFINE i == FreeSlot(h)
           r == [Free EXCEPT !.kind = "real", !.content = what]
           m == [h EXCEPT !.src[i] = r]
           g == SetSelection(m, seat, i)
<1>1. Copied(h, seat, what) = g
  BY DEF Copied
<1>2. r \in Source /\ r.kind = "real" /\ r.inner = NoSource /\ r.content = what
  BY DEF Free, Source, Seat
<1> HIDE DEF r
<1>3. /\ SoundBut(m, i) /\ i \in Slot /\ m.src[i] = r
      /\ \A k \in Slot : m.src[k] = IF k = i THEN r ELSE h.src[k]
      /\ m.sel = h.sel /\ \A s \in Seat : h.sel[s] # i
  BY <1>2, MadeIs
<1> HIDE DEF i, m
<1>4. m.sel[seat] \in Slot \cup {NoSource}
  BY <1>3, HeapIs DEF SoundBut
<1>5. m.sel[seat] # NoSource => m.src[i].inner \notin Gone(m, m.sel[seat])
  BY <1>2, <1>3, <1>4, SeatsAre DEF Gone, Fall
<1> DEFINE G == IF m.sel[seat] = NoSource THEN {} ELSE Gone(m, m.sel[seat])
<1>6. /\ Sound(g) /\ i \notin G
      /\ \A k \in Slot : g.src[k] = IF k \in G THEN Free ELSE m.src[k]
      /\ \A s \in Seat : g.sel[s] = IF s = seat THEN i ELSE IF m.sel[s] \in G THEN NoSource ELSE m.sel[s]
  BY <1>2, <1>3, <1>5, SetIs
<1> HIDE DEF g, G
<1> QED BY <1>1, <1>2, <1>3, <1>6

(* A proxy is made of what may be offered to the seat.                     *)
LEMMA ProxiedIs ==
  ASSUME NEW h, Sound(h), NEW target \in Seat, NEW inner \in Slot, Content(h, inner) \in Text,
         target = Session => h.src[inner].kind = "real" /\ \E d \in Display : h.sel[d] = inner,
         target # Session => h.sel[Session] = inner
                               /\ (h.sel[target] # NoSource => h.src[inner].inner # h.sel[target])
  PROVE  LET g == Proxied(h, inner, target)
             p == g.sel[target]
         IN  /\ Sound(g) /\ p \in Slot /\ g.src[p].kind = "proxy" /\ g.src[p].inner = inner
             /\ g.src[p].content = Content(h, inner) /\ g.src[p].target = target
             /\ \A s \in Seat : s # target => g.sel[s] \in {h.sel[s], NoSource}
             /\ target # Session => \A s \in Seat : s # target => g.sel[s] = h.sel[s]
             /\ \A k \in Slot : k # p => g.src[k] \in {h.src[k], Free}
             /\ target # Session =>
                  \A s \in Seat : s # target /\ h.sel[s] # NoSource => g.src[h.sel[s]] = h.src[h.sel[s]]
<1> DEFINE p == FreeSlot(h)
           r == [kind |-> "proxy", content |-> Content(h, inner), inner |-> inner, target |-> target]
           m == [h EXCEPT !.src[p] = r]
           g == SetSelection(m, target, p)
<1>1. Proxied(h, inner, target) = g
  BY DEF Proxied
<1>2. r \in Source /\ r.kind = "proxy" /\ r.inner = inner /\ r.content = Content(h, inner) /\ r.target = target
  BY DEF Source
<1> HIDE DEF r
<1>3. /\ SoundBut(m, p) /\ p \in Slot /\ m.src[p] = r
      /\ \A k \in Slot : m.src[k] = IF k = p THEN r ELSE h.src[k]
      /\ m.sel = h.sel /\ \A s \in Seat : h.sel[s] # p
      /\ h.src[p].kind = "free"
  BY <1>2, MadeIs
<1> HIDE DEF p, m
<1>4. h \in Heap /\ h.sel[target] \in Slot \cup {NoSource} /\ inner # NoSource
  BY HeapIs, SeatsAre DEF Sound, SoundBut
<1>5. inner # p /\ \E s \in Seat : h.sel[s] = inner /\ s # target
  BY <1>3, SeatsAre DEF Seat
<1>6. Proxy(m, p)
  <2>1. m.src[inner] = h.src[inner]
    BY <1>3, <1>5
  <2> QED BY <1>2, <1>3, <1>4, <2>1 DEF Proxy, Content
<1>7. h.sel[target] # NoSource => inner # h.sel[target]
  BY <1>5 DEF Sound, SoundBut
<1>8. m.sel[target] # NoSource => inner \notin Gone(m, m.sel[target])
  <2> SUFFICES ASSUME m.sel[target] # NoSource
               PROVE  inner \notin Gone(m, m.sel[target])
    OBVIOUS
  <2>1. CASE target = Session
    <3>1. m.src[inner].kind # "proxy"
      BY <1>3, <1>5, <2>1
    <3> QED BY <1>3, <1>7, <3>1, GoneIs
  <2>2. CASE target # Session
    <3>1. Gone(m, m.sel[target]) = {m.sel[target]}
      BY <1>3, <1>5, <2>2, GoneIs
    <3> QED BY <1>3, <1>7, <3>1
  <2> QED BY <2>1, <2>2
<1> DEFINE G == IF m.sel[target] = NoSource THEN {} ELSE Gone(m, m.sel[target])
<1>9. /\ Sound(g) /\ p \notin G
      /\ \A k \in Slot : g.src[k] = IF k \in G THEN Free ELSE m.src[k]
      /\ \A s \in Seat : g.sel[s] = IF s = target THEN p ELSE IF m.sel[s] \in G THEN NoSource ELSE m.sel[s]
  BY <1>2, <1>3, <1>6, <1>8, SetIs
<1>10. ASSUME target # Session, NEW s \in Seat, s # target
       PROVE  m.sel[s] \notin G \/ m.sel[s] = NoSource
  <2>1. m.sel[target] # NoSource => G = {m.sel[target]}
    BY <1>3, <1>5, <1>10, GoneIs
  <2> QED BY <1>3, <1>10, <2>1 DEF SoundBut
<1>11. ASSUME target # Session, NEW s \in Seat, s # target, h.sel[s] # NoSource
       PROVE  g.src[h.sel[s]] = h.src[h.sel[s]]
  <2>1. h.sel[s] \in Slot /\ m.sel[s] \notin G /\ h.sel[s] # p
    BY <1>3, <1>4, <1>10, <1>11, HeapIs
  <2> QED BY <1>3, <1>9, <2>1
<1> HIDE DEF g, G
<1> QED BY <1>1, <1>2, <1>3, <1>9, <1>10, <1>11

----------------------------------------------------------------------------
(* What a display is offered and has, as TextFlow has it.                  *)
Offered(h) == IF Content(h, h.sel[Session]) \in Text THEN Content(h, h.sel[Session]) ELSE Nothing
Foreign(h) ==
  [d \in Display |-> IF Wrapped(h, h.sel[d]) # NoSource THEN Content(h, h.sel[d]) ELSE Nothing]

(* A text on a display that is not its own programs' is what the session   *)
(* offers now, by a proxy of it.                                           *)
LEMMA ForeignIs ==
  ASSUME NEW h, Sound(h)
  PROVE  /\ Offered(h) \in Text \cup {Nothing} /\ Nothing \notin Text
         /\ \A d \in Display :
              LET p == h.sel[d]
              IN  /\ p # NoSource /\ h.src[p].kind = "proxy" =>
                       /\ p \in Slot /\ h.src[p].target = d
                       /\ h.src[p].inner = h.sel[Session] /\ h.sel[Session] # NoSource
                       /\ Offered(h) = h.src[p].content /\ Offered(h) \in Text /\ Foreign(h)[d] = Offered(h)
                  /\ ~(p # NoSource /\ h.src[p].kind = "proxy") => Foreign(h)[d] = Nothing
<1>1. Offered(h) \in Text \cup {Nothing} /\ Nothing \notin Text
  BY ContentsDiffer DEF Offered
<1>2. ASSUME NEW d \in Display, h.sel[d] # NoSource, h.src[h.sel[d]].kind = "proxy"
      PROVE  /\ h.sel[d] \in Slot /\ h.src[h.sel[d]].target = d
             /\ h.src[h.sel[d]].inner = h.sel[Session] /\ h.sel[Session] # NoSource
             /\ Offered(h) = h.src[h.sel[d]].content /\ Offered(h) \in Text /\ Foreign(h)[d] = Offered(h)
  <2> DEFINE p == h.sel[d]
  <2>1. p \in Slot /\ d \in Seat /\ h.src[p].target \in Seat
    BY <1>2, HeapIs DEF Sound, SoundBut, Seat
  <2>2. Proxy(h, p) /\ h.sel[h.src[p].target] = p
    BY <1>2, <2>1, SeatsAre DEF Sound, SoundBut
  <2>3. h.src[p].target = d
    BY <1>2, <2>1, <2>2 DEF Sound, SoundBut
  <2>4. h.sel[Session] = h.src[p].inner /\ h.src[p].inner \in Slot /\ h.src[p].content \in Text
        /\ h.src[p].content = h.src[h.src[p].inner].content
    BY <2>2, <2>3, SeatsAre DEF Proxy
  <2>5. Offered(h) = h.src[p].content
    BY <2>4, SeatsAre DEF Offered, Content
  <2>6. Foreign(h)[d] = h.src[p].content
    BY <1>2, <2>4, SeatsAre DEF Foreign, Wrapped, Content
  <2> QED BY <2>1, <2>3, <2>4, <2>5, <2>6, SeatsAre
<1>3. ASSUME NEW d \in Display, ~(h.sel[d] # NoSource /\ h.src[h.sel[d]].kind = "proxy")
      PROVE  Foreign(h)[d] = Nothing
  BY <1>3 DEF Foreign, Wrapped
<1> QED BY <1>1, <1>2, <1>3

(* A step after which a display has no proxy it had not before.            *)
LEMMA ChangeIs ==
  ASSUME NEW h, NEW g, Sound(h), Sound(g),
         \A k \in Slot : g.src[k].kind = "proxy" /\ g.src[k].target # Session => g.src[k] = h.src[k]
  PROVE  /\ Offered(g) \in Text \cup {Nothing} /\ Foreign(g) \in [Display -> Text \cup {Nothing}]
         /\ \A d \in Display : Foreign(g)[d] # Nothing => Foreign(g)[d] = Foreign(h)[d] /\ Offered(g) = Offered(h)
<1>1. Foreign(g) \in [Display -> Text \cup {Nothing}]
  <2>1. \A d \in Display : Foreign(g)[d] \in Text \cup {Nothing}
    BY ForeignIs
  <2>2. Foreign(g) = [d \in Display |-> Foreign(g)[d]]
    BY DEF Foreign
  <2> QED BY <2>1, <2>2
<1>2. ASSUME NEW d \in Display, Foreign(g)[d] # Nothing
      PROVE  Foreign(g)[d] = Foreign(h)[d] /\ Offered(g) = Offered(h)
  <2> DEFINE p == g.sel[d]
  <2>1. /\ p \in Slot /\ g.src[p].kind = "proxy" /\ g.src[p].target = d
        /\ Offered(g) = g.src[p].content /\ Foreign(g)[d] = Offered(g)
    BY <1>2, ForeignIs
  <2>2. d # Session
    BY SeatsAre
  <2>3. g.src[p] = h.src[p] /\ p # NoSource
    BY <2>1, <2>2, SeatsAre
  <2> HIDE DEF p
  <2>4. h.sel[d] = p
    BY <2>1, <2>3, SeatsAre DEF Sound, SoundBut
  <2>5. Offered(h) = h.src[p].content /\ Foreign(h)[d] = Offered(h)
    BY <2>1, <2>3, <2>4, ForeignIs
  <2> QED BY <2>1, <2>3, <2>5
<1> QED BY <1>1, <1>2, ForeignIs

(* An elevated program copies.                                             *)
LEMMA DisplayCopyIs ==
  ASSUME NEW h, Sound(h), NEW d \in Display, NEW what \in Text \cup {Image}
  PROVE  LET g == handle_clip_request_set_selection(d, what)
         IN  h = AsIs =>
               /\ Sound(g)
               /\ \A e \in Display : e # d => g.sel[e] \in {h.sel[e], NoSource}
               /\ \A k \in Slot : g.src[k].kind = "proxy" /\ g.src[k].target # Session => g.src[k] = h.src[k]
<1> SUFFICES ASSUME h = AsIs
             PROVE  LET g == handle_clip_request_set_selection(d, what)
                    IN  /\ Sound(g)
                        /\ \A e \in Display : e # d => g.sel[e] \in {h.sel[e], NoSource}
                        /\ \A k \in Slot : g.src[k].kind = "proxy" /\ g.src[k].target # Session => g.src[k] = h.src[k]
  OBVIOUS
<1> DEFINE m == Copied(h, d, what)
           i == m.sel[d]
           g == Proxied(m, i, Session)
<1>1. handle_clip_request_set_selection(d, what) = g
  BY DEF handle_clip_request_set_selection
<1>2. d \in Seat /\ d # Session /\ Free.kind = "free"
  BY SeatsAre, FreeIs DEF Seat
<1>3. /\ Sound(m) /\ i \in Slot /\ m.src[i].kind = "real"
      /\ \A s \in Seat : s # d => m.sel[s] \in {h.sel[s], NoSource}
      /\ \A k \in Slot : k # i => m.src[k] \in {h.src[k], Free}
  BY <1>2, CopiedIs
<1>4. \A k \in Slot : m.src[k].kind = "proxy" => m.src[k] = h.src[k]
  BY <1>2, <1>3
<1>5. CASE Content(m, i) \notin Text
  <2>1. g = m
    BY <1>5 DEF Proxied
  <2> HIDE DEF m, g
  <2> QED BY <1>1, <1>3, <1>4, <2>1 DEF Seat
<1>6. CASE Content(m, i) \in Text
  <2>1. \E e \in Display : m.sel[e] = i
    OBVIOUS
  <2> HIDE DEF m, i
  <2>2. /\ Sound(g) /\ g.sel[Session] \in Slot /\ g.src[g.sel[Session]].target = Session
        /\ \A s \in Seat : s # Session => g.sel[s] \in {m.sel[s], NoSource}
        /\ \A k \in Slot : k # g.sel[Session] => g.src[k] \in {m.src[k], Free}
    BY <1>3, <1>6, <2>1, SeatsAre, ProxiedIs
  <2> HIDE DEF g
  <2>3. \A k \in Slot : g.src[k].kind = "proxy" /\ g.src[k].target # Session => g.src[k] = h.src[k]
    BY <1>2, <1>4, <2>2
  <2>4. \A e \in Display : e # d => g.sel[e] \in {h.sel[e], NoSource}
    BY <1>3, <2>2, SeatsAre DEF Seat
  <2> QED BY <1>1, <2>2, <2>3, <2>4
<1> QED BY <1>5, <1>6

(* The user's input on a display: nothing, or what the session offers.     *)
LEMMA InputIs ==
  ASSUME Sound(AsIs), NEW d \in Display
  PROVE  LET h == AsIs
             g == elevated_user_input(d)
         IN  /\ Sound(g)
             /\ \A e \in Display : e # d => g.sel[e] \in {h.sel[e], NoSource}
             /\ \/ g = h
                \/ Offered(g) = Offered(h) /\ Foreign(g) = [Foreign(h) EXCEPT ![d] = Offered(h)]
<1> DEFINE h == AsIs
           s == h.sel[Session]
           g == Proxied(h, s, d)
<1>1. d \in Seat /\ d # Session /\ Session \in Seat /\ h \in Heap
  BY SeatsAre DEF Seat, Sound, SoundBut
<1>2. selection = h.sel
  BY DEF AsIs
<1>3. \/ elevated_user_input(d) = h
      \/ /\ elevated_user_input(d) = g /\ s # NoSource
         /\ ~(Wrapped(h, s) # NoSource /\ Wrapped(h, s) = h.sel[d])
  BY <1>2 DEF elevated_user_input
<1>4. CASE elevated_user_input(d) = h
  BY <1>4
<1>5. CASE g = h /\ elevated_user_input(d) = g
  BY <1>5
<1>6. CASE /\ elevated_user_input(d) = g /\ s # NoSource /\ g # h
           /\ ~(Wrapped(h, s) # NoSource /\ Wrapped(h, s) = h.sel[d])
  <2>1. Content(h, s) \in Text /\ s \in Slot
    <3>1. s \in Slot
      BY <1>1, <1>6, HeapIs
    <3>2. Content(h, s) \in Text
      BY <1>6 DEF Proxied
    <3> QED BY <3>1, <3>2
  <2>2. h.sel[d] # NoSource => h.src[s].inner # h.sel[d]
    <3>1. h.src[s].kind # "proxy" => h.src[s].inner = NoSource
      BY <2>1 DEF Sound, SoundBut
    <3> QED BY <1>6, <3>1 DEF Wrapped
  <2> DEFINE p == g.sel[d]
  <2>3. /\ Sound(g) /\ p \in Slot /\ g.src[p].kind = "proxy" /\ g.src[p].content = Content(h, s)
        /\ \A t \in Seat : t # d => g.sel[t] = h.sel[t]
        /\ \A t \in Seat : t # d /\ h.sel[t] # NoSource => g.src[h.sel[t]] = h.src[h.sel[t]]
    BY <1>1, <2>1, <2>2, ProxiedIs
  <2>4. h.sel[Session] = s
    OBVIOUS
  <2> HIDE DEF h, s, g
  <2>5. Offered(g) = Offered(h) /\ Offered(h) = Content(h, s)
    <3>1. g.sel[Session] = s /\ g.src[s] = h.src[s]
      BY <1>1, <1>6, <2>3, <2>4
    <3>2. Content(g, s) = Content(h, s)
      BY <1>6, <3>1 DEF Content
    <3> QED BY <2>1, <2>4, <3>1, <3>2 DEF Offered
  <2>6. Foreign(g)[d] = Offered(h)
    BY <2>3, <2>5, SeatsAre, ForeignIs
  <2>7. ASSUME NEW e \in Display, e # d
        PROVE  Foreign(g)[e] = Foreign(h)[e]
    <3>1. g.sel[e] = h.sel[e] /\ (h.sel[e] # NoSource => g.src[h.sel[e]] = h.src[h.sel[e]])
      BY <2>3, <2>7 DEF Seat
    <3>2. Wrapped(g, g.sel[e]) = Wrapped(h, h.sel[e]) /\ Content(g, g.sel[e]) = Content(h, h.sel[e])
      BY <3>1 DEF Wrapped, Content
    <3> QED BY <3>2 DEF Foreign
  <2>8. Foreign(g) = [Foreign(h) EXCEPT ![d] = Offered(h)]
    <3>1. \A e \in Display : Foreign(g)[e] = [Foreign(h) EXCEPT ![d] = Offered(h)][e]
      BY <2>6, <2>7 DEF Foreign
    <3> QED BY <3>1 DEF Foreign
  <2>9. \A e \in Display : e # d => g.sel[e] = h.sel[e]
    BY <2>3 DEF Seat
  <2> QED BY <1>6, <2>3, <2>5, <2>8, <2>9 DEF h
<1> QED BY <1>3, <1>4, <1>5, <1>6

----------------------------------------------------------------------------
(* The displays' lives.                                                    *)

(* The life of the displays, without what is copied.                       *)
LifeType ==
  /\ life \in [Display -> {"none", "adopted", "ready"}]
  /\ fds \in [Display -> SUBSET {"wl", "wm", "ready"}]
  /\ xwm \in [Display -> {"none", "up", "gone", "freed twice"}]

(* A window manager there is belongs to a display that was ready.          *)
ManagerFits == \A d \in Display : xwm[d] # "none" => life[d] = "ready"

LifeInv == LifeType /\ ManagerFits /\ DescriptorsClosed /\ FreedOnce

LEMMA LifeInit == Init => LifeInv
BY DEF Init, LifeInv, LifeType, ManagerFits, DescriptorsClosed, FreedOnce

LEMMA CopyingKeeps == LifeInv /\ UNCHANGED <<life, fds, xwm>> => LifeInv'
BY DEF LifeInv, LifeType, ManagerFits, DescriptorsClosed, FreedOnce

LEMMA DestroyKeeps ==
  ASSUME LifeInv, NEW d \in Display, elevated_destroy(d)
  PROVE  LifeInv'
<1>1. /\ life' = [life EXCEPT ![d] = "none"] /\ xwm' = [xwm EXCEPT ![d] = "none"]
      /\ fds' = [fds EXCEPT ![d] = IF xwm[d] = "none" THEN {"wm"} ELSE {}]
  BY DEF elevated_destroy
<1>2. LifeType'
  BY <1>1 DEF LifeInv, LifeType
<1>3. ManagerFits' /\ FreedOnce'
  BY <1>1 DEF LifeInv, LifeType, ManagerFits, FreedOnce
<1>4. DescriptorsClosed'
  BY <1>1 DEF LifeInv, LifeType, DescriptorsClosed
<1> QED BY <1>2, <1>3, <1>4 DEF LifeInv

LEMMA LivesKeep == LifeInv /\ Lives => LifeInv'
<1> SUFFICES ASSUME LifeInv, NEW d \in Display,
                    \/ Adopt(d) \/ ClientGone(d) \/ Ready(d) \/ NeverReady(d) \/ WindowManagerGone(d)
                    \/ \E at \in {"client", "parts", "xwayland", "source"} : AdoptFails(d, at)
             PROVE  LifeInv'
  BY DEF Lives
<1>1. CASE Adopt(d)
  <2>1. LifeType'
    BY <1>1 DEF Adopt, LifeInv, LifeType
  <2>2. ManagerFits' /\ FreedOnce' /\ DescriptorsClosed'
    BY <1>1 DEF Adopt, LifeInv, LifeType, ManagerFits, FreedOnce, DescriptorsClosed
  <2> QED BY <2>1, <2>2 DEF LifeInv
<1>2. ASSUME NEW at \in {"client", "parts", "xwayland", "source"}, AdoptFails(d, at)
      PROVE  LifeInv'
  <2>1. /\ life' = life /\ xwm' = xwm
        /\ \E left \in {{"wm"}, {}} : fds' = [fds EXCEPT ![d] = left]
    BY <1>2 DEF AdoptFails
  <2>2. LifeType'
    <3>1. PICK left \in {{"wm"}, {}} : fds' = [fds EXCEPT ![d] = left]
      BY <2>1
    <3> QED BY <2>1, <3>1 DEF LifeInv, LifeType
  <2>3. DescriptorsClosed'
    <3>1. PICK left \in {{"wm"}, {}} : fds' = [fds EXCEPT ![d] = left]
      BY <2>1
    <3>2. \A e \in Display : fds'[e] = fds[e] \/ fds'[e] \subseteq {"wm"}
      BY <3>1 DEF LifeInv, LifeType
    <3> QED BY <2>1, <3>2 DEF LifeInv, DescriptorsClosed
  <2>5. ManagerFits' /\ FreedOnce'
    BY <2>1 DEF LifeInv, ManagerFits, FreedOnce
  <2> QED BY <2>2, <2>3, <2>5 DEF LifeInv
<1>3. CASE ClientGone(d) \/ NeverReady(d)
  BY <1>3, DestroyKeeps DEF ClientGone, NeverReady
<1>4. CASE Ready(d)
  <2>1. LifeType'
    BY <1>4 DEF Ready, LifeInv, LifeType
  <2>2. ManagerFits' /\ FreedOnce' /\ DescriptorsClosed'
    BY <1>4 DEF Ready, LifeInv, LifeType, ManagerFits, FreedOnce, DescriptorsClosed
  <2> QED BY <2>1, <2>2 DEF LifeInv
<1>5. CASE WindowManagerGone(d)
  <2>1. LifeType'
    BY <1>5 DEF WindowManagerGone, LifeInv, LifeType
  <2>2. ManagerFits' /\ FreedOnce' /\ DescriptorsClosed'
    BY <1>5 DEF WindowManagerGone, LifeInv, LifeType, ManagerFits, FreedOnce, DescriptorsClosed
  <2> QED BY <2>1, <2>2 DEF LifeInv
<1> QED BY <1>1, <1>2, <1>3, <1>4, <1>5

LEMMA LifeKept == LifeInv /\ [Next]_vars => LifeInv'
<1> SUFFICES ASSUME LifeInv, [Next]_vars PROVE LifeInv'
  OBVIOUS
<1>1. CASE Clipboards
  <2>1. UNCHANGED <<life, fds, xwm>>
    BY <1>1 DEF Clipboards, SessionCopies, DisplayCopies, SessionDrops, DisplayDrops, UserInput
  <2> QED BY <2>1, CopyingKeeps
<1>2. CASE Lives
  BY <1>2, LivesKeep
<1>3. CASE UNCHANGED vars
  BY <1>3, CopyingKeeps DEF vars
<1> QED BY <1>1, <1>2, <1>3 DEF Next

----------------------------------------------------------------------------
(* Every step, of the lives and of the clipboards.                         *)

(* A display that is not there has nothing on its clipboard.               *)
GoneEmpty(g, alive) == \A d \in Display : alive[d] = "none" => g.sel[d] = NoSource

Inv == LifeInv /\ Sound(AsIs) /\ GoneEmpty(AsIs, life)

F_offered == Offered(AsIs)
F_foreign == Foreign(AsIs)

LEMMA InitHolds == Init => Inv
<1> SUFFICES ASSUME Init PROVE Inv
  OBVIOUS
<1>1. AsIs \in Heap /\ AsIs.src = source /\ AsIs.sel = selection
  BY FreeIs DEF Init, AsIs, Heap
<1>2. \A i \in Slot : source[i].kind = "free" /\ source[i].inner = NoSource
  BY FreeIs DEF Init
<1>3. \A s \in Seat : selection[s] = NoSource
  BY DEF Init
<1>4. Sound(AsIs)
  BY <1>1, <1>2, <1>3 DEF Sound, SoundBut
<1>5. GoneEmpty(AsIs, life)
  BY <1>1, <1>3 DEF GoneEmpty, Seat
<1> QED BY <1>4, <1>5, LifeInit DEF Inv

LEMMA IsClipboard ==
  ASSUME NEW g, g \in Heap, ClipboardIs(g)
  PROVE  AsIs' = g
<1>1. AsIs' = [src |-> g.src, sel |-> g.sel]
  BY DEF AsIs, ClipboardIs
<1> QED BY <1>1 DEF Heap

(* What a step of the clipboards comes to: TextFlow's.                     *)
FlowStep ==
  \/ UNCHANGED <<F_offered, F_foreign>>
  \/ /\ F_offered' \in Text \cup {Nothing} /\ F_foreign' \in [Display -> Text \cup {Nothing}]
     /\ \A d \in Display : F_foreign'[d] # Nothing => F_foreign'[d] = F_foreign[d] /\ F_offered' = F_offered
  \/ \E d \in Display : F_foreign' = [F_foreign EXCEPT ![d] = F_offered] /\ UNCHANGED F_offered

(* A step that leaves the displays without a proxy they had not.           *)
LEMMA Changes ==
  ASSUME Inv, NEW g, Sound(g), ClipboardIs(g),
         \A k \in Slot : g.src[k].kind = "proxy" /\ g.src[k].target # Session => g.src[k] = source[k]
  PROVE  AsIs' = g /\ FlowStep
<1>1. AsIs' = g
  BY IsClipboard DEF Sound, SoundBut
<1>2. AsIs.src = source
  BY DEF AsIs
<1>3. /\ Offered(g) \in Text \cup {Nothing} /\ Foreign(g) \in [Display -> Text \cup {Nothing}]
      /\ \A d \in Display : Foreign(g)[d] # Nothing =>
           Foreign(g)[d] = Foreign(AsIs)[d] /\ Offered(g) = Offered(AsIs)
  BY <1>2, ChangeIs DEF Inv
<1>4. F_offered' = Offered(g) /\ F_foreign' = Foreign(g) /\ F_offered = Offered(AsIs) /\ F_foreign = Foreign(AsIs)
  BY <1>1 DEF F_offered, F_foreign
<1> QED BY <1>1, <1>3, <1>4 DEF FlowStep

LEMMA Cleared ==
  ASSUME Inv, NEW d \in Display, ClipboardIs(SetSelection(AsIs, d, NoSource))
  PROVE  /\ Sound(AsIs') /\ FlowStep /\ selection'[d] = NoSource
         /\ \A e \in Display : selection'[e] \in {selection[e], NoSource}
<1> DEFINE g == SetSelection(AsIs, d, NoSource)
<1>1. /\ Sound(g) /\ g.sel[d] = NoSource
      /\ \A k \in Slot : g.src[k] \in {AsIs.src[k], Free}
      /\ \A s \in Seat : g.sel[s] \in {AsIs.sel[s], NoSource}
  BY ClearIs DEF Inv, Seat
<1>2. AsIs.src = source /\ AsIs.sel = selection
  BY DEF AsIs
<1>3. \A k \in Slot : g.src[k].kind = "proxy" /\ g.src[k].target # Session => g.src[k] = source[k]
  BY <1>1, <1>2, FreeIs
<1>4. ClipboardIs(g)
  OBVIOUS
<1> HIDE DEF g
<1>5. AsIs' = g /\ FlowStep
  BY <1>1, <1>3, <1>4, Changes
<1>6. selection' = g.sel
  BY <1>4 DEF ClipboardIs
<1> QED BY <1>1, <1>2, <1>5, <1>6 DEF Seat

LEMMA Unchanged ==
  ASSUME Inv, UNCHANGED clipboard
  PROVE  Sound(AsIs') /\ FlowStep /\ selection' = selection
<1>1. AsIs' = AsIs /\ selection' = selection
  BY DEF clipboard, AsIs
<1>2. UNCHANGED <<F_offered, F_foreign>>
  BY <1>1 DEF F_offered, F_foreign
<1> QED BY <1>1, <1>2 DEF Inv, FlowStep

LEMMA ClipboardsKeep ==
  ASSUME Inv, Clipboards
  PROVE  Sound(AsIs') /\ FlowStep /\ GoneEmpty(AsIs', life')
<1>1. life' = life /\ AsIs.src = source /\ AsIs.sel = selection /\ AsIs'.sel = selection'
  BY DEF Clipboards, SessionCopies, DisplayCopies, SessionDrops, DisplayDrops, UserInput, AsIs
<1>2. ASSUME \A e \in Display : selection'[e] \in {selection[e], NoSource} \/ life[e] # "none"
      PROVE  GoneEmpty(AsIs', life')
  BY <1>1, <1>2 DEF Inv, GoneEmpty
<1>3. ASSUME NEW what \in Text \cup {Image}, SessionCopies(what)
      PROVE  Sound(AsIs') /\ FlowStep /\ GoneEmpty(AsIs', life')
  <2> DEFINE g == Copied(AsIs, Session, what)
  <2>1. ClipboardIs(g)
    BY <1>3 DEF SessionCopies
  <2>2. /\ Sound(g) /\ g.src[g.sel[Session]].kind = "real"
        /\ \A s \in Seat : s # Session => g.sel[s] \in {AsIs.sel[s], NoSource}
        /\ \A k \in Slot : k # g.sel[Session] => g.src[k] \in {AsIs.src[k], Free}
    BY CopiedIs, SeatsAre DEF Inv
  <2> HIDE DEF g
  <2>3. \A k \in Slot : g.src[k].kind = "proxy" /\ g.src[k].target # Session => g.src[k] = source[k]
    BY <1>1, <2>2, FreeIs
  <2>4. AsIs' = g /\ FlowStep
    BY <2>1, <2>2, <2>3, Changes
  <2>5. GoneEmpty(AsIs', life')
    BY <1>1, <1>2, <2>2, <2>4, SeatsAre DEF Seat
  <2> QED BY <2>2, <2>4, <2>5
<1>4. ASSUME SessionDrops
      PROVE  Sound(AsIs') /\ FlowStep /\ GoneEmpty(AsIs', life')
  <2> DEFINE i == selection[Session]
             g == Destroy(AsIs, i)
  <2>1. i \in Slot /\ ClipboardIs(g) /\ Sound(AsIs)
    BY <1>1, <1>4, HeapIs, SeatsAre DEF SessionDrops, Inv, Sound, SoundBut
  <2> HIDE DEF i
  <2>2. /\ Sound(g)
        /\ \A k \in Slot : g.src[k] \in {AsIs.src[k], Free}
        /\ \A s \in Seat : g.sel[s] \in {AsIs.sel[s], NoSource}
    BY <2>1, DestroyIs, SeatsAre DEF Sound
  <2> HIDE DEF g
  <2>3. \A k \in Slot : g.src[k].kind = "proxy" /\ g.src[k].target # Session => g.src[k] = source[k]
    BY <1>1, <2>2, FreeIs
  <2>4. AsIs' = g /\ FlowStep
    BY <2>1, <2>2, <2>3, Changes
  <2>5. GoneEmpty(AsIs', life')
    BY <1>1, <1>2, <2>2, <2>4 DEF Seat
  <2> QED BY <2>2, <2>4, <2>5
<1>5. ASSUME NEW d \in Display, NEW what \in Text \cup {Image}, DisplayCopies(d, what)
      PROVE  Sound(AsIs') /\ FlowStep /\ GoneEmpty(AsIs', life')
  <2> DEFINE g == handle_clip_request_set_selection(d, what)
  <2>1. ClipboardIs(g) /\ life[d] # "none"
    BY <1>5 DEF DisplayCopies, Inv, LifeInv, ManagerFits
  <2>2. /\ Sound(g)
        /\ \A e \in Display : e # d => g.sel[e] \in {AsIs.sel[e], NoSource}
        /\ \A k \in Slot : g.src[k].kind = "proxy" /\ g.src[k].target # Session => g.src[k] = AsIs.src[k]
    BY DisplayCopyIs DEF Inv
  <2> HIDE DEF g
  <2>3. AsIs' = g /\ FlowStep
    BY <1>1, <2>1, <2>2, Changes
  <2>4. GoneEmpty(AsIs', life')
    BY <1>1, <1>2, <2>1, <2>2, <2>3
  <2> QED BY <2>2, <2>3, <2>4
<1>6. ASSUME NEW d \in Display, DisplayDrops(d)
      PROVE  Sound(AsIs') /\ FlowStep /\ GoneEmpty(AsIs', life')
  <2>1. ClipboardIs(SetSelection(AsIs, d, NoSource))
    BY <1>6 DEF DisplayDrops
  <2> QED BY <1>2, <2>1, Cleared
<1>7. ASSUME NEW d \in Display, UserInput(d)
      PROVE  Sound(AsIs') /\ FlowStep /\ GoneEmpty(AsIs', life')
  <2> DEFINE g == elevated_user_input(d)
  <2>1. ClipboardIs(g) /\ life[d] # "none"
    BY <1>7 DEF UserInput
  <2>2. /\ Sound(g)
        /\ \A e \in Display : e # d => g.sel[e] \in {AsIs.sel[e], NoSource}
        /\ \/ g = AsIs
           \/ Offered(g) = Offered(AsIs) /\ Foreign(g) = [Foreign(AsIs) EXCEPT ![d] = Offered(AsIs)]
    BY InputIs DEF Inv
  <2> HIDE DEF g
  <2>3. AsIs' = g
    BY <2>1, <2>2, IsClipboard DEF Sound, SoundBut
  <2>4. FlowStep
    <3>1. F_offered' = Offered(g) /\ F_foreign' = Foreign(g) /\ F_offered = Offered(AsIs) /\ F_foreign = Foreign(AsIs)
      BY <2>3 DEF F_offered, F_foreign
    <3> QED BY <2>2, <3>1 DEF FlowStep
  <2>5. GoneEmpty(AsIs', life')
    BY <1>1, <1>2, <2>1, <2>2, <2>3
  <2> QED BY <2>2, <2>3, <2>4, <2>5
<1> QED BY <1>3, <1>4, <1>5, <1>6, <1>7 DEF Clipboards

LEMMA ClearingLives ==
  ASSUME Inv, NEW d \in Display, elevated_destroy(d) \/ WindowManagerGone(d)
  PROVE  Sound(AsIs') /\ FlowStep /\ GoneEmpty(AsIs', life')
<1>1. AsIs.sel = selection /\ AsIs'.sel = selection' /\ life \in [Display -> {"none", "adopted", "ready"}]
  BY DEF AsIs, Inv, LifeInv, LifeType
<1>2. \A e \in Display : life'[e] = life[e] \/ (e = d /\ elevated_destroy(d))
  BY <1>1 DEF elevated_destroy, WindowManagerGone
<1>3. CASE ClipboardIs(SetSelection(AsIs, d, NoSource))
  <2>1. /\ Sound(AsIs') /\ FlowStep /\ selection'[d] = NoSource
        /\ \A e \in Display : selection'[e] \in {selection[e], NoSource}
    BY <1>3, Cleared
  <2>2. GoneEmpty(AsIs', life')
    BY <1>1, <1>2, <2>1 DEF Inv, GoneEmpty
  <2> QED BY <2>1, <2>2
<1>4. CASE ~ClipboardIs(SetSelection(AsIs, d, NoSource))
  <2>1. ClipboardIs(AsIs) /\ ~elevated_destroy(d)
    BY <1>4 DEF elevated_destroy, WindowManagerGone
  <2>2. UNCHANGED clipboard
    BY <2>1 DEF ClipboardIs, AsIs, clipboard
  <2>3. Sound(AsIs') /\ FlowStep /\ selection' = selection
    BY <2>2, Unchanged
  <2>4. GoneEmpty(AsIs', life')
    BY <1>1, <1>2, <2>1, <2>3 DEF Inv, GoneEmpty
  <2> QED BY <2>3, <2>4
<1> QED BY <1>3, <1>4

LEMMA OtherSteps ==
  ASSUME Inv, UNCHANGED clipboard, \A d \in Display : life'[d] = "none" => life[d] = "none"
  PROVE  Sound(AsIs') /\ FlowStep /\ GoneEmpty(AsIs', life')
<1>1. Sound(AsIs') /\ FlowStep /\ selection' = selection
  BY Unchanged
<1>2. AsIs.sel = selection /\ AsIs'.sel = selection'
  BY DEF AsIs
<1> QED BY <1>1, <1>2 DEF Inv, GoneEmpty

LEMMA Steps ==
  ASSUME Inv, [Next]_vars
  PROVE  Inv' /\ FlowStep
<1>1. LifeInv' /\ life \in [Display -> {"none", "adopted", "ready"}]
  BY LifeKept DEF Inv, LifeInv, LifeType
<1>2. Sound(AsIs') /\ FlowStep /\ GoneEmpty(AsIs', life')
  <2>1. CASE Clipboards
    BY <2>1, ClipboardsKeep
  <2>2. ASSUME NEW d \in Display, ClientGone(d) \/ NeverReady(d) \/ WindowManagerGone(d)
        PROVE  Sound(AsIs') /\ FlowStep /\ GoneEmpty(AsIs', life')
    BY <2>2, ClearingLives DEF ClientGone, NeverReady
  <2>3. ASSUME NEW d \in Display, Adopt(d) \/ Ready(d)
        PROVE  Sound(AsIs') /\ FlowStep /\ GoneEmpty(AsIs', life')
    BY <1>1, <2>3, OtherSteps DEF Adopt, Ready
  <2>4. ASSUME NEW d \in Display, NEW at \in {"client", "parts", "xwayland", "source"}, AdoptFails(d, at)
        PROVE  Sound(AsIs') /\ FlowStep /\ GoneEmpty(AsIs', life')
    BY <2>4, OtherSteps DEF AdoptFails
  <2>5. CASE UNCHANGED vars
    BY <2>5, OtherSteps DEF vars, clipboard
  <2> QED BY <2>1, <2>2, <2>3, <2>4, <2>5 DEF Next, Lives
<1>3. Inv'
  BY <1>1, <1>2 DEF Inv
<1> QED BY <1>2, <1>3

LEMMA InvKept == Inv /\ [Next]_vars => Inv'
BY Steps

LEMMA InvIsSound == Inv => ProxiesCurrent /\ TornDownOnce
<1> SUFFICES ASSUME Inv PROVE ProxiesCurrent /\ TornDownOnce
  OBVIOUS
<1>1. AsIs.src = source /\ AsIs.sel = selection /\ Sound(AsIs) /\ AsIs \in Heap
  BY DEF AsIs, Inv, Sound, SoundBut
<1>2. ProxiesCurrent
  <2> SUFFICES ASSUME NEW p \in Slot, source[p].kind = "proxy"
               PROVE  /\ selection[source[p].target] = p
                      /\ \E s \in Seat \ {source[p].target} : selection[s] # NoSource /\ selection[s] = source[p].inner
    BY DEF ProxiesCurrent
  <2>1. Proxy(AsIs, p) /\ selection[source[p].target] = p
    BY <1>1, SeatsAre DEF Sound, SoundBut
  <2> QED BY <1>1, <2>1, SeatsAre DEF Proxy, Seat
<1>3. NothingOutlives
  <2>1. \A d \in Display : life[d] = "none" => selection[d] = NoSource
    BY <1>1 DEF Inv, GoneEmpty
  <2>2. \A i \in Slot : source[i].kind = "real" => \E s \in Seat : selection[s] = i
    BY <1>1, SeatsAre DEF Sound, SoundBut
  <2> QED BY <2>1, <2>2 DEF NothingOutlives
<1>4. TypeOK
  <2>1. source \in [Slot -> Source] /\ selection \in [Seat -> Slot \cup {NoSource}]
    BY <1>1 DEF Heap
  <2> QED BY <2>1 DEF TypeOK, Inv, LifeInv, LifeType
<1> QED BY <1>2, <1>3, <1>4 DEF TornDownOnce, Inv, LifeInv

----------------------------------------------------------------------------
(* Whatever step of adopting a display fails and whichever end goes first, *)
(* what was made of it is taken down, all of it and once; with the types.  *)
THEOREM TakenDownOnce == Spec => []TornDownOnce
<1>1. Inv => TornDownOnce
  BY InvIsSound
<1> QED BY <1>1, InitHolds, InvKept, PTL DEF Spec

(* No proxy is left behind when a source, a selection or a display goes:   *)
(* each is the selection of its seat and wraps what another has selected.  *)
THEOREM ProxiesStayCurrent == Spec => []ProxiesCurrent
<1>1. Inv => ProxiesCurrent
  BY InvIsSound
<1> QED BY <1>1, InitHolds, InvKept, PTL DEF Spec

(* The clipboards implement the abstract flow of text: every step is a     *)
(* change that gives no display a text, or the user's input on one, which  *)
(* gives it what the session offers, or nothing TextFlow speaks of.        *)
THEOREM DisplaysImplementTextFlow == Spec => ImplementsTextFlow
<1> DEFINE offered ==
             IF Content(AsIs, selection[Session]) \in Text THEN Content(AsIs, selection[Session]) ELSE Nothing
           foreign ==
             [d \in Display |->
                IF Wrapped(AsIs, selection[d]) # NoSource THEN Content(AsIs, selection[d]) ELSE Nothing]
<1>1. offered = F_offered /\ foreign = F_foreign
  BY DEF F_offered, F_foreign, Offered, Foreign, AsIs
<1>2. offered' = F_offered' /\ foreign' = F_foreign'
  BY DEF F_offered, F_foreign, Offered, Foreign, AsIs, Content, Wrapped
<1>3. Init => F!Init
  <2> SUFFICES ASSUME Init PROVE F!Init
    OBVIOUS
  <2>1. \A s \in Seat : selection[s] = NoSource
    BY DEF Init
  <2>2. offered = Nothing
    BY <2>1, SeatsAre, ContentsDiffer DEF Content
  <2>3. foreign = [d \in Display |-> Nothing]
    BY <2>1 DEF Wrapped, Seat
  <2> QED BY <2>2, <2>3 DEF F!Init
<1>4. Inv /\ [Next]_vars => [F!Next]_<<offered, foreign>>
  <2> SUFFICES ASSUME Inv, [Next]_vars PROVE [F!Next]_<<offered, foreign>>
    OBVIOUS
  <2>1. FlowStep
    BY Steps
  <2> HIDE DEF offered, foreign
  <2>2. \/ UNCHANGED <<offered, foreign>>
        \/ /\ offered' \in Text \cup {Nothing} /\ foreign' \in [Display -> Text \cup {Nothing}]
           /\ \A d \in Display : foreign'[d] # Nothing => foreign'[d] = foreign[d] /\ offered' = offered
        \/ \E d \in Display : foreign' = [foreign EXCEPT ![d] = offered] /\ UNCHANGED offered
    BY <1>1, <1>2, <2>1 DEF FlowStep
  <2> QED BY <2>2 DEF F!Next, F!Change, F!UserInput, offered, foreign
<1> QED BY <1>3, <1>4, InitHolds, InvKept, PTL DEF Spec, ImplementsTextFlow, F!Spec
=============================================================================
