--------------------------- MODULE IsolationProofs ---------------------------
(***************************************************************************)
(* Isolation's safety, for every set of clients and windows of any kind:   *)
(* while the console is not open, no window of the session has the input   *)
(* or, under a lock, is shown.                                             *)
(*                                                                         *)
(* The handlers of windows come down to the same thing (WindowStep): the   *)
(* list loses some windows at most, and what is shown or has the input     *)
(* afterwards was so before, or is allowed to.  Those of the mode set the  *)
(* isolation up anew, or take it down.  What the user finds afterwards     *)
(* needs more: that a handler changes one window at most (OneChanges), and *)
(* that a window is on the list once, so that one which leaves is off it.  *)
(***************************************************************************)
EXTENDS Isolation, SequenceTheorems, TLAPS

(* What a list is without one of its windows.                              *)
LEMMA WithoutAt ==
  ASSUME NEW list \in Seq(View), NEW v \in ToSet(list)
  PROVE  \E at \in 1..Len(list) :
           /\ list[at] = v
           /\ Without(list, v) \in Seq(View) /\ Len(Without(list, v)) = Len(list) - 1
           /\ \A i \in 1..Len(list) - 1 : Without(list, v)[i] = IF i < at THEN list[i] ELSE list[i + 1]
<1> DEFINE at == CHOOSE i \in DOMAIN list : list[i] = v
           front == SubSeq(list, 1, at - 1)
           back == SubSeq(list, at + 1, Len(list))
           left == front \o back
           n == Len(list)
<1>1. n \in Nat /\ at \in 1..n /\ list[at] = v /\ DOMAIN list = 1..n
  BY DEF ToSet
<1>2. Without(list, v) = left
  BY DEF Without, RemoveAt
<1>3. \A i \in 1..n : list[i] \in View
  BY <1>1
<1> HIDE DEF at, n
<1>4. /\ front \in Seq(View) /\ Len(front) = at - 1
      /\ \A i \in 1..at - 1 : front[i] = list[i]
  BY <1>1, <1>3, SubSeqProperties
<1>5. /\ back \in Seq(View) /\ Len(back) = n - at
      /\ \A i \in 1..n - at : back[i] = list[at + i]
  <2>1. \A i \in at + 1..n : list[i] \in View
    BY <1>1, <1>3
  <2>2. /\ back \in Seq(View) /\ Len(back) = IF at + 1 <= n THEN n - (at + 1) + 1 ELSE 0
        /\ \A i \in 1..n - (at + 1) + 1 : back[i] = list[at + 1 + i - 1]
    BY <1>1, <2>1, SubSeqProperties DEF n
  <2> HIDE DEF back
  <2>3. \A i \in 1..n - at : at + 1 + i - 1 = at + i /\ i \in 1..n - (at + 1) + 1
    BY <1>1
  <2>4. \A i \in 1..n - at : back[i] = list[at + i]
    BY <2>2, <2>3
  <2>5. Len(back) = n - at
    BY <1>1, <2>2
  <2> QED BY <2>2, <2>4, <2>5
<1> HIDE DEF front, back
<1>6. /\ left \in Seq(View) /\ Len(left) = Len(front) + Len(back)
      /\ \A i \in 1..Len(front) + Len(back) : left[i] = IF i <= Len(front) THEN front[i] ELSE back[i - Len(front)]
  BY <1>4, <1>5, ConcatProperties
<1> HIDE DEF left
<1>7. Len(left) = n - 1 /\ DOMAIN left = 1..n - 1
  BY <1>1, <1>4, <1>5, <1>6
<1>8. ASSUME NEW i \in 1..n - 1 PROVE left[i] = IF i < at THEN list[i] ELSE list[i + 1]
  <2>1. i \in 1..Len(front) + Len(back)
    BY <1>1, <1>4, <1>5
  <2>2. CASE i < at
    BY <1>1, <1>4, <1>6, <2>1, <2>2
  <2>3. CASE ~(i < at)
    <3>1. i - (at - 1) \in 1..n - at /\ at + (i - (at - 1)) = i + 1 /\ ~(i <= at - 1)
      BY <1>1, <2>3
    <3> QED BY <1>4, <1>5, <1>6, <2>1, <2>3, <3>1
  <2> QED BY <2>2, <2>3
<1> QED BY <1>1, <1>2, <1>6, <1>7, <1>8 DEF n

(* A list keeps its other windows when one is taken out.                   *)
LEMMA WithoutKeeps ==
  ASSUME NEW list \in Seq(View), NEW v
  PROVE  /\ Without(list, v) \in Seq(View)
         /\ ToSet(Without(list, v)) \subseteq ToSet(list)
         /\ ToSet(list) \ {v} \subseteq ToSet(Without(list, v))
         /\ IsInjective(list) => IsInjective(Without(list, v)) /\ v \notin ToSet(Without(list, v))
<1>1. CASE v \notin ToSet(list)
  BY <1>1 DEF Without
<1>2. CASE v \in ToSet(list)
  <2> DEFINE left == Without(list, v)
             n == Len(list)
  <2>1. PICK at \in 1..n :
           /\ list[at] = v
           /\ left \in Seq(View) /\ Len(left) = n - 1
           /\ \A i \in 1..n - 1 : left[i] = IF i < at THEN list[i] ELSE list[i + 1]
    BY <1>2, WithoutAt
  <2>2. n \in Nat /\ DOMAIN list = 1..n
    OBVIOUS
  <2> HIDE DEF left, n
  <2>3. DOMAIN left = 1..n - 1
    BY <2>1, <2>2
  <2>4. ToSet(left) \subseteq ToSet(list)
    <3>1. ASSUME NEW i \in 1..n - 1 PROVE left[i] \in ToSet(list)
      <4>1. i \in 1..n /\ i + 1 \in 1..n
        BY <2>2
      <4>2. left[i] = list[i] \/ left[i] = list[i + 1]
        BY <2>1
      <4>3. list[i] \in ToSet(list) /\ list[i + 1] \in ToSet(list)
        BY <2>2, <4>1 DEF ToSet
      <4> QED BY <4>2, <4>3
    <3> QED BY <2>3, <3>1 DEF ToSet
  <2>5. ASSUME NEW i \in 1..n, list[i] # v PROVE list[i] \in ToSet(left)
    <3>1. CASE i < at
      BY <2>1, <2>2, <2>3, <3>1 DEF ToSet
    <3>2. CASE i > at
      <4>1. i - 1 \in 1..n - 1 /\ ~(i - 1 < at) /\ (i - 1) + 1 = i BY <2>1, <2>2, <3>2
      <4>2. left[i - 1] = list[i] BY <2>1, <4>1
      <4> QED BY <2>3, <4>1, <4>2 DEF ToSet
    <3> QED BY <2>1, <2>2, <2>5, <3>1, <3>2
  <2>6. ToSet(list) \ {v} \subseteq ToSet(left)
    BY <2>2, <2>5 DEF ToSet
  <2>7. ASSUME IsInjective(list) PROVE IsInjective(left) /\ v \notin ToSet(left)
    <3> DEFINE from(i) == IF i < at THEN i ELSE i + 1
    <3>1. \A i \in 1..n - 1 : from(i) \in 1..n /\ from(i) # at /\ left[i] = list[from(i)]
      BY <2>1, <2>2
    <3>2. \A i, j \in 1..n - 1 : from(i) = from(j) => i = j
      BY <2>1, <2>2
    <3>3. \A i, j \in 1..n : list[i] = list[j] => i = j
      BY <2>2, <2>7 DEF IsInjective
    <3> HIDE DEF from
    <3>4. IsInjective(left)
      BY <2>3, <3>1, <3>2, <3>3 DEF IsInjective
    <3>5. \A i \in 1..n - 1 : left[i] # v
      BY <2>1, <3>1, <3>3
    <3> QED BY <2>3, <3>4, <3>5 DEF ToSet
  <2> QED BY <2>1, <2>4, <2>6, <2>7 DEF left
<1> QED BY <1>1, <1>2

(* What is first in a list is in it.                                       *)
LEMMA FirstIsListed ==
  ASSUME NEW list, NEW set, NEW v \in FirstOf(list, set)
  PROVE  v \in (ToSet(list) \cap set) \cup {NoView}
BY DEF FirstOf, ToSet

(* A new window is on the list with those that were.                       *)
LEMMA FrontAdded ==
  ASSUME NEW list \in Seq(View), NEW v \in View
  PROVE  /\ <<v>> \o list \in Seq(View) /\ ToSet(<<v>> \o list) = ToSet(list) \cup {v}
         /\ IsInjective(list) /\ v \notin ToSet(list) => IsInjective(<<v>> \o list)
<1> DEFINE one == <<v>>
           longer == one \o list
<1>1. one \in Seq(View) /\ Len(one) = 1 /\ one[1] = v
  OBVIOUS
<1>2. Len(list) \in Nat /\ DOMAIN list = 1..Len(list)
  OBVIOUS
<1> HIDE DEF one
<1>3. /\ longer \in Seq(View) /\ Len(longer) = 1 + Len(list)
      /\ \A i \in 1..1 + Len(list) : longer[i] = IF i <= 1 THEN one[i] ELSE list[i - 1]
  <2>1. /\ longer \in Seq(View) /\ Len(longer) = Len(one) + Len(list)
        /\ \A i \in 1..Len(one) + Len(list) : longer[i] = IF i <= Len(one) THEN one[i] ELSE list[i - Len(one)]
    BY <1>1, ConcatProperties
  <2> HIDE DEF longer
  <2> QED BY <1>1, <2>1
<1> HIDE DEF longer
<1>4. DOMAIN longer = 1..1 + Len(list)
  BY <1>2, <1>3
<1>5. ASSUME NEW i \in 1..1 + Len(list) PROVE longer[i] \in ToSet(list) \cup {v}
  <2>1. CASE i = 1 BY <1>1, <1>3, <2>1
  <2>2. CASE i # 1
    <3>1. i - 1 \in 1..Len(list) /\ ~(i <= 1) BY <1>2, <2>2
    <3> QED BY <1>2, <1>3, <3>1 DEF ToSet
  <2> QED BY <2>1, <2>2
<1>6. ASSUME NEW i \in 1..Len(list) PROVE list[i] \in ToSet(longer)
  <2>1. i + 1 \in 1..1 + Len(list) /\ ~(i + 1 <= 1) /\ (i + 1) - 1 = i BY <1>2
  <2>2. longer[i + 1] = list[i] BY <1>3, <2>1
  <2> QED BY <1>4, <2>1, <2>2 DEF ToSet
<1>7. v \in ToSet(longer)
  <2>1. 1 \in 1..1 + Len(list) BY <1>2
  <2> QED BY <1>1, <1>3, <1>4, <2>1 DEF ToSet
<1>8. ToSet(longer) = ToSet(list) \cup {v}
  BY <1>2, <1>4, <1>5, <1>6, <1>7 DEF ToSet
<1>9. ASSUME IsInjective(list), v \notin ToSet(list) PROVE IsInjective(longer)
  <2>1. \A i \in 2..1 + Len(list) : i - 1 \in 1..Len(list) /\ longer[i] = list[i - 1] /\ longer[i] # v
    BY <1>2, <1>3, <1>9 DEF ToSet
  <2>2. longer[1] = v
    BY <1>1, <1>2, <1>3
  <2>3. \A i, j \in 1..Len(list) : list[i] = list[j] => i = j
    BY <1>2, <1>9 DEF IsInjective
  <2>4. ASSUME NEW i \in 1..1 + Len(list), NEW j \in 1..1 + Len(list), longer[i] = longer[j] PROVE i = j
    <3>1. CASE i = 1 \/ j = 1
      BY <1>2, <2>1, <2>2, <2>4, <3>1
    <3>2. CASE i # 1 /\ j # 1
      BY <1>2, <2>1, <2>3, <2>4, <3>2
    <3> QED BY <3>1, <3>2
  <2> QED BY <1>4, <2>4 DEF IsInjective
<1> QED BY <1>3, <1>8, <1>9 DEF longer, one

(* Moving the focus moves windows within the list only, and gives the      *)
(* keyboard to a window that may have it or leaves it.                     *)
LEMMA FocusKeeps ==
  ASSUME NEW f, f.views \in Seq(View), NEW v \in ToSet(f.views) \cup {NoView}, NEW allowed
  PROVE  /\ Focus(f, v, allowed).views \in Seq(View)
         /\ ToSet(Focus(f, v, allowed).views) = ToSet(f.views)
         /\ IsInjective(f.views) => IsInjective(Focus(f, v, allowed).views)
         /\ Focus(f, v, allowed).keyboard \in {f.keyboard} \cup (allowed \cap ToSet(f.views))
<1>1. CASE v \in {NoView, f.keyboard} \cup Unfocusable \/ v \notin allowed
  BY <1>1 DEF Focus
<1>2. CASE ~(v \in {NoView, f.keyboard} \cup Unfocusable \/ v \notin allowed)
  <2>1. v \in View
    BY <1>2 DEF ToSet
  <2>2. v \in ToSet(f.views)
    BY <1>2
  <2>3. /\ Without(f.views, v) \in Seq(View)
        /\ ToSet(Without(f.views, v)) \subseteq ToSet(f.views)
        /\ ToSet(f.views) \ {v} \subseteq ToSet(Without(f.views, v))
        /\ IsInjective(f.views) => IsInjective(Without(f.views, v)) /\ v \notin ToSet(Without(f.views, v))
    BY WithoutKeeps
  <2>4. /\ <<v>> \o Without(f.views, v) \in Seq(View)
        /\ ToSet(<<v>> \o Without(f.views, v)) = ToSet(Without(f.views, v)) \cup {v}
        /\ IsInjective(f.views) => IsInjective(<<v>> \o Without(f.views, v))
    BY <2>1, <2>3, FrontAdded
  <2>5. ToSet(<<v>> \o Without(f.views, v)) = ToSet(f.views)
    BY <2>2, <2>3, <2>4
  <2> QED BY <1>2, <2>2, <2>4, <2>5 DEF Focus
<1> QED BY <1>1, <1>2

(* The pointer stays, goes, or goes to a window that is shown and may      *)
(* have it.                                                                *)
LEMMA PointerKeeps ==
  ASSUME NEW before, NEW moved, NEW shown, NEW allowed, PointerFollows(before, moved, shown, allowed)
  PROVE  pointer' \in {before, NoView} \cup (shown \cap allowed)
BY DEF PointerFollows

----------------------------------------------------------------------------
(* The handlers of windows.                                                *)

(* A handler after which the windows of gone may be off the list.  What it *)
(* shows, it may show: under a prompt, which dims the session's windows,   *)
(* anything.                                                               *)
WindowStep(gone) ==
  /\ UNCHANGED <<modeVars, privileged, remote>>
  /\ views' \in Seq(View) /\ IsInjective(views') /\ ToSet(views) \ gone \subseteq ToSet(views')
  /\ minimized' \subseteq View
  /\ held' \subseteq ToSet(views') \cap Program
  /\ dying' = dying \ gone
  /\ visible' \subseteq (visible \ gone) \cup (ToSet(views') \cap IF secure THEN View ELSE Allowed)
  /\ keyboard' \in ({keyboard} \ gone) \cup {NoView} \cup (ToSet(views') \cap Allowed)
  /\ pointer' \in ({pointer} \ gone) \cup {NoView} \cup (ToSet(views') \cap Allowed)

LEMMA WindowStepKeeps ==
  ASSUME Isolated, NEW gone, WindowStep(gone)
  PROVE  Isolated'
<1> USE DEF WindowStep, Isolated
<1>1. UNCHANGED <<locked, secure, sas, privileged, remote>>
  BY DEF modeVars
<1>2. /\ visible \subseteq ToSet(views) /\ dying \subseteq ToSet(views)
      /\ keyboard \in ToSet(views) \cup {NoView} /\ pointer \in ToSet(views) \cup {NoView}
  BY DEF TypeOK, Mapped
<1>3. visible' \subseteq ToSet(views')
  BY <1>2
<1>4. TypeOK'
  BY <1>1, <1>2, <1>3 DEF TypeOK, LockModeTypeOK, Mapped
<1>5. InputIsolated'
  BY <1>1 DEF InputIsolated, Privileged, PrivilegedViews, Allowed, AllowedViews
<1>6. ScreenIsolated'
  BY <1>1 DEF ScreenIsolated, Privileged, PrivilegedViews, Allowed, AllowedViews
<1> QED BY <1>4, <1>5, <1>6

(* The focus goes to a window of the list, which stays what it is.         *)
LEMMA RefocusKeeps ==
  ASSUME Isolated, NEW v \in ToSet(views) \cup {NoView}, Refocus(v)
  PROVE  /\ views' \in Seq(View) /\ IsInjective(views') /\ ToSet(views') = ToSet(views)
         /\ keyboard' \in {keyboard} \cup (ToSet(views') \cap Allowed)
         /\ pointer' \in {pointer, NoView} \cup (visible' \cap Allowed)
         /\ UNCHANGED <<modeVars, privileged, remote, held, dying>>
<1>1. AsIs.views = views /\ AsIs.keyboard = keyboard /\ views \in Seq(View) /\ IsInjective(views)
  BY DEF AsIs, Isolated, TypeOK
<1>2. /\ Focus(AsIs, v, Allowed).views \in Seq(View) /\ IsInjective(Focus(AsIs, v, Allowed).views)
      /\ ToSet(Focus(AsIs, v, Allowed).views) = ToSet(views)
      /\ Focus(AsIs, v, Allowed).keyboard \in {keyboard} \cup (Allowed \cap ToSet(views))
  BY <1>1, FocusKeeps
<1>3. pointer' \in {pointer, NoView} \cup (visible' \cap Allowed)
  BY PointerKeeps DEF Refocus
<1> QED BY <1>2, <1>3 DEF Refocus, FocusIs

(* A step that moves the focus, and shows no more than it may.             *)
LEMMA RefocusIsWindowStep ==
  ASSUME Isolated, NEW v \in ToSet(views) \cup {NoView}, Refocus(v),
         minimized' \subseteq View, visible' \subseteq visible \cup (ToSet(views) \cap Allowed)
  PROVE  WindowStep({})
<1>1. held \subseteq ToSet(views) \cap Program /\ visible \subseteq ToSet(views)
  BY DEF Isolated, TypeOK, Mapped
<1>2. /\ views' \in Seq(View) /\ IsInjective(views') /\ ToSet(views') = ToSet(views)
      /\ keyboard' \in {keyboard} \cup (ToSet(views') \cap Allowed)
      /\ pointer' \in {pointer, NoView} \cup (visible' \cap Allowed)
      /\ UNCHANGED <<modeVars, privileged, remote, held, dying>>
  BY RefocusKeeps
<1>3. held' \subseteq ToSet(views') \cap Program /\ dying' = dying \ {}
  BY <1>1, <1>2
<1>4. visible' \subseteq (visible \ {}) \cup (ToSet(views') \cap IF secure THEN View ELSE Allowed)
  <2>1. Allowed \subseteq View
    BY DEF Allowed, AllowedViews, PrivilegedViews
  <2> QED BY <1>2, <2>1
<1>5. pointer' \in {pointer, NoView} \cup (ToSet(views') \cap Allowed)
  <2>1. visible' \subseteq ToSet(views')
    BY <1>1, <1>2
  <2> QED BY <1>2, <2>1
<1> QED BY <1>2, <1>3, <1>4, <1>5 DEF WindowStep

LEMMA RestoredMayBeShown ==
  ASSUME NEW v PROVE Restored(v) \subseteq visible \cup (ToSet(views) \cap Allowed)
BY DEF Restored, Mapped

(* A window opens.                                                         *)
LEMMA MapKeeps ==
  ASSUME Isolated, NEW v \in View, NEW hold \in BOOLEAN, Map(v, hold)
  PROVE  WindowStep({})
<1> DEFINE shown == visible \cup (IF (v \in Allowed \/ secure) /\ v \notin minimized THEN {v} ELSE {})
           f == [views |-> <<v>> \o views, keyboard |-> keyboard]
           g == IF v \in Unmanaged THEN f ELSE Focus(f, v, Allowed)
<1>1. views \in Seq(View) /\ IsInjective(views) /\ v \notin ToSet(views)
  BY DEF Isolated, TypeOK, Map, Mapped
<1>2. f.views \in Seq(View) /\ IsInjective(f.views) /\ ToSet(f.views) = ToSet(views) \cup {v} /\ f.keyboard = keyboard
  BY <1>1, FrontAdded
<1>3. /\ g.views \in Seq(View) /\ IsInjective(g.views) /\ ToSet(g.views) = ToSet(views) \cup {v}
      /\ g.keyboard \in {keyboard} \cup (Allowed \cap ToSet(g.views))
  <2> HIDE DEF f
  <2>1. v \in ToSet(f.views) \cup {NoView} BY <1>2
  <2>2. /\ Focus(f, v, Allowed).views \in Seq(View) /\ IsInjective(Focus(f, v, Allowed).views)
        /\ ToSet(Focus(f, v, Allowed).views) = ToSet(f.views)
        /\ Focus(f, v, Allowed).keyboard \in {f.keyboard} \cup (Allowed \cap ToSet(f.views))
    BY <1>2, <2>1, FocusKeeps
  <2> QED BY <1>2, <2>2
<1>4. FocusIs(g) /\ PointerFollows(pointer, keyboard' # keyboard, shown, Allowed)
  BY DEF Map
<1>5. visible' = IF hold THEN shown \ {v} ELSE shown
  BY DEF Map
<1>6. held' = (IF hold THEN held \cup {v} ELSE held) /\ (hold => v \in Program)
  BY DEF Map
<1>7. UNCHANGED <<modeVars, privileged, remote, minimized, dying>>
  BY DEF Map
<1> HIDE DEF f, g
<1>8. /\ views' \in Seq(View) /\ IsInjective(views') /\ ToSet(views') = ToSet(views) \cup {v}
      /\ keyboard' \in {keyboard} \cup (Allowed \cap ToSet(views'))
  BY <1>3, <1>4 DEF FocusIs
<1>9. pointer' \in {pointer, NoView} \cup (shown \cap Allowed)
  BY <1>4, PointerKeeps
<1>10. /\ visible \subseteq ToSet(views) /\ held \subseteq ToSet(views) \cap Program
       /\ minimized \subseteq View
  BY DEF Isolated, TypeOK, Mapped
<1>11. shown \subseteq ToSet(views') /\ shown \subseteq visible \cup (ToSet(views') \cap IF secure THEN View ELSE Allowed)
  BY <1>8, <1>10
<1> HIDE DEF shown
<1>12. visible' \subseteq (visible \ {}) \cup (ToSet(views') \cap IF secure THEN View ELSE Allowed)
  BY <1>5, <1>11
<1>13. held' \subseteq ToSet(views') \cap Program
  BY <1>6, <1>8, <1>10
<1>14. pointer' \in ({pointer} \ {}) \cup {NoView} \cup (ToSet(views') \cap Allowed)
  BY <1>9, <1>11
<1>15. minimized' \subseteq View /\ dying' = dying \ {}
  BY <1>7, <1>10
<1> QED BY <1>7, <1>8, <1>12, <1>13, <1>14, <1>15 DEF WindowStep

(* What unmapping a window makes of the list and the keyboard.             *)
LEMMA UnmappedKeeps ==
  ASSUME Isolated, NEW v \in View, NEW f \in Unmapped(v)
  PROVE  /\ f.views \in Seq(View) /\ IsInjective(f.views) /\ v \notin ToSet(f.views)
         /\ ToSet(f.views) \subseteq ToSet(views) /\ ToSet(views) \ {v} \subseteq ToSet(f.views)
         /\ f.keyboard \in ({keyboard} \ {v}) \cup {NoView} \cup (Allowed \cap ToSet(f.views))
<1> DEFINE list == Without(views, v)
           g == [views |-> list, keyboard |-> IF keyboard = v THEN NoView ELSE keyboard]
<1>1. /\ list \in Seq(View) /\ IsInjective(list) /\ v \notin ToSet(list)
      /\ ToSet(list) \subseteq ToSet(views) /\ ToSet(views) \ {v} \subseteq ToSet(list)
  BY WithoutKeeps DEF Isolated, TypeOK
<1> HIDE DEF list
<1>2. g.views = list /\ g.keyboard \in ({keyboard} \ {v}) \cup {NoView}
  OBVIOUS
<1>3. f \in IF keyboard = v THEN {Focus(g, next, Allowed) : next \in FirstOf(g.views, View \ Unmanaged)}
                           ELSE {g}
  BY DEF Unmapped, list
<1> HIDE DEF g
<1>4. CASE f = g
  BY <1>1, <1>2, <1>4
<1>5. ASSUME NEW next \in FirstOf(g.views, View \ Unmanaged), f = Focus(g, next, Allowed)
      PROVE  /\ f.views \in Seq(View) /\ IsInjective(f.views) /\ ToSet(f.views) = ToSet(list)
             /\ f.keyboard \in {g.keyboard} \cup (Allowed \cap ToSet(f.views))
  <2>1. g.views \in Seq(View) /\ IsInjective(g.views) /\ next \in ToSet(g.views) \cup {NoView}
    BY <1>1, <1>2, FirstIsListed
  <2>2. /\ Focus(g, next, Allowed).views \in Seq(View) /\ IsInjective(Focus(g, next, Allowed).views)
        /\ ToSet(Focus(g, next, Allowed).views) = ToSet(g.views)
        /\ Focus(g, next, Allowed).keyboard \in {g.keyboard} \cup (Allowed \cap ToSet(g.views))
    BY <2>1, FocusKeeps
  <2> QED BY <1>2, <1>5, <2>2
<1>6. CASE f # g
  <2>1. PICK next \in FirstOf(g.views, View \ Unmanaged) : f = Focus(g, next, Allowed)
    BY <1>3, <1>6
  <2> QED BY <1>1, <1>2, <1>5, <2>1
<1> QED BY <1>4, <1>6

(* What destroying one makes of them.                                      *)
LEMMA DestroyedKeeps ==
  ASSUME NEW f, f.views \in Seq(View), IsInjective(f.views), NEW g \in Destroyed(f)
  PROVE  /\ g.views \in Seq(View) /\ IsInjective(g.views) /\ ToSet(g.views) = ToSet(f.views)
         /\ g.keyboard \in {f.keyboard} \cup (Allowed \cap ToSet(g.views))
<1>1. PICK prev \in FirstOf(f.views, View) : g = Focus(f, prev, Allowed)
  BY DEF Destroyed
<1>2. prev \in ToSet(f.views) \cup {NoView}
  BY FirstIsListed
<1>3. /\ Focus(f, prev, Allowed).views \in Seq(View) /\ IsInjective(Focus(f, prev, Allowed).views)
      /\ ToSet(Focus(f, prev, Allowed).views) = ToSet(f.views)
      /\ Focus(f, prev, Allowed).keyboard \in {f.keyboard} \cup (Allowed \cap ToSet(f.views))
  BY <1>2, FocusKeeps
<1> QED BY <1>1, <1>3

(* A window leaves the screen.                                             *)
LEMMA LeaveIsWindowStep ==
  ASSUME Isolated, NEW v \in View, NEW f, Leave(v, f),
         f.views \in Seq(View), IsInjective(f.views), ToSet(f.views) \subseteq ToSet(views), ToSet(views) \ {v} \subseteq ToSet(f.views),
         f.keyboard \in ({keyboard} \ {v}) \cup {NoView} \cup (Allowed \cap ToSet(f.views)),
         minimized' \subseteq View, dying' = dying \ {v}
  PROVE  WindowStep({v})
<1>1. views' = f.views /\ keyboard' = f.keyboard
  BY DEF Leave, FocusIs
<1>2. /\ visible' = visible \ {v} /\ held' = held \ {v}
      /\ UNCHANGED <<modeVars, privileged, remote>>
  BY DEF Leave
<1>3. pointer' \in {IF pointer = v THEN NoView ELSE pointer, NoView} \cup (visible' \cap Allowed)
  BY PointerKeeps DEF Leave
<1>4. /\ visible \subseteq ToSet(views) /\ held \subseteq ToSet(views) \cap Program
      /\ NoView \notin View
  BY NoViewIsNoView DEF Isolated, TypeOK, Mapped
<1>5. visible' \subseteq ToSet(views') /\ held' \subseteq ToSet(views') \cap Program
  BY <1>1, <1>2, <1>4
<1>6. pointer' \in ({pointer} \ {v}) \cup {NoView} \cup (ToSet(views') \cap Allowed)
  BY <1>3, <1>5
<1> QED BY <1>1, <1>2, <1>5, <1>6 DEF WindowStep

(* Every handler of a window is such a step.                               *)
LEMMA WindowsKeep ==
  ASSUME Isolated, dying = {}, Windows
  PROVE  Isolated'
<1> SUFFICES ASSUME \A gone : ~WindowStep(gone) PROVE FALSE
  BY WindowStepKeeps
<1>1. ToSet(views) = Mapped /\ IsInjective(views) /\ minimized \subseteq View /\ visible \subseteq Mapped
  BY DEF Mapped, Isolated, TypeOK
<1>2. ASSUME NEW v \in View, NEW hold \in BOOLEAN, Map(v, hold) PROVE FALSE
  BY <1>2, MapKeeps
<1>3. ASSUME NEW v \in View, Unmap(v) PROVE FALSE
  <2>1. PICK f \in Unmapped(v) : Leave(v, f)
    BY <1>3 DEF Unmap
  <2>2. minimized' \subseteq View /\ dying' = dying \ {v}
    BY <1>1, <1>3 DEF Unmap
  <2> QED BY <2>1, <2>2, UnmappedKeeps, LeaveIsWindowStep
<1>4. ASSUME NEW v \in View, Destroy(v) PROVE FALSE
  <2>1. PICK f \in Destroyed(AsIs) : FocusIs(f) /\ PointerFollows(pointer, keyboard' # keyboard, visible, Allowed)
    BY <1>4 DEF Destroy
  <2>2. AsIs.views = views /\ AsIs.keyboard = keyboard /\ views \in Seq(View) /\ IsInjective(views)
    BY DEF AsIs, Isolated, TypeOK
  <2>3. /\ f.views \in Seq(View) /\ IsInjective(f.views) /\ ToSet(f.views) = ToSet(views)
        /\ f.keyboard \in {keyboard} \cup (Allowed \cap ToSet(f.views))
    BY <2>2, DestroyedKeeps
  <2>4. pointer' \in {pointer, NoView} \cup (visible \cap Allowed)
    BY <2>1, PointerKeeps
  <2>5. /\ views' = f.views /\ keyboard' = f.keyboard /\ minimized' \subseteq View
        /\ visible' = visible /\ held' = held /\ dying' = dying \ {}
        /\ UNCHANGED <<modeVars, privileged, remote>>
    BY <1>1, <1>4, <2>1 DEF FocusIs, Destroy
  <2>6. held \subseteq ToSet(views) \cap Program
    BY DEF Isolated, TypeOK, Mapped
  <2>7. WindowStep({})
    BY <1>1, <2>3, <2>4, <2>5, <2>6 DEF WindowStep
  <2> QED BY <2>7
<1>5. ASSUME NEW v \in View, Minimize(v) PROVE FALSE
  <2>1. PICK w \in IF keyboard = v THEN SessionsFront(visible' \ minimized') ELSE {NoView} : Refocus(w)
    BY <1>5 DEF Minimize
  <2>2. w \in ToSet(views) \cup {NoView}
    BY <2>1, FirstIsListed DEF SessionsFront
  <2>3. minimized' \subseteq View /\ visible' \subseteq visible
    BY <1>1, <1>5 DEF Minimize
  <2> QED BY <2>1, <2>2, <2>3, RefocusIsWindowStep
<1>6. ASSUME NEW v \in View, Restore(v) PROVE FALSE
  <2>1. visible' \subseteq visible \cup (ToSet(views) \cap Allowed)
    BY <1>6, RestoredMayBeShown DEF Restore
  <2>2. /\ minimized' \subseteq View
        /\ UNCHANGED <<modeVars, privileged, remote, views, held, keyboard, pointer, dying>>
    BY <1>1, <1>6 DEF Restore
  <2>3. held \subseteq ToSet(views) \cap Program /\ views \in Seq(View) /\ IsInjective(views) /\ Allowed \subseteq View
    BY DEF Isolated, TypeOK, Mapped, Allowed, AllowedViews, PrivilegedViews
  <2>4. WindowStep({})
    BY <2>1, <2>2, <2>3 DEF WindowStep
  <2> QED BY <2>4
<1>7. ASSUME NEW v \in View, Activate(v) PROVE FALSE
  <2>1. visible' \subseteq visible \cup (ToSet(views) \cap Allowed)
    BY <1>7, RestoredMayBeShown DEF Activate
  <2>2. v \in ToSet(views) /\ minimized' \subseteq View /\ Refocus(v)
    BY <1>1, <1>7 DEF Activate
  <2> QED BY <2>1, <2>2, RefocusIsWindowStep
<1>8. ASSUME NEW v \in View, Click(v) PROVE FALSE
  <2>1. v \in ToSet(views) /\ minimized' \subseteq View /\ visible' \subseteq visible /\ Refocus(v)
    BY <1>1, <1>8 DEF Click
  <2> QED BY <2>1, RefocusIsWindowStep
<1>9. ASSUME NEW v \in View, HoldExpire(v) PROVE FALSE
  <2>1. /\ v \in ToSet(views) /\ held' \subseteq held
        /\ visible' = IF v \in Allowed \ minimized THEN visible \cup {v} ELSE visible \ {v}
        /\ UNCHANGED <<modeVars, privileged, remote, views, minimized, keyboard, pointer, dying>>
    BY <1>9 DEF HoldExpire, Isolated, TypeOK, Mapped
  <2>2. held \subseteq ToSet(views) \cap Program /\ views \in Seq(View)
    BY DEF Isolated, TypeOK, Mapped
  <2>3. visible' \subseteq visible \cup (ToSet(views) \cap IF secure THEN View ELSE Allowed)
    BY <2>1
  <2>4. WindowStep({})
    BY <1>1, <2>1, <2>2, <2>3 DEF WindowStep
  <2> QED BY <2>4
<1>10. ASSUME DesktopFront PROVE FALSE
  <2>1. PICK v \in FirstOf(views, Desktop) : Refocus(v)
    BY <1>10 DEF DesktopFront
  <2>2. v \in ToSet(views) \cup {NoView} /\ minimized' \subseteq View /\ visible' \subseteq visible
    BY <1>1, <1>10, FirstIsListed DEF DesktopFront
  <2> QED BY <2>1, <2>2, RefocusIsWindowStep
<1>11. ASSUME SwitchToSession PROVE FALSE
  <2>1. PICK v \in SessionsFront(visible \ minimized) : Refocus(v)
    BY <1>11 DEF SwitchToSession
  <2>2. v \in ToSet(views) \cup {NoView} /\ minimized' \subseteq View /\ visible' \subseteq visible
    BY <1>1, <1>11, FirstIsListed DEF SwitchToSession, SessionsFront
  <2> QED BY <2>1, <2>2, RefocusIsWindowStep
<1>12. ASSUME Motion PROVE FALSE
  <2>1. pointer' \in {pointer, NoView} \cup (visible \cap Allowed)
    BY <1>12, PointerKeeps DEF Motion
  <2>2. UNCHANGED <<modeVars, privileged, remote, views, visible, minimized, held, keyboard, dying>>
    BY <1>12 DEF Motion
  <2>3. held \subseteq ToSet(views) \cap Program /\ views \in Seq(View)
    BY DEF Isolated, TypeOK, Mapped
  <2>4. WindowStep({})
    BY <1>1, <2>1, <2>2, <2>3 DEF WindowStep
  <2> QED BY <2>4
<1> QED BY <1>2, <1>3, <1>4, <1>5, <1>6, <1>7, <1>8, <1>9, <1>10, <1>11, <1>12 DEF Windows

(* The next window of a client that is being destroyed goes.               *)
LEMMA TeardownKeeps ==
  ASSUME Isolated, NEW v \in View, Teardown(v)
  PROVE  Isolated'
<1>0. PICK g \in Unmapped(v) : \E f \in Destroyed(g) : Leave(v, f)
  BY DEF Teardown
<1>1. PICK f \in Destroyed(g) : Leave(v, f)
  BY <1>0
<1>2. /\ g.views \in Seq(View) /\ IsInjective(g.views)
      /\ ToSet(g.views) \subseteq ToSet(views) /\ ToSet(views) \ {v} \subseteq ToSet(g.views)
      /\ g.keyboard \in ({keyboard} \ {v}) \cup {NoView} \cup (Allowed \cap ToSet(g.views))
  BY UnmappedKeeps
<1>3. /\ f.views \in Seq(View) /\ IsInjective(f.views) /\ ToSet(f.views) = ToSet(g.views)
      /\ f.keyboard \in {g.keyboard} \cup (Allowed \cap ToSet(f.views))
  BY <1>2, DestroyedKeeps
<1>4. minimized' \subseteq View /\ dying' = dying \ {v}
  BY DEF Teardown, Isolated, TypeOK
<1>5. WindowStep({v})
  BY <1>1, <1>2, <1>3, <1>4, LeaveIsWindowStep
<1> QED BY <1>5, WindowStepKeeps

----------------------------------------------------------------------------
(* The handlers of the mode.                                               *)

(* A change of mode: the list keeps its windows, and if the console is not *)
(* open afterwards only those of the clients that were privileged before   *)
(* have the input or, unless it is a prompt, are shown.                    *)
ModeStep ==
  /\ locked' \in BOOLEAN /\ secure' \in BOOLEAN /\ sas' \in BOOLEAN
  /\ views' \in Seq(View) /\ IsInjective(views') /\ ToSet(views') = ToSet(views)
  /\ UNCHANGED <<minimized, held>>
  /\ visible' \subseteq ToSet(views)
  /\ {keyboard', pointer'} \subseteq ToSet(views) \cup {NoView}
  /\ locked' => {keyboard', pointer'} \subseteq PrivilegedViews(privileged) \cup {NoView}
  /\ locked' /\ ~secure' => visible' \subseteq PrivilegedViews(privileged)

(* Who is privileged stays as it is, a client comes, or one goes.          *)
ClientsStep ==
  \/ privileged \subseteq privileged' /\ privileged' \subseteq Client /\ dying' = {}
  \/ \E c : DestroyClient(c)

LEMMA ModeStepKeeps ==
  ASSUME Isolated, ModeStep, ClientsStep, remote' \in BOOLEAN
  PROVE  Isolated'
<1>1. /\ privileged' \subseteq Client /\ dying' \subseteq ToSet(views)
      /\ PrivilegedViews(privileged) \cap ToSet(views) \subseteq PrivilegedViews(privileged') \cup dying'
  BY DEF ClientsStep, DestroyClient, PrivilegedViews, Mapped, Isolated, TypeOK, LockModeTypeOK
<1>2. TypeOK'
  BY <1>1 DEF ModeStep, Isolated, TypeOK, LockModeTypeOK, Mapped
<1>3. InputIsolated'
  BY <1>1 DEF ModeStep, InputIsolated, Privileged
<1>4. ScreenIsolated'
  BY <1>1 DEF ModeStep, ScreenIsolated, Privileged
<1> QED BY <1>2, <1>3, <1>4 DEF Isolated

(* The isolation is set up for some of the privileged clients.             *)
LEMMA IsolateIsModeStep ==
  ASSUME Isolated, NEW clients \in SUBSET privileged, isolate(clients),
         locked' \in BOOLEAN, secure' \in BOOLEAN, sas' \in BOOLEAN
  PROVE  ModeStep
<1> DEFINE mine == PrivilegedViews(clients)
<1>1. mine \subseteq PrivilegedViews(privileged)
  BY DEF PrivilegedViews
<1>2. /\ visible' = IF secure' THEN visible ELSE Mapped \cap mine
      /\ UNCHANGED <<minimized, held>>
      /\ \E v \in FirstOf(views, mine) :
           /\ FocusIs(Focus(Cleared, v, mine))
           /\ PointerFollows(NoView, keyboard' # NoView, visible', mine)
  BY DEF isolate
<1>3. PICK v \in FirstOf(views, mine) : /\ FocusIs(Focus(Cleared, v, mine))
                                      /\ PointerFollows(NoView, keyboard' # NoView, visible', mine)
  BY <1>2
<1> HIDE DEF mine
<1>4. Cleared.views = views /\ Cleared.keyboard = NoView /\ views \in Seq(View) /\ IsInjective(views) /\ v \in ToSet(views) \cup {NoView}
  BY <1>3, FirstIsListed DEF Cleared, Isolated, TypeOK
<1>5. /\ views' \in Seq(View) /\ IsInjective(views') /\ ToSet(views') = ToSet(views)
      /\ keyboard' \in {NoView} \cup (mine \cap ToSet(views))
  <2>1. /\ Focus(Cleared, v, mine).views \in Seq(View) /\ IsInjective(Focus(Cleared, v, mine).views)
        /\ ToSet(Focus(Cleared, v, mine).views) = ToSet(views)
        /\ Focus(Cleared, v, mine).keyboard \in {NoView} \cup (mine \cap ToSet(views))
    BY <1>4, FocusKeeps
  <2> QED BY <1>3, <2>1 DEF FocusIs
<1>6. pointer' \in {NoView} \cup (visible' \cap mine)
  BY <1>3, PointerKeeps
<1>7. visible' \subseteq ToSet(views)
  BY <1>2 DEF Isolated, TypeOK, Mapped
<1> QED BY <1>1, <1>2, <1>5, <1>6, <1>7 DEF ModeStep, Mapped

(* A real lock, engaged from whatever mode.                                *)
LEMMA EngageIsModeStep ==
  ASSUME Isolated, dying = {}, NEW clients \in SUBSET privileged, lock_engage(clients)
  PROVE  ModeStep
<1>1. locked' \in BOOLEAN /\ secure' \in BOOLEAN /\ sas' \in BOOLEAN
  BY DEF lock_engage, EngageFlags, Isolated, TypeOK, LockModeTypeOK, modeVars
<1>2. CASE ~locked
  <2>1. isolate(clients)
    BY <1>2 DEF lock_engage
  <2> QED BY <1>1, <2>1, IsolateIsModeStep
<1>3. CASE locked
  <2>1. /\ views \in Seq(View) /\ IsInjective(views) /\ visible \subseteq ToSet(views)
        /\ {keyboard, pointer} \subseteq ToSet(views) \cup {NoView}
        /\ {keyboard, pointer} \subseteq PrivilegedViews(privileged) \cup {NoView}
        /\ ~secure => visible \subseteq PrivilegedViews(privileged)
    BY <1>3 DEF Isolated, TypeOK, Mapped, InputIsolated, ScreenIsolated, Privileged
  <2>2. UNCHANGED <<views, minimized, held, keyboard, pointer>>
    BY <1>3 DEF lock_engage
  <2>3. visible' \subseteq visible /\ (~secure' => visible' \subseteq PrivilegedViews(privileged))
    <3>1. CASE ~sas /\ secure
      <4>1. visible' = visible \cap PrivilegedViews(clients)
        BY <1>3, <3>1 DEF lock_engage
      <4> QED BY <4>1 DEF PrivilegedViews
    <3>2. CASE sas \/ ~secure
      <4>1. visible' = visible
        BY <1>3, <3>2, Zenon DEF lock_engage
      <4>2. ~secure' => ~secure
        <5>1. EngageFlags
          BY DEF lock_engage
        <5>2. CASE sas
          <6>1. secure' = secure
            BY <1>3, <5>1, <5>2, Zenon DEF EngageFlags, SessionLocked
          <6> QED BY <6>1, Zenon
        <5>3. CASE ~secure
          BY <5>3, Zenon
        <5> QED BY <3>2, <5>2, <5>3
      <4> QED BY <2>1, <4>1, <4>2
    <3> QED BY <3>1, <3>2 DEF Isolated, TypeOK, LockModeTypeOK
  <2> QED BY <1>1, <2>1, <2>2, <2>3 DEF ModeStep
<1> QED BY <1>2, <1>3 DEF Isolated, TypeOK, LockModeTypeOK

(* The console is opened, to no window of the session that is gone.        *)
LEMMA UnisolateOpens ==
  ASSUME Isolated, unisolate
  PROVE  /\ locked' = FALSE /\ secure' = FALSE /\ sas' = FALSE
         /\ views' \in Seq(View) /\ IsInjective(views') /\ ToSet(views') = ToSet(views)
         /\ keyboard' \in ToSet(views) \cup {NoView}
         /\ visible' \subseteq ToSet(views) /\ UNCHANGED <<minimized, held>>
<1>1. PICK v \in FirstOf(views, View \ (PrivilegedViews(privileged) \cup minimized)) : FocusIs(Focus(Cleared, v, View))
  BY DEF unisolate
<1>2. Cleared.views = views /\ Cleared.keyboard = NoView /\ views \in Seq(View) /\ IsInjective(views) /\ v \in ToSet(views) \cup {NoView}
  BY <1>1, FirstIsListed DEF Cleared, Isolated, TypeOK
<1>3. /\ Focus(Cleared, v, View).views \in Seq(View) /\ IsInjective(Focus(Cleared, v, View).views)
      /\ ToSet(Focus(Cleared, v, View).views) = ToSet(views)
      /\ Focus(Cleared, v, View).keyboard \in {NoView} \cup (View \cap ToSet(views))
  BY <1>2, FocusKeeps
<1> QED BY <1>1, <1>3 DEF unisolate, OpenFlags, FocusIs, Mapped

(* Every handler of the mode is such a step.                               *)
LEMMA ModalKeeps ==
  ASSUME Isolated, dying = {}, Modal
  PROVE  Isolated'
<1> SUFFICES ASSUME ~(ModeStep /\ ClientsStep /\ remote' \in BOOLEAN) PROVE FALSE
  BY ModeStepKeeps
<1>1. /\ locked \in BOOLEAN /\ secure \in BOOLEAN /\ sas \in BOOLEAN
      /\ privileged \subseteq Client /\ remote \in BOOLEAN
      /\ views \in Seq(View) /\ IsInjective(views) /\ visible \subseteq ToSet(views)
      /\ {keyboard, pointer} \subseteq ToSet(views) \cup {NoView}
      /\ locked => {keyboard, pointer} \subseteq PrivilegedViews(privileged) \cup {NoView}
      /\ locked /\ ~secure => visible \subseteq PrivilegedViews(privileged)
  BY DEF Isolated, TypeOK, LockModeTypeOK, Mapped, InputIsolated, ScreenIsolated, Privileged
<1>2. ASSUME UNCHANGED <<privileged, remote, dying>> PROVE ClientsStep /\ remote' \in BOOLEAN
  BY <1>1, <1>2 DEF ClientsStep
<1>3. ASSUME Lock PROVE FALSE
  BY <1>2, <1>3, EngageIsModeStep DEF Lock
<1>4. ASSUME Prompt PROVE FALSE
  <2>1. locked' \in BOOLEAN /\ secure' \in BOOLEAN /\ sas' \in BOOLEAN
    BY <1>1, <1>4 DEF Prompt, SecureFlags
  <2> QED BY <1>2, <1>4, <2>1, IsolateIsModeStep DEF Prompt
<1>5. ASSUME SecurityScreen PROVE FALSE
  <2>1. locked' \in BOOLEAN /\ secure' \in BOOLEAN /\ sas' \in BOOLEAN
    BY <1>1, <1>5 DEF SecurityScreen, SasFlags
  <2> QED BY <1>2, <1>5, <2>1, IsolateIsModeStep DEF SecurityScreen
<1>6. ASSUME Unlock PROVE FALSE
  <2>1. pointer' \in {pointer, NoView} \cup (visible' \cap View)
    BY <1>6, PointerKeeps DEF Unlock
  <2>2. ModeStep
    BY <1>1, <1>6, <2>1, UnisolateOpens DEF Unlock, ModeStep
  <2> QED BY <1>2, <1>6, <2>2 DEF Unlock
<1>7. ASSUME RemoteTake PROVE FALSE
  <2>1. remote' \in BOOLEAN /\ ClientsStep
    BY <1>1, <1>7 DEF RemoteTake, ClientsStep
  <2>2. pointer' = NoView
    BY <1>7 DEF RemoteTake
  <2>3. CASE locked
    <3>1. unisolate
      BY <1>7, <2>3 DEF RemoteTake
    <3> QED BY <2>1, <2>2, <3>1, UnisolateOpens DEF ModeStep
  <2>4. CASE ~locked
    <3>1. UNCHANGED <<modeVars, views, visible, minimized, held, keyboard>>
      BY <1>7, <2>4 DEF RemoteTake
    <3>2. ModeStep
      BY <1>1, <2>2, <2>4, <3>1 DEF ModeStep, modeVars
    <3> QED BY <2>1, <3>2
  <2> QED BY <2>3, <2>4
<1>8. ASSUME NEW c \in privileged \cup {None}, RemoteGiveBack(c) PROVE FALSE
  <2>1. remote' \in BOOLEAN /\ ModeStep
    BY <1>8, EngageIsModeStep DEF RemoteGiveBack
  <2>2. ClientsStep
    BY <1>1, <1>8 DEF RemoteGiveBack, ClientsStep
  <2> QED BY <2>1, <2>2
<1>9. ASSUME NEW c \in Client, NEW gives \in BOOLEAN, ClientGone(c, gives) PROVE FALSE
  <2>1. ClientsStep
    BY <1>9 DEF ClientGone, ClientsStep
  <2>2. CASE gives
    <3>1. remote' \in BOOLEAN /\ lock_engage(privileged \ {c})
      BY <1>9, <2>2 DEF ClientGone
    <3> QED BY <2>1, <3>1, EngageIsModeStep
  <2>3. CASE ~gives
    <3>1. UNCHANGED <<modeVars, remote, views, visible, minimized, held, keyboard, pointer>>
      BY <1>9, <2>3 DEF ClientGone
    <3>2. ModeStep
      BY <1>1, <3>1 DEF ModeStep, modeVars
    <3> QED BY <1>1, <2>1, <3>1, <3>2
  <2> QED BY <2>2, <2>3
<1>10. ASSUME NEW c \in Client, ConnectPrivileged(c) PROVE FALSE
  <2>1. ClientsStep
    BY <1>1, <1>10 DEF ConnectPrivileged, ClientsStep, windowVars
  <2>2. UNCHANGED <<modeVars, remote, views, visible, minimized, held, keyboard, pointer>>
    BY <1>10 DEF ConnectPrivileged, windowVars
  <2>3. ModeStep
    BY <1>1, <2>2 DEF ModeStep, modeVars
  <2> QED BY <1>1, <2>1, <2>2, <2>3
<1> QED BY <1>3, <1>4, <1>5, <1>6, <1>7, <1>8, <1>9, <1>10 DEF Modal

----------------------------------------------------------------------------
(* The theorems.                                                           *)

LEMMA InitIsolated == Init => Isolated
<1> SUFFICES ASSUME Init PROVE Isolated
  OBVIOUS
<1>1. views = <<>> /\ visible = {} /\ minimized = {} /\ held = {} /\ dying = {}
      /\ keyboard = NoView /\ pointer = NoView
  BY DEF Init
<1>2. views \in Seq(View) /\ IsInjective(views) /\ Mapped = {}
  BY <1>1 DEF Mapped, ToSet, IsInjective
<1>3. LockModeTypeOK /\ ~locked
  BY DEF Init, LockModeInit, LockModeTypeOK
<1>4. TypeOK
  BY <1>1, <1>2, <1>3 DEF TypeOK
<1>5. InputIsolated /\ ScreenIsolated
  BY <1>1, <1>3 DEF InputIsolated, ScreenIsolated
<1> QED BY <1>4, <1>5 DEF Isolated

LEMMA NextKeepsIsolated == Isolated /\ [Next]_vars => Isolated'
<1> SUFFICES ASSUME Isolated, [Next]_vars PROVE Isolated'
  OBVIOUS
<1>1. CASE dying = {} /\ Modal
  BY <1>1, ModalKeeps
<1>2. CASE dying = {} /\ Windows
  BY <1>2, WindowsKeep
<1>3. CASE \E v \in View : Teardown(v)
  BY <1>3, TeardownKeeps
<1>4. CASE UNCHANGED vars
  <2>1. UNCHANGED <<locked, secure, sas, privileged, remote, views, visible, minimized, held, keyboard, pointer, dying>>
    BY <1>4 DEF vars, modeVars, windowVars
  <2> QED BY <2>1 DEF Isolated, TypeOK, LockModeTypeOK, Mapped, InputIsolated, ScreenIsolated, Privileged, PrivilegedViews
<1> QED BY <1>1, <1>2, <1>3, <1>4 DEF Next

(* For any clients and windows: types, and both halves of the isolation, in *)
(* every order in which windows come, go and move and the mode changes.    *)
THEOREM AlwaysIsolated == Spec => []Isolated
<1>1. Init => Isolated BY InitIsolated
<1>2. Isolated /\ [Next]_vars => Isolated' BY NextKeepsIsolated
<1> QED BY <1>1, <1>2, PTL DEF Spec

(* While the console is not open no window of the session has the keyboard *)
(* or the pointer.                                                         *)
THEOREM InputStaysIsolated == Spec => []InputIsolated
<1>1. Isolated => InputIsolated BY DEF Isolated
<1> QED BY <1>1, AlwaysIsolated, PTL

(* Under a lock or the security screen no window of the session is shown.  *)
THEOREM ScreenStaysIsolated == Spec => []ScreenIsolated
<1>1. Isolated => ScreenIsolated BY DEF Isolated
<1> QED BY <1>1, AlwaysIsolated, PTL

----------------------------------------------------------------------------
(* What the user finds when the console is opened.                         *)

(* One window changes at most, and is afterwards shown as it should be.    *)
LEMMA OneChanges ==
  ASSUME AllBack, UNCHANGED modeVars, NEW v,
         ToSet(views') \ {v} \subseteq ToSet(views), held \ {v} \subseteq held',
         visible' \ {v} = visible \ {v}, minimized' \ {v} = minimized \ {v},
         ~locked /\ v \in ToSet(views') \ held' => (v \in visible' <=> v \notin minimized')
  PROVE  AllBack'
<1> SUFFICES ASSUME ~locked', NEW w \in ToSet(views') \ held' PROVE w \in visible' <=> w \notin minimized'
  BY DEF AllBack, Mapped
<1>1. ~locked
  BY DEF modeVars
<1>2. CASE w = v
  BY <1>1, <1>2
<1>3. CASE w # v
  <2>1. w \in ToSet(views) \ held
    BY <1>3
  <2>2. w \in visible <=> w \notin minimized
    BY <1>1, <2>1 DEF AllBack, Mapped
  <2> QED BY <1>3, <2>2
<1> QED BY <1>2, <1>3

(* A window that leaves is neither on the list nor held any more.          *)
LEMMA LeaveKeepsBack ==
  ASSUME Isolated, AllBack, NEW v \in View, NEW f, Leave(v, f),
         ToSet(f.views) \subseteq ToSet(views), v \notin ToSet(f.views),
         minimized' \ {v} = minimized \ {v}
  PROVE  AllBack'
<1>1. views' = f.views /\ visible' = visible \ {v} /\ held' = held \ {v} /\ UNCHANGED modeVars
  BY DEF Leave, FocusIs
<1>2. ToSet(views') \subseteq ToSet(views) /\ v \notin ToSet(views')
  BY <1>1
<1> QED BY <1>1, <1>2, OneChanges

(* No handler of windows leaves one in a state that is not the user's.     *)
LEMMA WindowsKeepBack ==
  ASSUME Isolated, AllBack, Windows
  PROVE  AllBack'
<1>1. ~locked => Allowed = View
  BY DEF Allowed, AllowedViews
<1>2. ASSUME NEW v \in ToSet(views) \cup {NoView}, Refocus(v)
      PROVE  ToSet(views') = ToSet(views) /\ UNCHANGED <<modeVars, held>>
  BY <1>2, RefocusKeeps
<1>3. ASSUME NEW v \in View, NEW hold \in BOOLEAN, Map(v, hold) PROVE AllBack'
  <2> DEFINE shows == (v \in Allowed \/ secure) /\ v \notin minimized
             shown == visible \cup (IF shows THEN {v} ELSE {})
             f == [views |-> <<v>> \o views, keyboard |-> keyboard]
  <2>1. /\ v \notin ToSet(views)
        /\ FocusIs(IF v \in Unmanaged THEN f ELSE Focus(f, v, Allowed))
        /\ visible' = (IF hold THEN shown \ {v} ELSE shown) /\ held' = (IF hold THEN held \cup {v} ELSE held)
        /\ UNCHANGED <<modeVars, minimized>>
    BY <1>3 DEF Map, Mapped
  <2>2. views \in Seq(View) /\ visible \subseteq ToSet(views)
    BY DEF Isolated, TypeOK, Mapped
  <2>3. f.views \in Seq(View) /\ ToSet(f.views) = ToSet(views) \cup {v}
    BY <2>2, FrontAdded
  <2>4. ToSet(views') = ToSet(views) \cup {v}
    <3> HIDE DEF f
    <3>1. v \in ToSet(f.views) \cup {NoView}
      BY <2>3
    <3>2. ToSet(Focus(f, v, Allowed).views) = ToSet(f.views)
      BY <2>3, <3>1, FocusKeeps
    <3> QED BY <2>1, <2>3, <3>2 DEF FocusIs
  <2>5. ~locked /\ v \in ToSet(views') \ held' => (v \in visible' <=> v \notin minimized')
    BY <1>1, <2>1, <2>2
  <2>6. visible' \ {v} = visible \ {v} /\ held \ {v} \subseteq held'
    BY <2>1
  <2> QED BY <2>1, <2>4, <2>5, <2>6, OneChanges
<1>4. ASSUME NEW v \in View, Unmap(v) PROVE AllBack'
  <2>1. PICK f \in Unmapped(v) : Leave(v, f)
    BY <1>4 DEF Unmap
  <2>2. ToSet(f.views) \subseteq ToSet(views) /\ v \notin ToSet(f.views)
    BY UnmappedKeeps
  <2> QED BY <1>4, <2>1, <2>2, LeaveKeepsBack DEF Unmap
<1>5. ASSUME NEW v \in View, Destroy(v) PROVE AllBack'
  <2>1. PICK f \in Destroyed(AsIs) : FocusIs(f)
    BY <1>5 DEF Destroy
  <2>2. AsIs.views = views /\ views \in Seq(View) /\ IsInjective(views)
    BY DEF AsIs, Isolated, TypeOK
  <2>3. ToSet(views') = ToSet(views)
    BY <2>1, <2>2, DestroyedKeeps DEF FocusIs
  <2>4. /\ v \notin ToSet(views) /\ minimized' = minimized \ {v}
        /\ UNCHANGED <<modeVars, visible, held>>
    BY <1>5 DEF Destroy, Mapped
  <2> QED BY <2>3, <2>4, OneChanges
<1>6. ASSUME NEW v \in View, Minimize(v) PROVE AllBack'
  <2>1. PICK w \in IF keyboard = v THEN SessionsFront(visible' \ minimized') ELSE {NoView} : Refocus(w)
    BY <1>6 DEF Minimize
  <2>2. w \in ToSet(views) \cup {NoView}
    BY <2>1, FirstIsListed DEF SessionsFront
  <2>3. minimized' = minimized \cup {v} /\ visible' = visible \ {v}
    BY <1>6 DEF Minimize
  <2> QED BY <1>2, <2>1, <2>2, <2>3, OneChanges
<1>7. ASSUME NEW v \in View, visible' = Restored(v), minimized' = minimized \ {v},
             ToSet(views') = ToSet(views), UNCHANGED <<modeVars, held>>
      PROVE  AllBack'
  <2>1. ~locked /\ v \in ToSet(views') \ held' => (v \in visible' <=> v \notin minimized')
    BY <1>1, <1>7 DEF Restored, AllBack, Mapped
  <2>2. visible' \ {v} = visible \ {v}
    BY <1>7 DEF Restored
  <2> QED BY <1>7, <2>1, <2>2, OneChanges
<1>8. ASSUME NEW v \in View, Restore(v) PROVE AllBack'
  BY <1>7, <1>8 DEF Restore
<1>9. ASSUME NEW v \in View, Activate(v) PROVE AllBack'
  <2>1. v \in ToSet(views) /\ minimized' = minimized \ {v} /\ visible' = Restored(v) /\ Refocus(v)
    BY <1>9 DEF Activate, Mapped
  <2> QED BY <1>2, <1>7, <2>1
<1>10. ASSUME NEW v \in ToSet(views) \cup {NoView}, Refocus(v), UNCHANGED <<visible, minimized>> PROVE AllBack'
  BY <1>2, <1>10 DEF AllBack, Mapped, modeVars
<1>11. ASSUME NEW v \in View, Click(v) PROVE AllBack'
  <2>1. v \in ToSet(views) /\ Refocus(v) /\ UNCHANGED <<visible, minimized>>
    BY <1>11 DEF Click, Isolated, TypeOK, Mapped
  <2> QED BY <1>10, <2>1
<1>12. ASSUME DesktopFront PROVE AllBack'
  <2>1. PICK v \in FirstOf(views, Desktop) : Refocus(v)
    BY <1>12 DEF DesktopFront
  <2> QED BY <1>10, <1>12, <2>1, FirstIsListed DEF DesktopFront
<1>13. ASSUME SwitchToSession PROVE AllBack'
  <2>1. PICK v \in SessionsFront(visible \ minimized) : Refocus(v)
    BY <1>13 DEF SwitchToSession
  <2>2. v \in ToSet(views) \cup {NoView}
    BY <2>1, FirstIsListed DEF SessionsFront
  <2> QED BY <1>10, <1>13, <2>1, <2>2 DEF SwitchToSession
<1>14. ASSUME NEW v \in View, HoldExpire(v) PROVE AllBack'
  <2>1. /\ held' = held \ {v} /\ UNCHANGED <<modeVars, views, minimized>>
        /\ visible' = IF v \in Allowed \ minimized THEN visible \cup {v} ELSE visible \ {v}
    BY <1>14 DEF HoldExpire
  <2>2. ~locked => (v \in visible' <=> v \notin minimized')
    BY <1>1, <2>1
  <2> QED BY <2>1, <2>2, OneChanges
<1>15. ASSUME Motion PROVE AllBack'
  BY <1>15 DEF Motion, AllBack, Mapped, modeVars
<1> QED BY <1>3, <1>4, <1>5, <1>6, <1>8, <1>9, <1>11, <1>12, <1>13, <1>14, <1>15 DEF Windows

(* A client's windows go whole.                                            *)
LEMMA TeardownKeepsBack ==
  ASSUME Isolated, AllBack, NEW v \in View, Teardown(v)
  PROVE  AllBack'
<1>0. PICK g \in Unmapped(v) : \E f \in Destroyed(g) : Leave(v, f)
  BY DEF Teardown
<1>1. PICK f \in Destroyed(g) : Leave(v, f)
  BY <1>0
<1>2. /\ g.views \in Seq(View) /\ IsInjective(g.views)
      /\ ToSet(g.views) \subseteq ToSet(views) /\ v \notin ToSet(g.views)
  BY UnmappedKeeps
<1>3. ToSet(f.views) = ToSet(g.views)
  BY <1>2, DestroyedKeeps
<1>4. minimized' = minimized \ {v}
  BY DEF Teardown
<1> QED BY <1>1, <1>2, <1>3, <1>4, LeaveKeepsBack

(* What opening the console does to the windows, whoever does it: exactly  *)
(* those that are not minimized are shown, and one of them has the         *)
(* keyboard, or none.                                                      *)
LEMMA UnisolateGivesBack ==
  ASSUME Isolated, unisolate
  PROVE  /\ AllBack'
         /\ keyboard' \in {NoView} \cup (visible' \ PrivilegedViews(privileged))
<1>1. /\ ToSet(views') = ToSet(views) /\ UNCHANGED <<minimized, held>>
  BY UnisolateOpens
<1>2. visible' = ToSet(views) \ minimized
  BY DEF unisolate, Mapped
<1>3. PICK v \in FirstOf(views, View \ (PrivilegedViews(privileged) \cup minimized)) : FocusIs(Focus(Cleared, v, View))
  BY DEF unisolate
<1>4. v \in (ToSet(views) \cap (View \ (PrivilegedViews(privileged) \cup minimized))) \cup {NoView}
  BY <1>3, FirstIsListed
<1>5. keyboard' \in {NoView, v}
  BY <1>3 DEF FocusIs, Focus, Cleared
<1> QED BY <1>1, <1>2, <1>4, <1>5 DEF AllBack, Mapped

----------------------------------------------------------------------------
(* The modes.                                                              *)

(* Whatever the mode, engaging the lock makes it a lock.                   *)
LEMMA EngageLocks ==
  ASSUME TypeOK, FlagsExclusive, EngageFlags
  PROVE  SessionLocked'
BY DEF TypeOK, LockModeTypeOK, FlagsExclusive, EngageFlags, SessionLocked, modeVars

(* What each handler of the mode does to the flags, and to the session     *)
(* being away.                                                             *)
LEMMA ModalSteps ==
  ASSUME Isolated, FlagsExclusive, Modal
  PROVE  \/ SessionLocked' /\ remote' = remote
         \/ SecureFlags /\ remote' = remote
         \/ SasFlags /\ remote' = remote
         \/ unisolate /\ UNCHANGED privileged /\ locked /\ remote' = remote
         \/ ~remote /\ remote' /\ ~secure /\ UNCHANGED privileged /\ locked /\ unisolate
         \/ ~remote /\ remote' /\ ~locked /\ UNCHANGED <<modeVars, views, visible, minimized, held>>
         \/ remote /\ ~remote' /\ SessionLocked'
         \/ UNCHANGED <<modeVars, remote, views, visible, minimized, held, keyboard>>
<1> DEFINE Goal == \/ SessionLocked' /\ remote' = remote
                   \/ SecureFlags /\ remote' = remote
                   \/ SasFlags /\ remote' = remote
                   \/ unisolate /\ UNCHANGED privileged /\ locked /\ remote' = remote
                   \/ ~remote /\ remote' /\ ~secure /\ UNCHANGED privileged /\ locked /\ unisolate
                   \/ ~remote /\ remote' /\ ~locked /\ UNCHANGED <<modeVars, views, visible, minimized, held>>
                   \/ remote /\ ~remote' /\ SessionLocked'
                   \/ UNCHANGED <<modeVars, remote, views, visible, minimized, held, keyboard>>
<1>1. ASSUME NEW clients, lock_engage(clients) PROVE SessionLocked'
  <2>1. EngageFlags
    BY <1>1 DEF lock_engage
  <2> QED BY <2>1, EngageLocks DEF Isolated
<1>2. ASSUME Lock PROVE Goal
  BY <1>1, <1>2 DEF Lock
<1>3. ASSUME Prompt \/ SecurityScreen PROVE Goal
  BY <1>3 DEF Prompt, SecurityScreen
<1>4. ASSUME Unlock PROVE Goal
  BY <1>4 DEF Unlock
<1>5. ASSUME RemoteTake PROVE Goal
  BY <1>5 DEF RemoteTake
<1>6. ASSUME NEW c, RemoteGiveBack(c) PROVE Goal
  BY <1>1, <1>6 DEF RemoteGiveBack
<1>7. ASSUME NEW c, NEW gives \in BOOLEAN, ClientGone(c, gives) PROVE Goal
  BY <1>1, <1>7 DEF ClientGone
<1>8. ASSUME NEW c, ConnectPrivileged(c) PROVE Goal
  BY <1>8 DEF ConnectPrivileged, windowVars
<1> HIDE DEF Goal
<1>9. Goal
  BY <1>2, <1>3, <1>4, <1>5, <1>6, <1>7, <1>8 DEF Modal
<1> QED BY <1>9 DEF Goal

(* The handlers of windows leave the mode alone.                           *)
LEMMA WindowsLeaveMode ==
  ASSUME Windows \/ \E v \in View : Teardown(v)
  PROVE  UNCHANGED <<modeVars, privileged, remote>>
<1>1. \A v : Refocus(v) => UNCHANGED <<modeVars, privileged, remote>>
  BY DEF Refocus
<1>2. \A v, f : Leave(v, f) => UNCHANGED <<modeVars, privileged, remote>>
  BY DEF Leave
<1>3. (\E v \in View : Teardown(v)) => UNCHANGED <<modeVars, privileged, remote>>
  BY <1>2 DEF Teardown
<1>4. ASSUME NEW v, NEW hold, Map(v, hold) PROVE UNCHANGED <<modeVars, privileged, remote>>
  BY <1>4 DEF Map
<1>5. ASSUME NEW v, Unmap(v) PROVE UNCHANGED <<modeVars, privileged, remote>>
  BY <1>2, <1>5 DEF Unmap
<1>6. ASSUME NEW v, Destroy(v) \/ Restore(v) \/ HoldExpire(v) \/ Motion PROVE UNCHANGED <<modeVars, privileged, remote>>
  BY <1>6 DEF Destroy, Restore, HoldExpire, Motion
<1>7. ASSUME NEW v, Minimize(v) \/ Activate(v) \/ Click(v) \/ DesktopFront \/ SwitchToSession
      PROVE  UNCHANGED <<modeVars, privileged, remote>>
  BY <1>1, <1>7 DEF Minimize, Activate, Click, DesktopFront, SwitchToSession
<1> QED BY <1>3, <1>4, <1>5, <1>6, <1>7 DEF Windows

----------------------------------------------------------------------------
(* The theorems about opening.                                             *)

Inv == Isolated /\ FlagsExclusive /\ AllBack

LEMMA FlagsStay ==
  ASSUME Isolated, FlagsExclusive, [Next]_vars
  PROVE  FlagsExclusive'
<1>1. CASE Modal
  <2>1. CASE SessionLocked'
    BY <2>1 DEF SessionLocked, FlagsExclusive
  <2>2. CASE SecureFlags \/ SasFlags
    BY <2>2 DEF SecureFlags, SasFlags, FlagsExclusive
  <2>3. CASE unisolate
    BY <2>3 DEF unisolate, OpenFlags, FlagsExclusive
  <2>4. CASE UNCHANGED modeVars
    BY <2>4 DEF modeVars, FlagsExclusive
  <2> QED BY <1>1, <2>1, <2>2, <2>3, <2>4, ModalSteps
<1>2. CASE Windows \/ \E v \in View : Teardown(v)
  BY <1>2, WindowsLeaveMode DEF FlagsExclusive, modeVars
<1>3. CASE UNCHANGED vars
  BY <1>3 DEF vars, FlagsExclusive, modeVars
<1> QED BY <1>1, <1>2, <1>3 DEF Next

LEMMA BackStays ==
  ASSUME Isolated, FlagsExclusive, AllBack, [Next]_vars
  PROVE  AllBack'
<1>1. CASE Modal
  BY <1>1, ModalSteps, UnisolateGivesBack DEF SessionLocked, SecureFlags, SasFlags, AllBack, Mapped, modeVars
<1>2. CASE Windows
  BY <1>2, WindowsKeepBack
<1>3. CASE \E v \in View : Teardown(v)
  BY <1>3, TeardownKeepsBack
<1>4. CASE UNCHANGED vars
  BY <1>4 DEF vars, modeVars, windowVars, AllBack, Mapped
<1> QED BY <1>1, <1>2, <1>3, <1>4 DEF Next

LEMMA Invariance == Spec => []Inv
<1>1. Init => Inv
  <2>1. Init => FlagsExclusive /\ AllBack
    BY DEF Init, LockModeInit, FlagsExclusive, AllBack, Mapped, ToSet
  <2> QED BY <2>1, InitIsolated DEF Inv
<1>2. Inv /\ [Next]_vars => Inv'
  BY NextKeepsIsolated, FlagsStay, BackStays DEF Inv
<1> QED BY <1>1, <1>2, PTL DEF Spec

(* With the console open every window is shown unless it is minimized or    *)
(* held back, whatever became of it while the console was not.             *)
THEOREM EveryWindowIsBack == Spec => []AllBack
<1>1. Inv => AllBack BY DEF Inv
<1> QED BY <1>1, Invariance, PTL

(* Opening the console gives the keyboard to a window of the session that   *)
(* is shown, or to none.                                                   *)
THEOREM KeyboardComesBack == Spec => KeyboardAfterUnlock
<1> DEFINE Given == keyboard' \in {NoView} \cup (visible' \ PrivilegedViews(privileged'))
<1>1. ASSUME Inv, Next, locked, ~locked' PROVE Given
  <2>1. CASE Modal
    <3>1. unisolate /\ UNCHANGED privileged
      BY <1>1, <2>1, ModalSteps DEF Inv, SessionLocked, SecureFlags, SasFlags, modeVars
    <3> QED BY <1>1, <3>1, UnisolateGivesBack DEF Inv, PrivilegedViews
  <2>2. CASE Windows \/ \E v \in View : Teardown(v)
    BY <1>1, <2>2, WindowsLeaveMode DEF modeVars
  <2> QED BY <1>1, <2>1, <2>2 DEF Next
<1>2. Inv /\ [Next]_vars => [locked /\ ~locked' => Given]_vars
  BY <1>1
<1> QED BY <1>2, Invariance, PTL DEF Spec, KeyboardAfterUnlock

(* The mode of Modes, by the flags.                                        *)
LEMMA ModeOf ==
  ASSUME TypeOK, FlagsExclusive
  PROVE  /\ Mode = "open" <=> ~locked
         /\ Mode = "locked" <=> SessionLocked
         /\ Mode = "secure" <=> secure
         /\ Mode = "sas" <=> sas
BY DEF TypeOK, LockModeTypeOK, FlagsExclusive, Mode, SessionLocked

LEMMA ModeOfNext ==
  ASSUME TypeOK', FlagsExclusive'
  PROVE  /\ Mode' = "open" <=> ~locked'
         /\ Mode' = "locked" <=> SessionLocked'
         /\ Mode' = "secure" <=> secure'
         /\ Mode' = "sas" <=> sas'
BY DEF TypeOK, LockModeTypeOK, FlagsExclusive, Mode, SessionLocked

(* The windows' part of lock.c implements the abstract lock too: every      *)
(* handler is one step of Modes or changes nothing that it speaks of.      *)
THEOREM IsolationImplementsModes == Spec => ImplementsModes
<1>1. Init => M!Init
  BY DEF Init, LockModeInit, Mode, M!Init
<1>2. ASSUME Inv, Inv', [Next]_vars PROVE [M!Next]_(M!modesVars)
  <2>1. /\ Mode = "open" <=> ~locked
        /\ Mode = "secure" <=> secure
        /\ Mode' = "open" <=> ~locked'
        /\ Mode' = "locked" <=> SessionLocked'
        /\ Mode' = "secure" <=> secure'
        /\ Mode' = "sas" <=> sas'
        /\ remote \in BOOLEAN /\ remote' \in BOOLEAN
    BY <1>2, ModeOf, ModeOfNext DEF Inv, Isolated, TypeOK, LockModeTypeOK
  <2>2. UNCHANGED <<modeVars, remote>> => UNCHANGED M!modesVars
    BY DEF modeVars, M!modesVars, Mode
  <2>3. CASE Modal
    <3>1. CASE SessionLocked' /\ remote' = remote
      BY <2>1, <3>1 DEF M!Next, M!Lock
    <3>2. CASE SecureFlags /\ remote' = remote
      BY <2>1, <3>2 DEF M!Next, M!Prompt, SecureFlags
    <3>3. CASE SasFlags /\ remote' = remote
      BY <2>1, <3>3 DEF M!Next, M!SecurityScreen, SasFlags
    <3>4. CASE unisolate /\ remote' = remote
      BY <2>1, <3>4 DEF M!Next, M!Open, unisolate, OpenFlags
    <3>5. CASE ~remote /\ remote' /\ ~secure /\ unisolate
      BY <2>1, <3>5 DEF M!Next, M!Take, unisolate, OpenFlags
    <3>6. CASE ~remote /\ remote' /\ ~locked /\ UNCHANGED modeVars
      BY <2>1, <3>6 DEF M!Next, M!Take, modeVars, Mode
    <3>7. CASE remote /\ ~remote' /\ SessionLocked'
      BY <2>1, <3>7 DEF M!Next, M!GiveBack
    <3> QED BY <1>2, <2>2, <2>3, <3>1, <3>2, <3>3, <3>4, <3>5, <3>6, <3>7, ModalSteps DEF Inv
  <2>4. CASE Windows \/ \E v \in View : Teardown(v)
    BY <2>2, <2>4, WindowsLeaveMode
  <2>5. CASE UNCHANGED vars
    BY <2>2, <2>5 DEF vars
  <2> QED BY <1>2, <2>3, <2>4, <2>5 DEF Next
<1>3. Inv /\ Inv' /\ [Next]_vars => [M!Next]_(M!modesVars)
  BY <1>2
<1> QED BY <1>1, <1>3, Invariance, PTL DEF Spec, ImplementsModes, M!Spec
=============================================================================
