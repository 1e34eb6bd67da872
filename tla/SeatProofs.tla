------------------------------ MODULE SeatProofs ------------------------------
(***************************************************************************)
(* What holds of the seat, which Keys and Pointing share out between them: *)
(* the keys of the console's keyboard for every keyboard, list of consumed *)
(* keys and set of windows, and the pointer, pens and fingers for any      *)
(* windows, buttons and fingers.  The two have operators of the same name, *)
(* so that the actions of Pointing are taken under the name P; what they   *)
(* are to keep true of the seat is stated in Seat.                         *)
(*                                                                         *)
(* The results on keys are about any console.  What some of them say holds *)
(* until a key event is dropped while Remote Desktop has the session, and  *)
(* not of keys that go to a virtual terminal: with either, a press and its *)
(* release are treated differently, as README says.                        *)
(***************************************************************************)
EXTENDS Keys, Seat, FiniteSetTheorems, WellFoundedInduction, TLAPS

\* locked and remote are those of Keys.
P == INSTANCE Pointing

(* A key has one entry at most.                                            *)
Once == \A i, j \in 1..MaxConsumed : consumed[i] = consumed[j] /\ consumed[i] # NoKey => i = j

(* The window with the keyboard was told of the keys that are down, but    *)
(* for those consumed or withheld and the one whose press is held back.    *)
Sent == focus # NoWindow => down \ (Consumed \cup withheld) \subseteq knows \cup {heldPress}

(* What the keys are like until one's event is dropped.                    *)
ListInv ==
  /\ Once /\ Consumed \subseteq Reserved /\ ConsumedDown
  /\ SwitchPending /\ HeldDown
  /\ NoneStuck /\ Sent

Inv == TypeOK /\ (~missed => ListInv)

----------------------------------------------------------------------------
(* The list of consumed keys.                                              *)

(* Some numbers up to n: one of them is the least.  The sets of those up   *)
(* to each one are finite, and one of these is within all others.          *)
LEMMA Least ==
  ASSUME NEW n \in Nat, NEW T \in SUBSET (1..n), T # {}
  PROVE \E x \in T : \A y \in T : x <= y
<1> DEFINE All == 1..n
           Below == {T \cap (1..x) : x \in T}
           Smaller == StrictSubsetOrdering(All)
<1>1. IsWellFoundedOn(Smaller, FiniteSubsetsOf(All))
  BY FS_StrictSubsetOrderingWellFounded
<1>2. Below \subseteq FiniteSubsetsOf(All) /\ Below # {}
  <2>1. IsFiniteSet(All) BY FS_Interval
  <2>2. Below \subseteq SUBSET All /\ Below # {} OBVIOUS
  <2> HIDE DEF All, Below
  <2> QED BY <2>1, <2>2, FS_FiniteSubsetsOfFinite
<1>3. \E S \in Below : \A S2 \in Below : ~(<<S2, S>> \in Smaller)
  <2> HIDE DEF Below, Smaller
  <2> QED BY <1>1, <1>2, WFMin
<1>4. PICK x \in T : \A y \in T : ~(<<T \cap (1..y), T \cap (1..x)>> \in Smaller)
  BY <1>3
<1>5. ASSUME NEW y \in T, y < x PROVE FALSE
  <2>1. T \cap (1..y) \subseteq T \cap (1..x) /\ x \in T \cap (1..x) /\ x \notin T \cap (1..y)
    BY <1>5
  <2>2. T \cap (1..y) \in SUBSET All /\ T \cap (1..x) \in SUBSET All /\ T \cap (1..y) # T \cap (1..x)
    BY <2>1
  <2> QED BY <1>4, <2>1, <2>2 DEF StrictSubsetOrdering
<1> QED BY <1>5

(* The slot taken for a key, or given up by it, is a slot with that key.   *)
LEMMA FirstSlotIsOne ==
  ASSUME NEW k, Slots(k) # {}
  PROVE  FirstSlot(k) \in 1..MaxConsumed /\ consumed[FirstSlot(k)] = k
<1>1. Slots(k) \in SUBSET (1..MaxConsumed) /\ MaxConsumed \in Nat
  BY SlotsSuffice DEF Slots
<1>2. \E i \in Slots(k) : \A j \in Slots(k) : i <= j
  BY <1>1, Least
<1>3. FirstSlot(k) \in Slots(k)
  BY <1>2 DEF FirstSlot
<1> QED BY <1>3 DEF Slots

(* A key that can be consumed and is not yet finds a free slot.            *)
LEMMA RoomForReserved ==
  ASSUME TypeOK, Once, Consumed \subseteq Reserved, NEW k \in Reserved \ Consumed
  PROVE  Slots(NoKey) # {}
<1> SUFFICES ASSUME Slots(NoKey) = {} PROVE FALSE
  OBVIOUS
<1> DEFINE Others == Reserved \ {k}
<1>1. \A i \in 1..MaxConsumed : consumed[i] \in Others
  <2> SUFFICES ASSUME NEW i \in 1..MaxConsumed PROVE consumed[i] \in Others
    OBVIOUS
  <2>1. consumed[i] # NoKey /\ consumed[i] \in Key
    BY DEF Slots, TypeOK
  <2>2. consumed[i] \in Consumed
    BY <2>1 DEF Consumed, Slots
  <2> QED BY <2>2
<1>2. consumed \in Injection(1..MaxConsumed, Others)
  <2>1. consumed \in [1..MaxConsumed -> Others]
    BY <1>1 DEF TypeOK
  <2>2. \A i, j \in 1..MaxConsumed : consumed[i] = consumed[j] => i = j
    BY DEF Once, Slots
  <2> QED BY <2>1, <2>2 DEF Injection, IsInjective
<1>3. IsFiniteSet(Others) /\ Cardinality(Others) = Cardinality(Reserved) - 1
  BY SlotsSuffice, FS_RemoveElement
<1>4. Cardinality(1..MaxConsumed) <= Cardinality(Others)
  <2> HIDE DEF Others
  <2> QED BY <1>2, <1>3, FS_Injection
<1>5. Cardinality(1..MaxConsumed) = MaxConsumed
  BY SlotsSuffice, FS_Interval
<1>6. Cardinality(Reserved) \in Nat
  BY SlotsSuffice, FS_CardinalityType
<1> QED BY <1>3, <1>4, <1>5, <1>6, SlotsSuffice

(* Marking a key puts it in the list beside the others.                    *)
LEMMA MarkKeeps ==
  ASSUME TypeOK, Once, Consumed \subseteq Reserved, NEW k \in Reserved \ Consumed, mark_consumed(k)
  PROVE  /\ consumed' \in [1..MaxConsumed -> Key \cup {NoKey}]
         /\ Once' /\ Consumed' = Consumed \cup {k}
<1> DEFINE at == FirstSlot(NoKey)
<1>1. at \in 1..MaxConsumed /\ consumed[at] = NoKey
  BY RoomForReserved, FirstSlotIsOne
<1>2. consumed' = [consumed EXCEPT ![at] = k]
  BY RoomForReserved DEF mark_consumed
<1> HIDE DEF at
<1>3. k \in Key /\ k # NoKey /\ consumed \in [1..MaxConsumed -> Key \cup {NoKey}]
  BY SlotsSuffice, NothingIsNothing DEF TypeOK
<1>4. \A i \in 1..MaxConsumed : consumed'[i] = IF i = at THEN k ELSE consumed[i]
  BY <1>1, <1>2, <1>3
<1>5. \A i \in 1..MaxConsumed : consumed[i] # k
  BY <1>3 DEF Consumed, Slots
<1>6. Once'
  BY <1>4, <1>5 DEF Once
<1>7. \A q \in Key : Slots(q)' # {} <=> Slots(q) # {} \/ q = k
  BY <1>1, <1>3, <1>4, NothingIsNothing DEF Slots
<1> QED BY <1>2, <1>3, <1>6, <1>7 DEF Consumed

(* Taking a key's release takes the key out of the list, and no other.     *)
LEMMA TakeKeeps ==
  ASSUME TypeOK, Once, NEW k \in Key, Take(k)
  PROVE  /\ consumed' \in [1..MaxConsumed -> Key \cup {NoKey}]
         /\ Once' /\ Consumed' = Consumed \ {k}
<1> DEFINE at == FirstSlot(k)
<1>1. at \in 1..MaxConsumed /\ consumed[at] = k /\ consumed' = [consumed EXCEPT ![at] = NoKey]
  BY FirstSlotIsOne DEF Take
<1> HIDE DEF at
<1>2. k # NoKey /\ consumed \in [1..MaxConsumed -> Key \cup {NoKey}]
  BY NothingIsNothing DEF TypeOK
<1>3. \A i \in 1..MaxConsumed : consumed'[i] = IF i = at THEN NoKey ELSE consumed[i]
  BY <1>1, <1>2
<1>4. Once'
  BY <1>3 DEF Once
<1>5. \A i \in 1..MaxConsumed : consumed[i] = k => i = at
  BY <1>1, <1>2 DEF Once
<1>6. \A q \in Key : Slots(q)' # {} <=> Slots(q) # {} /\ q # k
  BY <1>1, <1>3, <1>5, NothingIsNothing DEF Slots
<1> QED BY <1>1, <1>2, <1>4, <1>6 DEF Consumed

(* A list that is left alone.                                              *)
LEMMA ListStays ==
  ASSUME Once, UNCHANGED consumed
  PROVE  Once' /\ Consumed' = Consumed
BY DEF Once, Consumed, Slots

----------------------------------------------------------------------------
(* The focus.                                                              *)

(* A focus that moves in a step that holds no press back: whoever has the  *)
(* keyboard then was told what is down, in the step or before.             *)
Moved == Clear \/ \E w \in Window : Enter(w, NoKey)

LEMMA MovedKeeps ==
  ASSUME Moved, down' \subseteq Key
  PROVE  focus' \in Window \cup {NoWindow} /\ knows' \subseteq Key /\ NoneStuck' /\ Sent'
<1>1. CASE Clear
  BY <1>1 DEF Clear, NoneStuck, Sent
<1>2. ASSUME NEW w \in Window, Enter(w, NoKey)
      PROVE  focus' \in Window \cup {NoWindow} /\ knows' \subseteq Key /\ NoneStuck' /\ Sent'
  BY <1>2, NothingIsNothing DEF Enter, NoneStuck, Sent
<1> QED BY <1>1, <1>2 DEF Moved

LEMMA IsolateMoves == isolate => Moved /\ locked' = TRUE
BY DEF isolate, Moved, Window

LEMMA UnisolateMoves == unisolate => Moved /\ locked' = FALSE
BY DEF unisolate, Moved, Window

(* What the window knows after the press held back has gone to it.         *)
LEMMA ToldKeeps ==
  ASSUME TypeOK, ListInv
  PROVE  /\ Told \subseteq Key /\ Told \ Reserved \subseteq down
         /\ focus # NoWindow => down \ (Consumed \cup withheld) \subseteq Told
BY NothingIsNothing DEF ListInv, TypeOK, Told, NoneStuck, Sent, HeldDown

(* The focus and what the lock allows of it: what a handler makes of them  *)
(* is of its kind.                                                         *)
LEMMA FocusTypes ==
  ASSUME TypeOK, down' \subseteq Key,
         (Moved /\ locked' \in BOOLEAN) \/ Stays(knows) \/ Stays(Told)
  PROVE  focus' \in Window \cup {NoWindow} /\ knows' \subseteq Key /\ locked' \in BOOLEAN
<1>1. Told \subseteq Key
  BY DEF TypeOK, Told
<1> QED BY <1>1, MovedKeeps DEF TypeOK, Stays

LEMMA MarkTypes ==
  ASSUME TypeOK, NEW k \in Key, mark_consumed(k) \/ Take(k) \/ UNCHANGED consumed
  PROVE  consumed' \in [1..MaxConsumed -> Key \cup {NoKey}]
BY DEF TypeOK, mark_consumed, Take

LEMMA PressTypes ==
  ASSUME TypeOK, NEW k \in Key, Press(k)
  PROVE  TypeOK'
<1>1. down' \subseteq Key
  BY DEF Press, TypeOK
<1>2. /\ consumed' \in [1..MaxConsumed -> Key \cup {NoKey}]
      /\ switchKey' \in Key \cup {NoKey} /\ heldPress' \in Key \cup {NoKey}
      /\ remote' \in BOOLEAN /\ missed' \in BOOLEAN /\ withheld' \subseteq Key
  <2>1. mark_consumed(k) \/ UNCHANGED consumed
    BY DEF Press, PressAway, PressReserved, PressSwitch, PressVtSwitch, PressShell, PressPlain
  <2>2. switchKey' \in {switchKey, k} /\ heldPress' \in {heldPress, k, NoKey}
    BY DEF Press, PressAway, PressReserved, PressSwitch, PressVtSwitch, PressShell, PressPlain
  <2>3. remote' \in {remote, FALSE} /\ missed' \in {missed, TRUE} /\ withheld' \in {withheld, withheld \cup {k}}
    BY DEF Press, PressAway, PressVtSwitch
  <2> QED BY <2>1, <2>2, <2>3, MarkTypes DEF TypeOK
<1>3. focus' \in Window \cup {NoWindow} /\ knows' \subseteq Key /\ locked' \in BOOLEAN
  <2>1. CASE remote
    <3>1. Stays(knows) \/ isolate
      BY <2>1 DEF Press, PressAway, Stays
    <3> QED BY <1>1, <3>1, IsolateMoves, FocusTypes
  <2>2. CASE ~remote /\ (PressReserved(k) \/ PressSwitch(k) \/ PressVtSwitch(k))
    <3>1. Stays(Told) \/ isolate
      BY <2>2 DEF PressReserved, PressSwitch, PressVtSwitch
    <3> QED BY <1>1, <3>1, IsolateMoves, FocusTypes
  <2>3. CASE PressShell(k)
    BY <1>1, <2>3 DEF PressShell, Enter, Window, TypeOK
  <2>4. CASE PressPlain(k)
    <3>1. Told \subseteq Key
      BY DEF TypeOK, Told
    <3> QED BY <2>4, <3>1 DEF PressPlain, Stays, TypeOK
  <2> QED BY <2>1, <2>2, <2>3, <2>4 DEF Press
<1> QED BY <1>1, <1>2, <1>3 DEF TypeOK

LEMMA ReleaseTypes ==
  ASSUME TypeOK, NEW k \in Key, Release(k)
  PROVE  TypeOK'
<1>1. down' \subseteq Key /\ remote' \in BOOLEAN /\ missed' \in BOOLEAN /\ withheld' \subseteq Key
  BY DEF Release, TypeOK
<1>2. CASE remote
  BY <1>1, <1>2 DEF Release, TypeOK
<1>3. CASE ~remote /\ ReleaseConsumed(k)
  <2>1. Stays(Told) \/ (Moved /\ locked' \in BOOLEAN)
    BY <1>3 DEF ReleaseConsumed, FocusSession, Moved, Window, TypeOK
  <2>2. switchKey' \in {switchKey, NoKey} /\ heldPress' = NoKey
    BY <1>3 DEF ReleaseConsumed
  <2> QED BY <1>1, <1>3, <2>1, <2>2, MarkTypes, FocusTypes DEF ReleaseConsumed, TypeOK
<1>4. CASE ~remote /\ ReleaseSent(k)
  <2>1. Told \subseteq Key
    BY DEF TypeOK, Told
  <2> QED BY <1>1, <1>4, <2>1 DEF ReleaseSent, Stays, TypeOK
<1> QED BY <1>2, <1>3, <1>4 DEF Release

(* Everything else moves the focus, and leaves the keys alone.             *)
LEMMA OtherMoves ==
  ASSUME FocusMoves \/ Lock \/ Unlock \/ RemoteTake \/ RemoteGiveBack, TypeOK
  PROVE  /\ KeysStay /\ remote' \in BOOLEAN /\ locked' \in BOOLEAN
         /\ Moved \/ UNCHANGED <<focus, knows, locked>>
<1>1. CASE FocusMoves
  BY <1>1 DEF FocusMoves, Moved, Allowed, Window, TypeOK
<1>2. CASE Lock \/ Unlock
  BY <1>2, IsolateMoves, UnisolateMoves DEF Lock, Unlock, TypeOK
<1>3. CASE RemoteTake \/ RemoteGiveBack
  BY <1>3, IsolateMoves, UnisolateMoves DEF RemoteTake, RemoteGiveBack, Stays, TypeOK
<1> QED BY <1>1, <1>2, <1>3

LEMMA TypesKeep ==
  ASSUME TypeOK, [Next]_vars
  PROVE  TypeOK'
<1>1. CASE FocusMoves \/ Lock \/ Unlock \/ RemoteTake \/ RemoteGiveBack
  <2>1. UNCHANGED <<down, consumed, switchKey, heldPress, missed, withheld>>
    BY <1>1, OtherMoves DEF KeysStay
  <2>2. focus' \in Window \cup {NoWindow} /\ knows' \subseteq Key
    BY <1>1, <2>1, OtherMoves, MovedKeeps DEF TypeOK
  <2> QED BY <1>1, <2>1, <2>2, OtherMoves DEF TypeOK
<1>2. CASE UNCHANGED vars
  BY <1>2 DEF vars, TypeOK
<1> QED BY <1>1, <1>2, PressTypes, ReleaseTypes DEF Next

----------------------------------------------------------------------------
(* The handlers.                                                           *)

(* A key event that holds nothing back: the focus moves, or the window is  *)
(* told of the press that was.                                             *)
LEMMA EventKeeps ==
  ASSUME TypeOK, ListInv, down' \subseteq Key, heldPress' = NoKey, SwitchPending',
         Once', Consumed' \subseteq Reserved, Consumed' \subseteq down',
         \/ Moved
         \/ /\ Stays(Told) /\ down \ Reserved \subseteq down'
            /\ down' \ (Consumed \cup withheld)' \subseteq down \ (Consumed \cup withheld)
  PROVE  ListInv'
<1>1. CASE Moved
  BY <1>1, MovedKeeps DEF ListInv, ConsumedDown, HeldDown
<1>2. CASE /\ Stays(Told) /\ down \ Reserved \subseteq down'
           /\ down' \ (Consumed \cup withheld)' \subseteq down \ (Consumed \cup withheld)
  <2>1. NoneStuck' /\ Sent'
    BY <1>2, ToldKeeps DEF Stays, NoneStuck, Sent
  <2> QED BY <2>1 DEF ListInv, ConsumedDown, HeldDown
<1> QED BY <1>1, <1>2

LEMMA PressKeeps ==
  ASSUME TypeOK, ListInv, NEW k \in Key, Press(k), ~missed'
  PROVE  ListInv'
<1>1. /\ Once /\ Consumed \subseteq Reserved /\ Consumed \subseteq down
      /\ SwitchPending /\ down \subseteq Key /\ k # NoKey
  BY NothingIsNothing DEF ListInv, TypeOK, ConsumedDown
<1>2. k \notin down /\ down' = down \cup {k} /\ k \notin Consumed /\ down' \subseteq Key
  BY <1>1 DEF Press
<1>3. ASSUME mark_consumed(k), k \in Reserved, switchKey' \in {switchKey, k}
      PROVE  /\ Once' /\ Consumed' = Consumed \cup {k} /\ SwitchPending'
             /\ Consumed' \subseteq Reserved /\ Consumed' \subseteq down'
  <2>1. Once' /\ Consumed' = Consumed \cup {k}
    BY <1>1, <1>2, <1>3, MarkKeeps
  <2> QED BY <1>1, <1>2, <1>3, <2>1 DEF SwitchPending
<1>4. CASE ~remote /\ UNCHANGED withheld /\ (PressReserved(k) \/ PressSwitch(k))
  <2>1. /\ mark_consumed(k) /\ k \in Reserved /\ heldPress' = NoKey /\ switchKey' \in {switchKey, k}
        /\ Stays(Told) \/ isolate
    BY <1>4, SlotsSuffice DEF PressReserved, PressSwitch
  <2>2. down' \ (Consumed \cup withheld)' \subseteq down \ (Consumed \cup withheld)
    BY <1>2, <1>3, <1>4, <2>1
  <2> QED BY <1>2, <1>3, <2>1, <2>2, IsolateMoves, EventKeeps
<1>5. CASE ~remote /\ PressVtSwitch(k)
  <2>1. Stays(Told) /\ heldPress' = NoKey /\ withheld' = withheld \cup {k} /\ UNCHANGED <<consumed, switchKey>>
    BY <1>5 DEF PressVtSwitch
  <2>2. Once' /\ Consumed' = Consumed /\ SwitchPending'
    BY <1>1, <2>1, ListStays DEF SwitchPending
  <2> QED BY <1>1, <1>2, <2>1, <2>2, EventKeeps
<1>6. CASE UNCHANGED withheld /\ PressShell(k)
  <2>1. UNCHANGED <<consumed, switchKey>> /\ heldPress' = k /\ focus' = Desktop /\ knows' = down' \ {k}
    BY <1>6 DEF PressShell, Enter
  <2>2. Once' /\ Consumed' = Consumed
    BY <1>1, <2>1, ListStays
  <2> QED BY <1>1, <1>2, <2>1, <2>2 DEF ListInv, ConsumedDown, SwitchPending, HeldDown, NoneStuck, Sent
<1>7. CASE UNCHANGED withheld /\ PressPlain(k)
  <2>1. /\ UNCHANGED <<consumed, switchKey, focus>> /\ heldPress' = NoKey
        /\ knows' = IF focus = NoWindow THEN {} ELSE Told \cup {k}
    BY <1>7 DEF PressPlain, Stays
  <2>2. Once' /\ Consumed' = Consumed
    BY <1>1, <2>1, ListStays
  <2>3. NoneStuck' /\ Sent'
    BY <1>1, <1>2, <1>7, <2>1, <2>2, ToldKeeps DEF NoneStuck, Sent
  <2> QED BY <1>1, <1>2, <2>1, <2>2, <2>3 DEF ListInv, ConsumedDown, SwitchPending, HeldDown
<1>8. CASE remote
  <2>1. /\ mark_consumed(k) /\ k \in Reserved /\ UNCHANGED <<switchKey, heldPress, withheld>>
        /\ Stays(knows) \/ isolate
    BY <1>8 DEF Press, PressAway
  <2>2. /\ Once' /\ Consumed' = Consumed \cup {k} /\ SwitchPending'
        /\ Consumed' \subseteq Reserved /\ Consumed' \subseteq down'
    BY <1>3, <2>1
  <2>3. HeldDown'
    BY <1>2, <2>1 DEF ListInv, HeldDown
  <2>4. NoneStuck' /\ Sent'
    <3>1. CASE isolate
      BY <1>2, <3>1, IsolateMoves, MovedKeeps
    <3>2. CASE Stays(knows)
      BY <1>2, <2>1, <2>2, <3>2 DEF ListInv, Stays, NoneStuck, Sent
    <3> QED BY <2>1, <3>1, <3>2
  <2> QED BY <2>2, <2>3, <2>4 DEF ListInv, ConsumedDown
<1> QED BY <1>4, <1>5, <1>6, <1>7, <1>8 DEF Press

LEMMA ReleaseKeeps ==
  ASSUME TypeOK, ListInv, NEW k \in Key, Release(k), ~missed'
  PROVE  ListInv'
<1>1. /\ Once /\ Consumed \subseteq Reserved /\ Consumed \subseteq down
      /\ SwitchPending /\ down \subseteq Key
  BY DEF ListInv, TypeOK, ConsumedDown
<1>2. /\ ~remote /\ k \in down /\ down' = down \ {k} /\ down' \subseteq Key /\ withheld' = withheld \ {k}
      /\ ReleaseConsumed(k) \/ ReleaseSent(k)
  BY <1>1 DEF Release
<1>3. CASE ReleaseConsumed(k)
  <2>1. Once' /\ Consumed' = Consumed \ {k}
    BY <1>1, <1>3, TakeKeeps DEF ReleaseConsumed
  <2>2. k \in Consumed
    BY <1>3 DEF ReleaseConsumed, Take, Consumed
  <2>3. /\ Consumed' \subseteq Reserved /\ Consumed' \subseteq down' /\ down \ Reserved \subseteq down'
        /\ down' \ (Consumed \cup withheld)' \subseteq down \ (Consumed \cup withheld)
    BY <1>1, <1>2, <2>1, <2>2
  <2>4. heldPress' = NoKey /\ (Stays(Told) \/ Moved)
    BY <1>3 DEF ReleaseConsumed, FocusSession, Moved, Window
  <2>5. SwitchPending'
    BY <1>1, <1>3, <2>1 DEF ReleaseConsumed, SwitchPending
  <2> QED BY <1>2, <2>1, <2>3, <2>4, <2>5, EventKeeps
<1>4. CASE ReleaseSent(k)
  <2>1. /\ Slots(k) = {} /\ UNCHANGED <<consumed, switchKey, focus>> /\ heldPress' = NoKey
        /\ knows' = Told \ {k}
    BY <1>4 DEF ReleaseSent, Stays
  <2>2. Once' /\ Consumed' = Consumed /\ k \notin Consumed
    BY <1>1, <2>1, ListStays DEF Consumed
  <2>3. NoneStuck' /\ Sent'
    BY <1>1, <1>2, <2>1, <2>2, ToldKeeps DEF NoneStuck, Sent
  <2> QED BY <1>1, <1>2, <2>1, <2>2, <2>3 DEF ListInv, ConsumedDown, SwitchPending, HeldDown
<1> QED BY <1>2, <1>3, <1>4

(* Everything else that moves the focus keeps the keys.                    *)
LEMMA FocusKeeps ==
  ASSUME TypeOK, ListInv, KeysStay, Moved \/ UNCHANGED <<focus, knows>>
  PROVE  ListInv'
<1>1. UNCHANGED <<down, consumed, switchKey, heldPress, withheld>>
  BY DEF KeysStay
<1>2. Once' /\ Consumed' = Consumed
  BY <1>1, ListStays DEF ListInv
<1>3. NoneStuck' /\ Sent'
  BY <1>1, <1>2, MovedKeeps DEF ListInv, TypeOK, NoneStuck, Sent
<1> QED BY <1>1, <1>2, <1>3 DEF ListInv, ConsumedDown, SwitchPending, HeldDown

LEMMA NextKeeps ==
  ASSUME Inv, [Next]_vars
  PROVE  Inv'
<1>1. TypeOK /\ TypeOK'
  BY TypesKeep DEF Inv
<1> SUFFICES ASSUME ~missed' PROVE ListInv'
  BY <1>1 DEF Inv
<1>2. ~missed
  BY DEF Next, Press, PressAway, Release, FocusMoves, Lock, Unlock, RemoteTake, RemoteGiveBack, KeysStay, vars
<1>3. ListInv
  BY <1>2 DEF Inv
<1>4. CASE FocusMoves \/ Lock \/ Unlock \/ RemoteTake \/ RemoteGiveBack
  BY <1>1, <1>3, <1>4, OtherMoves, FocusKeeps
<1>5. CASE UNCHANGED vars
  BY <1>1, <1>3, <1>5, FocusKeeps DEF vars, KeysStay
<1> QED BY <1>1, <1>3, <1>4, <1>5, PressKeeps, ReleaseKeeps DEF Next

LEMMA InitInv == Init => Inv
<1> SUFFICES ASSUME Init PROVE Inv
  OBVIOUS
<1>1. consumed = [i \in 1..MaxConsumed |-> NoKey] /\ focus = NoWindow /\ knows = {} /\ down = {}
  BY DEF Init
<1>2. Once /\ Consumed = {}
  BY <1>1, NothingIsNothing DEF Once, Consumed, Slots
<1>3. TypeOK /\ heldPress = NoKey /\ switchKey = NoKey
  BY DEF Init, TypeOK
<1> QED BY <1>1, <1>2, <1>3 DEF Inv, ListInv, ConsumedDown, SwitchPending, HeldDown, NoneStuck, Sent

(* Under a lock the keyboard is the lock screen's, or nobody's.            *)
FocusAllowed == locked => focus \in LockScreen \cup {NoWindow}

LEMMA InitFocusAllowed == Init => FocusAllowed
BY DEF Init, FocusAllowed

LEMMA NextFocusAllowed ==
  ASSUME FocusAllowed, [Next]_vars
  PROVE  FocusAllowed'
<1>1. ASSUME isolate PROVE FocusAllowed'
  BY <1>1 DEF isolate, Clear, Enter, FocusAllowed
<1>2. ASSUME unisolate PROVE FocusAllowed'
  BY <1>2 DEF unisolate, FocusAllowed
<1>3. ASSUME UNCHANGED <<focus, locked>> PROVE FocusAllowed'
  BY <1>3 DEF FocusAllowed
<1>4. ASSUME NEW k \in Key, Press(k) PROVE FocusAllowed'
  <2>1. CASE remote
    BY <1>1, <1>3, <1>4, <2>1 DEF Press, PressAway, Stays
  <2>2. CASE ~remote /\ PressShell(k)
    BY <2>2, KindsOfWindow, NothingIsNothing DEF PressShell, Enter, FocusAllowed, Window
  <2>3. CASE ~remote /\ ~PressShell(k)
    BY <1>1, <1>3, <1>4, <2>3 DEF Press, PressReserved, PressSwitch, PressVtSwitch, PressPlain, Stays
  <2> QED BY <2>1, <2>2, <2>3
<1>5. ASSUME NEW k \in Key, Release(k) PROVE FocusAllowed'
  <2>1. UNCHANGED <<focus, locked>> \/ (~locked /\ UNCHANGED locked)
    BY <1>5 DEF Release, ReleaseConsumed, ReleaseSent, FocusSession, Stays
  <2> QED BY <1>3, <2>1 DEF FocusAllowed
<1>6. ASSUME FocusMoves PROVE FocusAllowed'
  BY <1>6 DEF FocusMoves, Clear, Enter, Allowed, FocusAllowed
<1>7. ASSUME Lock \/ Unlock PROVE FocusAllowed'
  BY <1>1, <1>2, <1>7 DEF Lock, Unlock
<1>8. ASSUME RemoteTake \/ RemoteGiveBack PROVE FocusAllowed'
  BY <1>1, <1>2, <1>3, <1>8 DEF RemoteTake, RemoteGiveBack, Stays
<1>9. ASSUME UNCHANGED vars PROVE FocusAllowed'
  BY <1>3, <1>9 DEF vars
<1> QED BY <1>4, <1>5, <1>6, <1>7, <1>8, <1>9 DEF Next

----------------------------------------------------------------------------
(* The theorems.                                                           *)

(* The invariant: types, and until a key event is dropped the keys' own.   *)
THEOREM Invariance == Spec => []Inv
<1>1. Init => Inv BY InitInv
<1>2. Inv /\ [Next]_vars => Inv' BY NextKeeps
<1> QED BY <1>1, <1>2, PTL DEF Spec

(* Types, and until a key event is dropped while the session is away no    *)
(* consumed key that is not down, so that nothing in the list is left to   *)
(* swallow the release of a later press, nor anything put off for a key    *)
(* that has come up.                                                       *)
THEOREM ListStaysSound == Spec => []KeysSound
<1>1. Inv => KeysSound BY DEF Inv, ListInv, KeysSound
<1> QED BY <1>1, Invariance, PTL

(* Until then, no window goes on believing a key down that is up, but for  *)
(* those that the compositor consumes.                                     *)
THEOREM NoKeyStaysStuck == Spec => []NoStuckKey
<1>1. Inv => NoStuckKey BY DEF Inv, ListInv, NoStuckKey
<1> QED BY <1>1, Invariance, PTL

(* Until then, no window is sent a release of a key it was not told is     *)
(* down, but for a virtual terminal's.                                     *)
THEOREM ReleasesAreKnown == Spec => ReleaseKnown
<1> DEFINE Known == \A k \in Key \ withheld :
                      Release(k) /\ ~missed /\ ~remote /\ focus # NoWindow /\ Slots(k) = {} => k \in Told
<1>1. Inv => [Known]_vars
  <2> SUFFICES ASSUME Inv, NEW k \in Key \ withheld, Release(k), ~missed, focus # NoWindow, Slots(k) = {}
               PROVE  k \in Told
    OBVIOUS
  <2>1. k \in down \ (Consumed \cup withheld)
    BY DEF Release, Consumed
  <2>2. k \in knows \cup {heldPress} /\ k # NoKey
    BY <2>1, NothingIsNothing DEF Inv, ListInv, Sent
  <2> QED BY <2>2 DEF Told
<1> QED BY <1>1, Invariance, PTL DEF ReleaseKnown

(* The session is not handed the Tab of the Alt+Tab that brings it forward, *)
(* on any console.                                                         *)
THEOREM TabIsNotHanded == Spec => TabNotHanded
<1> DEFINE Kept == (Press(Tab) \/ Release(Tab)) /\ focus \in Elevated /\ focus' \in Program \cup {Desktop}
                     => Tab \notin knows'
<1>1. [Next]_vars => [Kept]_vars
  <2> SUFFICES ASSUME Press(Tab) \/ Release(Tab), focus \in Elevated, focus' \in Program \cup {Desktop}
               PROVE  Tab \notin knows'
    OBVIOUS
  <2>1. focus' # focus /\ focus' # NoWindow /\ focus' \notin LockScreen /\ Tab \in Reserved
    BY KindsOfWindow, NothingIsNothing, SlotsSuffice DEF Window
  <2>2. ~isolate
    BY <2>1 DEF isolate, Clear, Enter
  <2>3. ~Press(Tab)
    BY <2>1, <2>2, KindsOfWindow
       DEF Press, PressAway, PressReserved, PressSwitch, PressVtSwitch, PressShell, PressPlain, Stays
  <2>4. Release(Tab) /\ ~remote
    BY <2>1, <2>3 DEF Release
  <2>5. \E w \in Program \cup {Desktop} : Enter(w, NoKey)
    BY <2>1, <2>4 DEF Release, ReleaseConsumed, ReleaseSent, FocusSession, Stays
  <2> QED BY <2>4, <2>5 DEF Enter, Release
<1> QED BY <1>1, PTL DEF Spec, TabNotHanded

(* While Remote Desktop has the session, a key at the console either does  *)
(* nothing to the windows or takes it back, locked.                        *)
THEOREM ConsoleIsDeaf == Spec => ConsoleDeaf
<1> DEFINE Deaf == remote /\ (\E k \in Key : Press(k) \/ Release(k))
                     => IF remote' THEN UNCHANGED <<focus, knows>> ELSE locked' /\ focus' \notin Window \ LockScreen
<1>1. FocusAllowed => [Deaf]_vars
  <2> SUFFICES ASSUME FocusAllowed, remote, NEW k \in Key, Press(k) \/ Release(k)
               PROVE  IF remote' THEN UNCHANGED <<focus, knows>> ELSE locked' /\ focus' \notin Window \ LockScreen
    OBVIOUS
  <2>1. CASE Release(k)
    BY <2>1 DEF Release
  <2>2. CASE Press(k) /\ UNCHANGED <<focus, knows, remote>>
    BY <2>2
  <2>3. CASE remote' = FALSE /\ locked /\ Stays(knows)
    BY <2>3, NothingIsNothing DEF Stays, FocusAllowed
  <2>4. CASE remote' = FALSE /\ isolate
    BY <2>4, NothingIsNothing DEF isolate, Clear, Enter
  <2> QED BY <2>1, <2>2, <2>3, <2>4 DEF Press, PressAway
<1>2. Spec => []FocusAllowed
  BY InitFocusAllowed, NextFocusAllowed, PTL DEF Spec
<1> QED BY <1>1, <1>2, PTL DEF ConsoleDeaf

----------------------------------------------------------------------------
(* Mice, fingers and pens.  Sound says of a seat that it is backed by some *)
(* windows and devices; each function the handlers are made of is shown to *)
(* keep it, and a handler composes them.                                   *)


SeatType == [focus : View \cup {None}, counted : SUBSET P!Source, grab : View \cup {None},
             press : Linux \cup {None}, lastBar : Linux \cup {None}, hidden : BOOLEAN, shown : BOOLEAN]
PenType == [focus : PenAware \cup {None}, down : BOOLEAN, pointer : BOOLEAN]

Sound(s, windows, present) ==
  /\ s \in SeatType
  /\ s.grab # None => s.grab \in windows /\ s.counted # {}
  /\ s.press \in (windows \cap Linux) \cup {None} /\ s.lastBar \in (windows \cap Linux) \cup {None}
  /\ ~s.shown => s.hidden \/ present = {}

RestType ==
  /\ mapped \subseteq View /\ locked \in BOOLEAN /\ remote \in BOOLEAN /\ devices \subseteq P!Device
  /\ hand \in [held : SUBSET P!Source, fingers : SUBSET Finger]
  /\ points \in [Finger -> View \cup {None}]

PointsInv == Sound(seat, mapped, devices) /\ pen \in PenType /\ PenIsOneThing /\ RestType

LEMMA PointsAreSound == PointsInv => SeatSound /\ PenIsOneThing
BY DEF PointsInv, Sound, SeatType, PenType, RestType,
       SeatSound, SeatTypeOK, GrabBacked, PressLive, HidingNoted, P!Source, Source, P!Device, Device

----------------------------------------------------------------------------
(* Functions of the seat.                                                  *)

LEMMA PictureKeeps ==
  ASSUME NEW s, NEW m, NEW d, Sound(s, m, d)
  PROVE  /\ Sound(P!cursor_hide_for_touch(s), m, d)
         /\ Sound(P!cursor_show_after_touch(s), m, d)
         /\ Sound([s EXCEPT !.shown = TRUE], m, d)
BY DEF Sound, SeatType, P!cursor_hide_for_touch, P!cursor_show_after_touch

LEMMA MotionKeeps ==
  ASSUME NEW s, NEW m, NEW d, Sound(s, m, d)
  PROVE  Sound(P!process_cursor_motion(s), m, d)
<1> DEFINE t == P!cursor_show_after_touch(s)
<1>1. Sound(t, m, d)
  BY PictureKeeps
<1> HIDE DEF t
<1>2. Sound(P!grab_motion(t), m, d)
  BY <1>1 DEF Sound, SeatType, P!grab_motion
<1> QED BY <1>2 DEF P!process_cursor_motion, t

LEMMA PointerFocusKeeps ==
  ASSUME NEW s, NEW m, NEW d, Sound(s, m, d), NEW v \in View \cup {None}
  PROVE  Sound(P!seat_set_focus(s, v), m, d) /\ Sound([s EXCEPT !.focus = v], m, d)
<1>1. Sound([s EXCEPT !.focus = v], m, d)
  BY DEF Sound, SeatType
<1> QED BY <1>1, MotionKeeps DEF P!seat_set_focus

(* A spot names a window that is there, and a bar that is.                 *)
LEMMA SpotIs ==
  ASSUME mapped \subseteq View, NEW spot \in P!Spot
  PROVE  /\ spot.view \in View \cup {None} /\ P!desktop_view_at(spot) \in View \cup {None}
         /\ spot.bar => spot.view \in mapped \cap Linux
<1>1. \/ spot = [view |-> None, bar |-> FALSE]
      \/ \E v \in mapped : spot = [view |-> v, bar |-> FALSE]
      \/ \E v \in mapped \cap Linux : spot = [view |-> v, bar |-> TRUE]
  BY DEF P!Spot
<1>2. spot.view \in View \cup {None} /\ (spot.bar => spot.view \in mapped \cap Linux)
  BY <1>1
<1> QED BY <1>2 DEF P!desktop_view_at

LEMMA PointerPressKeeps ==
  ASSUME NEW s, NEW d, Sound(s, mapped, d), mapped \subseteq View, NEW spot \in P!Spot
  PROVE  Sound(P!press_cursor_button(s, spot), mapped, d)
BY SpotIs, PointerFocusKeeps DEF P!press_cursor_button

LEMMA ButtonKeeps ==
  ASSUME NEW s, Sound(s, mapped, devices), mapped \subseteq View, NEW b \in P!Source, NEW spot \in P!Spot,
         NEW pressed, NEW t \in P!seat_pointer_button(s, b, pressed, spot)
  PROVE  Sound(t, mapped, devices)
<1>1. CASE pressed /\ spot.bar
  <2> DEFINE v == spot.view
             f == P!seat_set_focus(s, v)
  <2>1. v \in mapped \cap Linux /\ Sound(f, mapped, devices)
    BY <1>1, SpotIs, PointerFocusKeeps
  <2>2. t \in {[f EXCEPT !.press = v], [f EXCEPT !.press = v, !.lastBar = v],
             [f EXCEPT !.press = None, !.lastBar = None]}
    BY <1>1 DEF P!seat_pointer_button, P!BarPressed
  <2> HIDE DEF f, v
  <2> QED BY <2>1, <2>2 DEF Sound, SeatType
<1>2. CASE pressed /\ ~spot.bar
  <2>1. Sound([s EXCEPT !.counted = @ \cup {b}], mapped, devices)
    BY DEF Sound, SeatType
  <2>2. t = P!press_cursor_button([s EXCEPT !.counted = @ \cup {b}], spot)
    BY <1>2 DEF P!seat_pointer_button, P!WindowPressed
  <2> QED BY <2>1, <2>2, PointerPressKeeps
<1>3. CASE ~pressed
  <2>1. t \in {[s EXCEPT !.press = None], [s EXCEPT !.grab = None, !.counted = @ \ {b}]}
    BY <1>3 DEF P!seat_pointer_button, P!BarReleased, P!WindowReleased
  <2> QED BY <2>1 DEF Sound, SeatType
<1> QED BY <1>1, <1>2, <1>3

LEMMA EnteringKeeps ==
  ASSUME NEW s, NEW m, NEW d, Sound(s, m, d), NEW to
  PROVE  Sound(P!Entering(s, to), m, d)
BY PictureKeeps DEF P!Entering

(* A window that goes takes its press, its bar, its drag along.            *)
LEMMA GoneKeeps ==
  ASSUME NEW s, NEW m, NEW d, Sound(s, m, d), NEW v \in View, NEW next \in View \cup {None}
  PROVE  Sound(P!view_unmap(P!decor_destroy(s, v), v, next), m \ {v}, d)
<1> DEFINE u == P!decor_destroy(s, v)
           t == IF u.grab = v THEN [u EXCEPT !.grab = None] ELSE u
<1>1. Sound(u, m, d) /\ v \notin {u.press, u.lastBar}
  BY WindowsAreDistinct DEF Sound, SeatType, P!decor_destroy
<1> HIDE DEF u
<1>2. Sound(t, m, d) /\ v \notin {t.press, t.lastBar, t.grab}
  BY <1>1, WindowsAreDistinct DEF Sound, SeatType
<1> HIDE DEF t
<1>3. Sound(t, m \ {v}, d) /\ None \in View \cup {None}
  BY <1>2, WindowsAreDistinct DEF Sound
<1>4. Sound([t EXCEPT !.focus = None], m \ {v}, d)
  BY <1>3, PointerFocusKeeps
<1>5. Sound(P!seat_set_focus([t EXCEPT !.focus = None], next), m \ {v}, d)
  BY <1>4, PointerFocusKeeps
<1> QED BY <1>3, <1>5 DEF P!view_unmap, t, u

----------------------------------------------------------------------------
(* Every step keeps the invariant.                                         *)

LEMMA ProgramsPen ==
  ASSUME PointsInv, NEW spot \in P!Spot
  PROVE  LET to == P!tablet_tool_to_program(spot)
         IN  /\ to.focus \in PenAware \cup {None} /\ (to.taken => ~pen.pointer)
             /\ ~to.taken => to.focus = None
             /\ pen.down /\ pen.focus # None => to.focus = pen.focus
BY DEF PointsInv, PenType, PenIsOneThing, P!tablet_tool_to_program

LEMMA NoPenIs == P!NoPen \in PenType /\ P!NoPen.pointer = FALSE
BY DEF P!NoPen, PenType

LEMMA PenTipKeeps ==
  ASSUME PointsInv, NEW spot \in P!Spot, P!PenTip(spot)
  PROVE  Sound(seat', mapped, devices) /\ pen' \in PenType /\ PenIsOneThing'
<1> DEFINE to == P!tablet_tool_to_program(spot)
           pressed == P!Pressing("tip")
<1>1. /\ to.focus \in PenAware \cup {None} /\ (to.taken => ~pen.pointer) /\ (~to.taken => to.focus = None)
      /\ mapped \subseteq View /\ pen \in PenType /\ Sound(seat, mapped, devices)
  BY ProgramsPen DEF PointsInv, RestType
<1>2. CASE remote
  BY <1>1, <1>2 DEF P!PenTip, PointsInv, PenIsOneThing
<1>3. pressed \in BOOLEAN
  BY DEF P!Pressing
<1> HIDE DEF to, pressed
<1>4. CASE ~remote /\ to.taken
  <2>1. P!StrokeTip(pressed, spot, to)
    BY <1>4 DEF P!PenTip, to, pressed
  <2>2. Sound(seat', mapped, devices)
    BY <1>1, <2>1, EnteringKeeps, PointerPressKeeps DEF P!StrokeTip
  <2>3. pen' = [pen EXCEPT !.focus = to.focus, !.down = pressed]
    BY <2>1 DEF P!StrokeTip
  <2> QED BY <1>1, <1>3, <1>4, <2>2, <2>3 DEF PenType, PenIsOneThing
<1>5. CASE ~remote /\ ~to.taken
  <2>1. P!PointerTip(pressed, spot, to)
    BY <1>5 DEF P!PenTip, to, pressed
  <2>2. Sound(seat', mapped, devices)
    BY <1>1, <2>1, MotionKeeps, ButtonKeeps DEF P!PointerTip, P!Source
  <2>3. pen' = [pen EXCEPT !.focus = to.focus, !.pointer = pressed]
    BY <2>1 DEF P!PointerTip
  <2> QED BY <1>1, <1>3, <1>5, <2>2, <2>3 DEF PenType, PenIsOneThing
<1> QED BY <1>2, <1>4, <1>5

LEMMA HandKeeps ==
  ASSUME PointsInv, NEW b \in P!Source, P!Hold(b)
  PROVE  hand' \in [held : SUBSET P!Source, fingers : SUBSET Finger]
BY DEF PointsInv, RestType, P!Hold

LEMMA FocusGoesKeeps ==
  ASSUME PointsInv, NEW views \in SUBSET mapped, P!FocusGoesTo(views)
  PROVE  Sound(seat', mapped, devices)
<1> DEFINE s == [seat EXCEPT !.focus = None]
<1>1. Sound(seat, mapped, devices) /\ mapped \subseteq View
  BY DEF PointsInv, RestType
<1>2. Sound(s, mapped, devices)
  BY <1>1, PointerFocusKeeps
<1>3. seat' \in IF views = {} THEN {s} ELSE {P!process_cursor_motion([s EXCEPT !.focus = v]) : v \in views}
  BY DEF P!FocusGoesTo
<1> HIDE DEF s
<1>4. ASSUME NEW v \in views PROVE Sound(P!process_cursor_motion([s EXCEPT !.focus = v]), mapped, devices)
  BY <1>1, <1>2, PointerFocusKeeps, MotionKeeps
<1> QED BY <1>2, <1>3, <1>4

LEMMA NextKeepsPoints == PointsInv /\ [P!Next]_P!vars => PointsInv'
<1> SUFFICES ASSUME PointsInv, [P!Next]_P!vars PROVE PointsInv'
  OBVIOUS
<1>0. /\ Sound(seat, mapped, devices) /\ pen \in PenType /\ PenIsOneThing /\ RestType
      /\ mapped \subseteq View /\ \A v \in View : v # None
  BY WindowsAreDistinct DEF PointsInv, RestType
<1>1. CASE P!Move
  BY <1>0, <1>1, MotionKeeps DEF P!Move, PointsInv, RestType, PenIsOneThing
<1>15. CASE P!Wheel
  BY <1>0, <1>15, PictureKeeps DEF P!Wheel, PointsInv, RestType, PenIsOneThing
<1>2. CASE P!PenAway
  BY <1>0, <1>2 DEF P!PenAway, PointsInv, RestType, PenIsOneThing, PenType
<1>3. CASE P!Lock \/ P!Unlock \/ P!remote_attach \/ P!remote_detach
  <2>1. seat' = seat \/ \E views \in SUBSET mapped : P!FocusGoesTo(views)
    BY <1>3 DEF P!Lock, P!Unlock, P!remote_attach, P!remote_detach, P!isolate, P!unisolate
  <2>2. Sound(seat', mapped, devices)
    BY <1>0, <2>1, FocusGoesKeeps
  <2> QED BY <1>0, <1>3, <2>2
          DEF P!Lock, P!Unlock, P!remote_attach, P!remote_detach, P!isolate, P!unisolate,
              PointsInv, RestType, PenIsOneThing
<1>4. ASSUME NEW d \in P!Device, P!Plug(d) PROVE PointsInv'
  <2>1. Sound(P!update_capabilities(seat, devices'), mapped, devices')
    BY <1>0 DEF Sound, SeatType, P!update_capabilities
  <2>2. pen' \in {pen, P!NoPen} /\ devices' \subseteq P!Device
    BY <1>0, <1>4 DEF P!Plug, RestType
  <2>3. pen' \in PenType /\ PenIsOneThing'
    BY <1>0, <2>2, NoPenIs DEF PenIsOneThing
  <2> QED BY <1>0, <1>4, <2>1, <2>2, <2>3 DEF P!Plug, PointsInv, RestType
<1>5. ASSUME NEW f \in Finger, P!TouchUp(f) PROVE PointsInv'
  BY <1>0, <1>5 DEF P!TouchUp, PointsInv, RestType, PenIsOneThing
<1>6. ASSUME NEW v \in View, P!RequestMove(v) PROVE PointsInv'
  <2>1. seat.counted # {} /\ v \in mapped /\ seat' = [seat EXCEPT !.grab = v]
    BY <1>6 DEF P!RequestMove, P!NativeRequestMove, P!begin_grab
  <2>2. Sound(seat', mapped, devices)
    BY <1>0, <2>1 DEF Sound, SeatType
  <2> QED BY <1>0, <1>6, <2>2 DEF P!RequestMove, PointsInv, RestType, PenIsOneThing
<1>7. ASSUME NEW v \in View, P!Map(v) PROVE PointsInv'
  <2>1. Sound(seat, mapped', devices)
    BY <1>0, <1>7 DEF P!Map, Sound
  <2>2. Sound(seat', mapped', devices)
    BY <1>7, <2>1, PointerFocusKeeps DEF P!Map
  <2> QED BY <1>0, <1>7, <2>2 DEF P!Map, PointsInv, RestType, PenIsOneThing
<1>8. ASSUME NEW v \in View, P!Unmap(v) PROVE PointsInv'
  <2>1. PICK next \in View \cup {None} : seat' = P!view_unmap(P!decor_destroy(seat, v), v, next)
    BY <1>0, <1>8 DEF P!Unmap
  <2>2. Sound(seat', mapped', devices)
    BY <1>0, <1>8, <2>1, GoneKeeps DEF P!Unmap
  <2>3. pen' \in {pen, [pen EXCEPT !.focus = None]} /\ points' \in [Finger -> View \cup {None}]
    BY <1>0, <1>8 DEF P!Unmap, RestType
  <2>4. pen' \in PenType /\ PenIsOneThing'
    BY <1>0, <2>3 DEF PenType, PenIsOneThing
  <2> QED BY <1>0, <1>8, <2>2, <2>3, <2>4 DEF P!Unmap, PointsInv, RestType
<1>9. ASSUME NEW spot \in P!Spot, P!PenMove(spot) PROVE PointsInv'
  <2> DEFINE to == P!tablet_tool_to_program(spot)
  <2>1. to.focus \in PenAware \cup {None} /\ (to.taken => ~pen.pointer) /\ (~to.taken => to.focus = None)
    BY ProgramsPen
  <2> HIDE DEF to
  <2>2. CASE remote
    BY <1>0, <1>9, <2>2 DEF P!PenMove, PointsInv, RestType, PenIsOneThing
  <2>3. CASE ~remote
    <3>1. /\ pen' = [pen EXCEPT !.focus = to.focus]
          /\ seat' = IF to.taken THEN P!Entering(seat, to) ELSE P!process_cursor_motion(seat)
      BY <1>9, <2>3 DEF P!PenMove, P!PenMoved, to
    <3>2. Sound(seat', mapped, devices)
      BY <1>0, <3>1, EnteringKeeps, MotionKeeps
    <3>3. pen' \in PenType /\ PenIsOneThing'
      BY <1>0, <2>1, <3>1 DEF PenType, PenIsOneThing
    <3> QED BY <1>0, <1>9, <3>2, <3>3 DEF P!PenMove, PointsInv, RestType
  <2> QED BY <2>2, <2>3
<1>10. ASSUME NEW spot \in P!Spot, P!PenTip(spot) PROVE PointsInv'
  <2>1. hand' \in [held : SUBSET P!Source, fingers : SUBSET Finger]
    BY <1>10, HandKeeps DEF P!PenTip, P!Source
  <2> QED BY <1>0, <1>10, <2>1, PenTipKeeps DEF P!PenTip, PointsInv, RestType
<1>11. ASSUME NEW spot \in P!Spot, P!PenBarrel(spot) PROVE PointsInv'
  <2>1. hand' \in [held : SUBSET P!Source, fingers : SUBSET Finger]
    BY <1>11, HandKeeps DEF P!PenBarrel, P!Source
  <2>2. Sound(seat', mapped, devices)
    BY <1>0, <1>11, ButtonKeeps DEF P!PenBarrel, P!Source
  <2> QED BY <1>0, <1>11, <2>1, <2>2 DEF P!PenBarrel, PointsInv, RestType, PenIsOneThing
<1>12. ASSUME NEW spot \in P!Spot, NEW b \in Button, P!MouseButton(b, spot) PROVE PointsInv'
  <2>1. hand' \in [held : SUBSET P!Source, fingers : SUBSET Finger]
    BY <1>12, HandKeeps DEF P!MouseButton, P!Source
  <2>2. Sound(seat', mapped, devices)
    BY <1>0, <1>12, ButtonKeeps, PictureKeeps DEF P!MouseButton, P!Source
  <2> QED BY <1>0, <1>12, <2>1, <2>2 DEF P!MouseButton, PointsInv, RestType, PenIsOneThing
<1>13. ASSUME NEW spot \in P!Spot, NEW f \in Finger, P!TouchDown(f, spot) PROVE PointsInv'
  <2>1. Sound(seat', mapped, devices)
    <3>1. Sound(P!cursor_hide_for_touch(seat), mapped, devices)
      BY <1>0, PictureKeeps
    <3>2. Sound(P!press_cursor_button(P!cursor_hide_for_touch(seat), spot), mapped, devices)
      BY <1>0, <3>1, PointerPressKeeps
    <3>3. seat' \in {seat, P!cursor_hide_for_touch(seat),
                     P!press_cursor_button(P!cursor_hide_for_touch(seat), spot)}
      BY <1>13 DEF P!TouchDown
    <3> QED BY <1>0, <3>1, <3>2, <3>3
  <2>2. /\ points' \in [Finger -> View \cup {None}]
        /\ hand' \in [held : SUBSET P!Source, fingers : SUBSET Finger]
    BY <1>0, <1>13, SpotIs DEF P!TouchDown, RestType
  <2> QED BY <1>0, <1>13, <2>1, <2>2 DEF P!TouchDown, PointsInv, RestType, PenIsOneThing
<1>14. CASE UNCHANGED P!vars
  BY <1>0, <1>14 DEF P!vars, PointsInv, RestType, PenIsOneThing
<1> QED BY <1>1, <1>2, <1>3, <1>4, <1>5, <1>6, <1>7, <1>8, <1>9, <1>10, <1>11, <1>12, <1>13, <1>14, <1>15 DEF P!Next

LEMMA PointsHold == P!Spec => []PointsInv
<1>1. P!Init => PointsInv
  <2> SUFFICES ASSUME P!Init PROVE PointsInv
    OBVIOUS
  <2>1. Sound(seat, mapped, devices)
    <3>1. seat \in SeatType
      BY DEF P!Init, SeatType
    <3>2. seat.grab = None /\ seat.press = None /\ seat.lastBar = None /\ seat.shown = TRUE
      BY DEF P!Init
    <3> QED BY <3>1, <3>2 DEF Sound
  <2>2. pen \in PenType /\ PenIsOneThing
    BY NoPenIs DEF P!Init, PenIsOneThing
  <2>3. hand \in [held : SUBSET P!Source, fingers : SUBSET Finger]
    BY DEF P!Init
  <2>4. RestType
    BY <2>3 DEF P!Init, RestType
  <2> QED BY <2>1, <2>2, <2>4 DEF PointsInv
<1> QED BY <1>1, NextKeepsPoints, PTL DEF P!Spec

----------------------------------------------------------------------------
(* The theorems.                                                           *)

(* A dragged window is there with a button counted as down, a press that   *)
(* is remembered names a bar that is there, and a pointer that is not      *)
(* drawn is noted as hidden by a finger, or nothing points: whatever is    *)
(* pressed, mapped, locked and unplugged meanwhile.                        *)
THEOREM SeatStaysSound == P!Spec => []SeatSound
BY PointsHold, PointsAreSound, PTL

(* A pen that is a mouse is not over a program as a pen.                   *)
THEOREM PenStaysOneThing == P!Spec => []PenIsOneThing
BY PointsHold, PointsAreSound, PTL

LEMMA StepKeepsStroke ==
  ASSUME PointsInv, [P!Next]_P!vars, pen.down, pen.focus # None, pen'.focus \notin {pen.focus, None}
  PROVE  ~pen'.down
<1>1. pen \in PenType
  BY DEF PointsInv
<1>2. ASSUME pen' \in {pen, P!NoPen, [pen EXCEPT !.focus = None]} PROVE FALSE
  BY <1>1, <1>2 DEF PenType, P!NoPen
<1>3. ASSUME NEW spot \in P!Spot, P!PenMove(spot) \/ P!PenTip(spot) PROVE FALSE
  <2> DEFINE to == P!tablet_tool_to_program(spot)
  <2>1. to.focus = pen.focus
    BY ProgramsPen
  <2> HIDE DEF to
  <2>2. pen' = pen \/ \E b : \/ pen' = [pen EXCEPT !.focus = to.focus]
                             \/ pen' = [pen EXCEPT !.focus = to.focus, !.down = b]
                             \/ pen' = [pen EXCEPT !.focus = to.focus, !.pointer = b]
    BY <1>3 DEF P!PenMove, P!PenTip, P!StrokeTip, P!PointerTip, to
  <2>3. pen'.focus = pen.focus
    BY <1>1, <2>1, <2>2 DEF PenType
  <2> QED BY <2>3
<1> QED BY <1>2, <1>3
        DEF P!Next, P!Move, P!Wheel, P!PenAway, P!Lock, P!Unlock, P!remote_attach, P!remote_detach, P!Plug,
            P!TouchUp, P!RequestMove, P!Map, P!Unmap, P!PenBarrel, P!MouseButton, P!TouchDown, P!vars

(* A stroke stays with the program it began on until it ends or the        *)
(* program's surface goes.                                                 *)
THEOREM StrokesStay == P!Spec => StrokeStays
<1>1. PointsInv /\ [P!Next]_P!vars
        => [pen.down /\ pen.focus # None /\ pen'.focus \notin {pen.focus, None} => ~pen'.down]_pen
  BY StepKeepsStroke DEF P!vars
<1> QED BY <1>1, PointsHold, PTL DEF P!Spec, StrokeStays

----------------------------------------------------------------------------
(* The pointer, and the mouse.                                             *)

Drawable(s) == s \in SeatType /\ (s.shown \/ s.hidden)

LEMMA MotionShows ==
  ASSUME NEW s, Drawable(s)
  PROVE  /\ P!cursor_show_after_touch(s) \in SeatType /\ P!cursor_show_after_touch(s).shown
         /\ P!process_cursor_motion(s) \in SeatType /\ P!process_cursor_motion(s).shown
<1> DEFINE t == P!cursor_show_after_touch(s)
<1>1. t \in SeatType /\ t.shown
  BY DEF Drawable, SeatType, P!cursor_show_after_touch
<1> HIDE DEF t
<1>2. P!grab_motion(t) \in SeatType /\ P!grab_motion(t).shown
  BY <1>1 DEF SeatType, P!grab_motion
<1> QED BY <1>1, <1>2 DEF P!process_cursor_motion, t

LEMMA FocusShows ==
  ASSUME NEW s \in SeatType, s.shown, NEW v \in View \cup {None}
  PROVE  P!seat_set_focus(s, v) \in SeatType /\ P!seat_set_focus(s, v).shown
<1>1. Drawable([s EXCEPT !.focus = v])
  BY DEF Drawable, SeatType
<1> QED BY <1>1, MotionShows DEF P!seat_set_focus

LEMMA ButtonShows ==
  ASSUME NEW s \in SeatType, s.shown, mapped \subseteq View, NEW b \in P!Source, NEW spot \in P!Spot,
         NEW pressed, NEW t \in P!seat_pointer_button(s, b, pressed, spot)
  PROVE  t.shown
<1>1. CASE pressed /\ spot.bar
  <2> DEFINE v == spot.view
             f == P!seat_set_focus(s, v)
  <2>1. f \in SeatType /\ f.shown
    BY SpotIs, FocusShows
  <2>2. t \in {[f EXCEPT !.press = v], [f EXCEPT !.press = v, !.lastBar = v],
             [f EXCEPT !.press = None, !.lastBar = None]}
    BY <1>1 DEF P!seat_pointer_button, P!BarPressed
  <2> HIDE DEF f, v
  <2> QED BY <2>1, <2>2 DEF SeatType
<1>2. CASE pressed /\ ~spot.bar
  <2> DEFINE u == [s EXCEPT !.counted = @ \cup {b}]
  <2>1. u \in SeatType /\ u.shown
    BY DEF SeatType
  <2>2. t = P!seat_set_focus(u, P!desktop_view_at(spot))
    BY <1>2 DEF P!seat_pointer_button, P!WindowPressed, P!press_cursor_button
  <2> HIDE DEF u
  <2> QED BY <2>1, <2>2, SpotIs, FocusShows
<1>3. CASE ~pressed
  <2>1. t \in {[s EXCEPT !.press = None], [s EXCEPT !.grab = None, !.counted = @ \ {b}]}
    BY <1>3 DEF P!seat_pointer_button, P!BarReleased, P!WindowReleased
  <2> QED BY <2>1 DEF SeatType
<1> QED BY <1>1, <1>2, <1>3

LEMMA PenMotionShows ==
  ASSUME NEW spot \in P!Spot, Drawable(seat), ~P!WithinProgram(spot)
  PROVE  P!PenMoved(spot).shown
<1> DEFINE to == P!tablet_tool_to_program(spot)
<1>1. CASE to.taken
  <2>1. to.focus \notin {None, pen.focus}
    BY <1>1, SpotIs, WindowsAreDistinct DEF P!WithinProgram, P!tablet_tool_to_program
  <2> HIDE DEF to
  <2>2. P!Entering(seat, to) = [seat EXCEPT !.shown = TRUE]
    BY <2>1 DEF P!Entering
  <2> QED BY <1>1, <2>2 DEF P!PenMoved, Drawable, SeatType, to
<1>2. CASE ~to.taken
  BY <1>2, MotionShows DEF P!PenMoved
<1> QED BY <1>1, <1>2

(* The mouse's buttons are pressed and let go by nothing but the mouse.    *)
LEMMA OnlyMousePresses ==
  ASSUME PointsInv, [P!Next]_P!vars, hand'.held \cap Button # hand.held \cap Button
  PROVE  \E b \in Button, spot \in P!Spot : P!MouseButton(b, spot)
<1>1. hand \in [held : SUBSET P!Source, fingers : SUBSET Finger]
  BY DEF PointsInv, RestType
<1>2. ASSUME NEW b \in {"tip", "barrel"}, P!Hold(b) PROVE FALSE
  <2>1. hand'.held \in {hand.held \cup {b}, hand.held \ {b}} /\ b \notin Button
    BY <1>1, <1>2, PenIsNoButton DEF P!Hold
  <2> QED BY <2>1
<1>3. ASSUME hand'.held = hand.held PROVE FALSE
  BY <1>3
<1>4. ASSUME NEW spot \in P!Spot, P!PenTip(spot) \/ P!PenBarrel(spot) PROVE FALSE
  BY <1>2, <1>4 DEF P!PenTip, P!PenBarrel
<1>5. ASSUME NEW f, P!TouchUp(f) \/ \E spot \in P!Spot : P!TouchDown(f, spot) PROVE FALSE
  BY <1>1, <1>3, <1>5 DEF P!TouchUp, P!TouchDown
<1> QED BY <1>3, <1>4, <1>5
        DEF P!Next, P!Move, P!Wheel, P!PenAway, P!PenMove, P!Lock, P!Unlock, P!remote_attach, P!remote_detach,
            P!Plug, P!RequestMove, P!Map, P!Unmap, P!vars

(* Once the mouse has moved, pressed, let go or scrolled, or a pen has     *)
(* moved to where it was not, the pointer is drawn, whatever hid it.       *)
THEOREM MotionShowsPointer == P!Spec => P!PointerShows
<1>1. PointsInv /\ [P!Next]_P!vars => [seat'.shown \/ ~P!Pointed]_P!vars
  <2> SUFFICES ASSUME PointsInv, [P!Next]_P!vars, P!Pointed PROVE seat'.shown
    OBVIOUS
  <2>1. devices # {} => Drawable(seat)
    BY DEF PointsInv, Sound, Drawable
  <2>2. CASE P!Move \/ P!Wheel
    BY <2>1, <2>2, MotionShows DEF P!Move, P!Wheel
  <2>3. CASE ~remote /\ hand'.held \cap Button # hand.held \cap Button
    <3>1. PICK b \in Button, spot \in P!Spot : P!MouseButton(b, spot)
      BY <2>3, OnlyMousePresses
    <3>2. /\ "mouse" \in devices
          /\ seat' \in P!seat_pointer_button(P!cursor_show_after_touch(seat), b, P!Pressing(b), spot)
      BY <2>3, <3>1 DEF P!MouseButton
    <3> QED BY <2>1, <3>2, MotionShows, ButtonShows DEF PointsInv, RestType, P!Source
  <2>4. CASE ~remote /\ \E spot \in P!Spot : P!PenMove(spot) /\ ~P!WithinProgram(spot)
    BY <2>1, <2>4, PenMotionShows DEF P!PenMove
  <2> QED BY <2>2, <2>3, <2>4 DEF P!Pointed
<1> QED BY <1>1, PointsHold, PTL DEF P!Spec, P!PointerShows
=============================================================================
