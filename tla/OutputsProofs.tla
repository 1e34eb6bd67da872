---------------------------- MODULE OutputsProofs ----------------------------
(***************************************************************************)
(* What holds of the screens and of their copies for any outputs, whichever *)
(* commits fail: no screen is left dark that input cannot wake, the one     *)
(* plugged in before comes back, and the copies stay balanced, bound to     *)
(* what is there, and black under a lock.                                   *)
(***************************************************************************)
EXTENDS Outputs, FiniteSetTheorems, SequenceTheorems, TLAPS

(* A commit is taken by outputs that were asked; those that may not fail    *)
(* take it.                                                                 *)
LEMMA CommitsAre ==
  ASSUME NEW set, NEW took \in Commits(set)
  PROVE  took \subseteq set /\ set \ Flaky \subseteq took
BY DEF Commits

(* The newest output goes on, and the one before off or not.                *)
LEMMA PlugKeeps ==
  ASSUME DarkIsWakeable, NEW o \in Output, Plug(o)
  PROVE  DarkIsWakeable'
<1>1. PICK before \in IF output_mode = "last" /\ outputs # <<>>
                        THEN output_disable(Head(outputs))
                        ELSE {[on |-> enabled, in |-> layout]} :
        \E lit \in Commits({o}) : enabled' = before.on \cup lit /\ layout' = before.in \cup lit
  BY DEF Plug
<1>2. PICK lit \in Commits({o}) : enabled' = before.on \cup lit /\ layout' = before.in \cup lit
  BY <1>1
<1>3. before.in \ before.on \subseteq layout \ enabled
  <2>1. CASE output_mode = "last" /\ outputs # <<>>
    <3>1. PICK gone \in Commits({Head(outputs)} \cap enabled) :
            before = [on |-> enabled \ gone,
                      in |-> IF Head(outputs) \in enabled THEN layout \ {Head(outputs)} ELSE layout]
      BY <1>1, <2>1 DEF output_disable
    <3>2. gone \subseteq {Head(outputs)} \cap enabled
      BY <3>1, CommitsAre
    <3> QED BY <3>1, <3>2
  <2>2. CASE ~(output_mode = "last" /\ outputs # <<>>)
    BY <1>1, <2>2
  <2> QED BY <2>1, <2>2
<1>4. powered_off' = powered_off
  BY DEF Plug
<1> QED BY <1>2, <1>3, <1>4 DEF DarkIsWakeable

LEMMA UnplugKeeps ==
  ASSUME DarkIsWakeable, NEW o \in Output, Unplug(o)
  PROVE  DarkIsWakeable'
<1>1. PICK lit : /\ enabled' = (enabled \ {o}) \cup lit /\ layout' = (layout \ {o}) \cup lit
                 /\ powered_off' = powered_off \ {o}
  BY DEF Unplug
<1> QED BY <1>1 DEF DarkIsWakeable

LEMMA PowerKeeps ==
  ASSUME DarkIsWakeable, NEW o \in Output, NEW on \in BOOLEAN, SetPower(o, on)
  PROVE  DarkIsWakeable'
<1>1. PICK took \in Commits({o}) :
        /\ enabled' = IF on THEN enabled \cup took ELSE enabled \ took
        /\ powered_off' = IF on THEN powered_off \ took ELSE powered_off \cup took
  BY DEF SetPower, output_set_power
<1>2. layout' = layout
  BY DEF SetPower
<1> QED BY <1>1, <1>2 DEF DarkIsWakeable

LEMMA NextKeepsWakeable == DarkIsWakeable /\ [Next]_vars => DarkIsWakeable'
<1> SUFFICES ASSUME DarkIsWakeable, [Next]_vars PROVE DarkIsWakeable'
  OBVIOUS
<1>1. ASSUME NEW o \in Output, NewOutput(o) PROVE DarkIsWakeable'
  BY <1>1, PlugKeeps DEF NewOutput
<1>2. ASSUME NEW o \in Output, OutputGone(o) PROVE DarkIsWakeable'
  BY <1>2, UnplugKeeps DEF OutputGone
<1>3. ASSUME RemoteAttach PROVE DarkIsWakeable'
  BY <1>3, PlugKeeps, RemoteIsOutput DEF RemoteAttach
<1>4. ASSUME RemoteDetach PROVE DarkIsWakeable'
  BY <1>4, UnplugKeeps, RemoteIsOutput DEF RemoteDetach
<1>5. ASSUME NEW on, NEW off, NEW p, ConfigApply(on, off, p) PROVE DarkIsWakeable'
  BY <1>5 DEF ConfigApply, Configured, DarkIsWakeable
<1>6. ASSUME Activity PROVE DarkIsWakeable'
  BY <1>6 DEF Activity, DarkIsWakeable
<1>7. ASSUME UNCHANGED screens PROVE DarkIsWakeable'
  BY <1>7 DEF screens, DarkIsWakeable
<1>8. ASSUME NEW f, NEW o, Frame(o) \/ ChangeMode \/ Capture(f, o) \/ FrameCopy(f) \/ FrameDestroy(f) PROVE DarkIsWakeable'
  BY <1>7, <1>8 DEF Frame, ChangeMode, Capture, FrameCopy, FrameDestroy
<1>9. ASSUME UNCHANGED vars PROVE DarkIsWakeable'
  BY <1>7, <1>9 DEF vars
<1> QED BY <1>1, <1>2, <1>3, <1>4, <1>5, <1>6, <1>8, <1>9, PowerKeeps DEF Next

(* A screen that is dark in the layout can be woken, whatever was plugged   *)
(* in and out, configured, turned off and on, and failed.                   *)
THEOREM DarkStaysWakeable == Spec => []DarkIsWakeable
<1>1. Init => DarkIsWakeable
  BY DEF Init, DarkIsWakeable
<1> QED BY <1>1, NextKeepsWakeable, PTL DEF Spec

----------------------------------------------------------------------------
(* Copies.                                                                  *)

LEMMA NextKeepsSecret == NoSecretCopied /\ [Next]_vars => NoSecretCopied'
<1> SUFFICES ASSUME NoSecretCopied, [Next]_vars PROVE NoSecretCopied'
  OBVIOUS
<1>1. ASSUME pictured' = {} PROVE NoSecretCopied'
  BY <1>1 DEF NoSecretCopied
<1>2. ASSUME NEW o \in Output, Frame(o) PROVE NoSecretCopied'
  BY <1>2 DEF Frame, frame_handle_commit, fill, NoSecretCopied
<1>3. ASSUME UNCHANGED vars PROVE NoSecretCopied'
  BY <1>3 DEF vars, NoSecretCopied
<1> QED BY <1>1, <1>2, <1>3
        DEF Next, NewOutput, OutputGone, SetPower, ConfigApply, RemoteAttach, RemoteDetach, Activity, ChangeMode,
            Capture, FrameCopy, FrameDestroy

----------------------------------------------------------------------------
(* The list of outputs.                                                     *)

Once(list) == \A i, j \in DOMAIN list : list[i] = list[j] => i = j

(* One output less.                                                         *)
LEMMA WithoutIs ==
  ASSUME outputs \in Seq(Output), Once(outputs), NEW o \in Present
  PROVE  /\ Without(o) \in Seq(Output) /\ Once(Without(o))
         /\ ToSet(Without(o)) = Present \ {o}
<1> DEFINE at == CHOOSE i \in DOMAIN outputs : outputs[i] = o
           front == SubSeq(outputs, 1, at - 1)
           back == SubSeq(outputs, at + 1, Len(outputs))
           left == front \o back
           n == Len(outputs)
<1>1. n \in Nat /\ at \in 1..n /\ outputs[at] = o /\ DOMAIN outputs = 1..n
  BY DEF Present, ToSet
<1>2. Without(o) = left
  BY DEF Without, RemoveAt
<1>3. \A i \in 1..n : outputs[i] \in Output
  BY <1>1
<1> HIDE DEF at, n
<1>4. /\ front \in Seq(Output) /\ Len(front) = at - 1
      /\ \A i \in 1..at - 1 : front[i] = outputs[i]
  BY <1>1, <1>3, SubSeqProperties
<1>5. /\ back \in Seq(Output) /\ Len(back) = n - at
      /\ \A i \in 1..n - at : back[i] = outputs[at + i]
  <2>1. \A i \in at + 1..n : outputs[i] \in Output
    BY <1>1, <1>3
  <2>2. /\ back \in Seq(Output) /\ Len(back) = IF at + 1 <= n THEN n - (at + 1) + 1 ELSE 0
        /\ \A i \in 1..n - (at + 1) + 1 : back[i] = outputs[at + 1 + i - 1]
    BY <1>1, <2>1, SubSeqProperties DEF n
  <2> HIDE DEF back
  <2>3. \A i \in 1..n - at : at + 1 + i - 1 = at + i
    BY <1>1
  <2> QED BY <1>1, <2>2, <2>3
<1> HIDE DEF front, back
<1>6. /\ left \in Seq(Output) /\ Len(left) = Len(front) + Len(back)
      /\ \A i \in 1..Len(front) + Len(back) : left[i] = IF i <= Len(front) THEN front[i] ELSE back[i - Len(front)]
  BY <1>4, <1>5, ConcatProperties
<1> HIDE DEF left
<1>7. DOMAIN left = 1..n - 1
  BY <1>1, <1>4, <1>5, <1>6
<1>8. ASSUME NEW i \in 1..n - 1 PROVE left[i] = IF i < at THEN outputs[i] ELSE outputs[i + 1]
  <2>1. i \in 1..Len(front) + Len(back)
    BY <1>1, <1>4, <1>5
  <2>2. CASE i < at
    BY <1>1, <1>4, <1>6, <2>1, <2>2
  <2>3. CASE ~(i < at)
    <3>1. i - (at - 1) \in 1..n - at /\ at + (i - (at - 1)) = i + 1 /\ ~(i <= at - 1)
      BY <1>1, <2>3
    <3> QED BY <1>4, <1>5, <1>6, <2>1, <2>3, <3>1
  <2> QED BY <2>2, <2>3
<1>9. \A i \in 1..n, j \in 1..n : outputs[i] = outputs[j] => i = j
  BY <1>1 DEF Once
<1>10. Once(left)
  <2> SUFFICES ASSUME NEW i \in 1..n - 1, NEW j \in 1..n - 1, left[i] = left[j] PROVE i = j
    BY <1>7 DEF Once
  <2>1. i \in 1..n /\ i + 1 \in 1..n /\ j \in 1..n /\ j + 1 \in 1..n
    BY <1>1
  <2> QED BY <1>1, <1>8, <1>9, <2>1
<1>11. ASSUME NEW i \in 1..n - 1 PROVE left[i] \in Present \ {o}
  <2>1. i \in 1..n /\ i + 1 \in 1..n
    BY <1>1
  <2>2. left[i] \in Present
    BY <1>1, <1>8, <2>1 DEF Present, ToSet
  <2>3. left[i] # outputs[at]
    BY <1>1, <1>8, <1>9, <2>1
  <2> QED BY <1>1, <2>2, <2>3
<1>12. ASSUME NEW i \in 1..n, outputs[i] # o PROVE outputs[i] \in ToSet(left)
  <2>1. CASE i < at
    BY <1>1, <1>7, <1>8, <2>1 DEF ToSet
  <2>2. CASE i > at
    <3>1. i - 1 \in 1..n - 1 /\ ~(i - 1 < at) /\ (i - 1) + 1 = i
      BY <1>1, <2>2
    <3>2. left[i - 1] = outputs[i]
      BY <1>8, <3>1
    <3> QED BY <1>7, <3>1, <3>2 DEF ToSet
  <2> QED BY <1>1, <1>12, <2>1, <2>2
<1>13. ToSet(left) = Present \ {o}
  BY <1>1, <1>7, <1>11, <1>12 DEF ToSet, Present
<1> QED BY <1>2, <1>6, <1>10, <1>13

(* One more.                                                                *)
LEMMA OneMore ==
  ASSUME outputs \in Seq(Output), Once(outputs), NEW o \in Output \ Present
  PROVE  /\ <<o>> \o outputs \in Seq(Output) /\ Once(<<o>> \o outputs)
         /\ ToSet(<<o>> \o outputs) = Present \cup {o}
<1> DEFINE one == <<o>>
           longer == one \o outputs
           n == Len(outputs)
<1>1. one \in Seq(Output) /\ Len(one) = 1 /\ one[1] = o
  OBVIOUS
<1>2. n \in Nat /\ DOMAIN outputs = 1..n
  OBVIOUS
<1> HIDE DEF one
<1>3. /\ longer \in Seq(Output) /\ Len(longer) = 1 + n
      /\ \A i \in 1..1 + n : longer[i] = IF i = 1 THEN o ELSE outputs[i - 1]
  <2>1. /\ longer \in Seq(Output) /\ Len(longer) = Len(one) + n
        /\ \A i \in 1..Len(one) + n : longer[i] = IF i <= Len(one) THEN one[i] ELSE outputs[i - Len(one)]
    BY <1>1, ConcatProperties
  <2> HIDE DEF longer, n
  <2> QED BY <1>1, <1>2, <2>1
<1> HIDE DEF longer, n
<1>4. DOMAIN longer = 1..1 + n
  BY <1>2, <1>3
<1>5. ASSUME NEW i \in 1..n PROVE outputs[i] \in Present /\ outputs[i] # o /\ outputs[i] \in ToSet(longer)
  <2>1. outputs[i] \in Present
    BY <1>2 DEF Present, ToSet
  <2>2. i + 1 \in 1..1 + n /\ i + 1 # 1 /\ (i + 1) - 1 = i
    BY <1>2
  <2>3. longer[i + 1] = outputs[i]
    BY <1>3, <2>2
  <2> QED BY <1>4, <2>1, <2>2, <2>3 DEF ToSet
<1>6. ASSUME NEW i \in 1..1 + n, i # 1 PROVE i - 1 \in 1..n /\ longer[i] = outputs[i - 1]
  BY <1>2, <1>3, <1>6
<1>7. 1 \in 1..1 + n /\ longer[1] = o
  BY <1>2, <1>3
<1>8. Once(longer)
  <2> SUFFICES ASSUME NEW i \in 1..1 + n, NEW j \in 1..1 + n, longer[i] = longer[j] PROVE i = j
    BY <1>4 DEF Once
  <2>1. CASE i = 1 \/ j = 1
    BY <1>5, <1>6, <1>7, <2>1
  <2>2. CASE i # 1 /\ j # 1
    <3>1. i - 1 \in 1..n /\ j - 1 \in 1..n /\ outputs[i - 1] = outputs[j - 1]
      BY <1>6, <2>2
    <3>2. i - 1 = j - 1
      BY <1>2, <3>1 DEF Once
    <3> QED BY <1>2, <3>2
  <2> QED BY <2>1, <2>2
<1>9. ToSet(longer) = Present \cup {o}
  <2>1. \A i \in 1..1 + n : longer[i] \in Present \cup {o}
    BY <1>5, <1>6, <1>7
  <2>2. o \in ToSet(longer)
    BY <1>4, <1>7 DEF ToSet
  <2> QED BY <1>2, <1>4, <1>5, <2>1, <2>2 DEF ToSet, Present
<1> QED BY <1>3, <1>8, <1>9 DEF longer, one

(* A list without repetitions is as long as the set of what is on it.       *)
LEMMA OnceCounts ==
  ASSUME outputs \in Seq(Output), Once(outputs)
  PROVE  Len(outputs) = Cardinality(Present)
<1>1. Len(outputs) \in Nat /\ DOMAIN outputs = 1..Len(outputs)
  OBVIOUS
<1>2. outputs \in [1..Len(outputs) -> Present]
  BY <1>1 DEF Present, ToSet
<1>3. outputs \in Bijection(1..Len(outputs), Present)
  BY <1>1, <1>2 DEF Once, Present, ToSet, Bijection, Injection, Surjection, IsInjective
<1>4. ExistsBijection(1..Len(outputs), Present)
  BY <1>3 DEF ExistsBijection
<1> QED BY <1>1, <1>4, FS_CountingElements

----------------------------------------------------------------------------
(* The whole invariant: the list has each output once, the remote one while *)
(* there is a remote session; what is on, placed or turned off is there;    *)
(* and each output counts the copies that wait for it.                      *)
ScreensInv ==
  /\ outputs \in Seq(Output) /\ Once(outputs)
  /\ remote \in BOOLEAN /\ (remote <=> Remote \in Present)
  /\ enabled \subseteq Present /\ layout \subseteq Present /\ powered_off \subseteq Present

CountsInv ==
  /\ bound \in [Copy -> Output \cup {NoOutput}] /\ waiting \subseteq Copy
  /\ locks \in [Output -> Int]
  /\ \A o \in Output : locks[o] = Cardinality(WaitingOn(o))
  /\ CopiesBound

TagsInv ==
  /\ output_mode \in {"extend", "last"} /\ mode \in {"open", "locked", "secure"}
  /\ pictured \subseteq Copy

Inv == ScreensInv /\ CountsInv /\ TagsInv /\ NoSecretCopied

LEMMA InvIsSound == Inv => CopiesSound
<1> SUFFICES ASSUME Inv PROVE CopiesSound
  OBVIOUS
<1> USE DEF Inv, ScreensInv, CountsInv, TagsInv
<1>1. Len(outputs) = Cardinality(Present)
  BY OnceCounts
<1>2. ASSUME NEW o \in Output PROVE locks[o] \in 0..Cardinality(Copy)
  <2>1. WaitingOn(o) \in SUBSET Copy
    BY DEF WaitingOn
  <2>2. /\ Cardinality(WaitingOn(o)) \in Nat /\ Cardinality(Copy) \in Nat
        /\ Cardinality(WaitingOn(o)) <= Cardinality(Copy)
    BY <2>1, CopiesAreFinite, FS_Subset, FS_CardinalityType
  <2> QED BY <2>2
<1>3. TypeOK
  BY <1>1, <1>2 DEF TypeOK
<1>4. LocksBalanced
  <2>1. Present \subseteq Output
    BY DEF Present, ToSet
  <2> QED BY <2>1 DEF LocksBalanced
<1> QED BY <1>3, <1>4 DEF CopiesSound

(* The count of an output goes down by the copies that stop waiting for it, *)
(* and no other's does.                                                     *)
LEMMA StopKeepsCounts ==
  ASSUME CountsInv, NEW o \in Output, NEW set, set \subseteq WaitingOn(o), frame_stop(o, set)
  PROVE  /\ waiting' = waiting \ set /\ locks' \in [Output -> Int]
         /\ \A p \in Output : locks'[p] = Cardinality({f \in waiting' : bound[f] = p})
<1> USE DEF CountsInv
<1>1. waiting' = waiting \ set /\ locks' = [locks EXCEPT ![o] = @ - Cardinality(set)]
  <2>1. set \cap waiting = set
    BY DEF WaitingOn
  <2> QED BY <2>1 DEF frame_stop
<1>2. IsFiniteSet(WaitingOn(o)) /\ IsFiniteSet(set)
  <2>1. WaitingOn(o) \in SUBSET Copy /\ set \in SUBSET Copy
    BY DEF WaitingOn
  <2> QED BY <2>1, CopiesAreFinite, FS_Subset
<1>3. Cardinality(WaitingOn(o)) \in Nat /\ Cardinality(set) \in Nat
  BY <1>2, FS_CardinalityType
<1>4. Cardinality(WaitingOn(o) \ set) = Cardinality(WaitingOn(o)) - Cardinality(set)
  <2> DEFINE all == WaitingOn(o)
  <2>1. IsFiniteSet(all) /\ all \cap set = set
    BY <1>2
  <2> HIDE DEF all
  <2>2. Cardinality(all \ set) = Cardinality(all) - Cardinality(all \cap set)
    BY <2>1, FS_Difference
  <2>3. Cardinality(all \ set) = Cardinality(all) - Cardinality(set)
    BY <2>1, <2>2
  <2> QED BY <2>3 DEF all
<1>5. ASSUME NEW p \in Output PROVE locks'[p] = Cardinality({f \in waiting' : bound[f] = p})
  <2>1. CASE p = o
    <3>1. {f \in waiting' : bound[f] = o} = WaitingOn(o) \ set
      BY <1>1 DEF WaitingOn
    <3> QED BY <1>1, <1>4, <2>1, <3>1
  <2>2. CASE p # o
    <3>1. {f \in waiting' : bound[f] = p} = WaitingOn(p)
      BY <1>1, <2>2 DEF WaitingOn
    <3> QED BY <1>1, <2>2, <3>1
  <2> QED BY <2>1, <2>2
<1> QED BY <1>1, <1>3, <1>5

(* Plugging one in: with its place on the list, in the layout if it is on.  *)
LEMMA PlugKeepsScreens ==
  ASSUME ScreensInv, NEW o \in Output \ Present, Plug(o)
  PROVE  /\ outputs' \in Seq(Output) /\ Once(outputs')
         /\ Present' = Present \cup {o}
         /\ enabled' \subseteq Present' /\ layout' \subseteq Present' /\ powered_off' \subseteq Present'
<1> USE DEF ScreensInv
<1>1. outputs' \in Seq(Output) /\ Once(outputs') /\ Present' = Present \cup {o}
  BY OneMore DEF Plug, Present
<1>2. PICK before \in IF output_mode = "last" /\ outputs # <<>>
                        THEN output_disable(Head(outputs))
                        ELSE {[on |-> enabled, in |-> layout]} :
        \E lit \in Commits({o}) : enabled' = before.on \cup lit /\ layout' = before.in \cup lit
  BY DEF Plug
<1>3. PICK lit \in Commits({o}) : enabled' = before.on \cup lit /\ layout' = before.in \cup lit
  BY <1>2
<1>4. before.on \subseteq enabled /\ before.in \subseteq layout
  BY <1>2, CommitsAre DEF output_disable
<1>5. lit \subseteq {o}
  BY <1>3, CommitsAre
<1>6. powered_off' = powered_off
  BY DEF Plug
<1> QED BY <1>1, <1>3, <1>4, <1>5, <1>6

(* Unplugging one: it leaves the list, and everything else with it.         *)
LEMMA UnplugKeepsScreens ==
  ASSUME ScreensInv, NEW o \in Present, Unplug(o)
  PROVE  /\ outputs' \in Seq(Output) /\ Once(outputs')
         /\ Present' = Present \ {o}
         /\ enabled' \subseteq Present' /\ layout' \subseteq Present' /\ powered_off' \subseteq Present'
<1> USE DEF ScreensInv
<1> DEFINE left == Without(o)
<1>1. left \in Seq(Output) /\ Once(left) /\ ToSet(left) = Present \ {o}
  BY WithoutIs
<1>2. outputs' = left
  BY DEF Unplug
<1> HIDE DEF left
<1>3. Present' = Present \ {o}
  BY <1>1, <1>2 DEF Present
<1>4. PICK lit \in IF output_mode = "last" /\ left # <<>> THEN Commits({Head(left)}) ELSE {{}} :
        enabled' = (enabled \ {o}) \cup lit /\ layout' = (layout \ {o}) \cup lit
  BY DEF Unplug, left
<1>5. lit \subseteq ToSet(left)
  <2>1. CASE output_mode = "last" /\ left # <<>>
    <3>1. lit \subseteq {Head(left)}
      BY <1>4, <2>1, CommitsAre
    <3>2. 1 \in DOMAIN left /\ Head(left) = left[1]
      BY <1>1, <2>1
    <3>3. Head(left) \in ToSet(left)
      BY <3>2 DEF ToSet
    <3> QED BY <3>1, <3>3
  <2>2. CASE ~(output_mode = "last" /\ left # <<>>)
    BY <1>4, <2>2
  <2> QED BY <2>1, <2>2
<1>6. powered_off' = powered_off \ {o}
  BY DEF Unplug
<1> QED BY <1>1, <1>2, <1>3, <1>4, <1>5, <1>6

(* ... and no copy is of it any more.                                       *)
LEMMA UnplugKeepsCounts ==
  ASSUME CountsInv, NEW o \in Output, Unplug(o), Present' = Present \ {o}
  PROVE  CountsInv'
<1> USE DEF CountsInv
<1>1. /\ frame_stop(o, WaitingOn(o))
      /\ bound' = [f \in Copy |-> IF bound[f] = o THEN NoOutput ELSE bound[f]]
  BY DEF Unplug, frame_handle_output_destroy
<1>2. /\ waiting' = waiting \ WaitingOn(o) /\ locks' \in [Output -> Int]
      /\ \A p \in Output : locks'[p] = Cardinality({f \in waiting' : bound[f] = p})
  BY <1>1, StopKeepsCounts
<1>3. ASSUME NEW p \in Output PROVE locks'[p] = Cardinality(WaitingOn(p)')
  <2>1. {f \in waiting' : bound[f] = p} = {f \in waiting' : bound'[f] = p}
    BY <1>1, <1>2, RemoteIsOutput DEF WaitingOn
  <2> QED BY <1>2, <2>1 DEF WaitingOn
<1>4. CopiesBound'
  BY <1>1, <1>2 DEF CopiesBound, WaitingOn
<1> QED BY <1>1, <1>2, <1>3, <1>4

LEMMA PlugKeepsCounts ==
  ASSUME CountsInv, Present \subseteq Present', UNCHANGED copies
  PROVE  CountsInv'
BY DEF CountsInv, copies, CopiesBound, WaitingOn

(* The steps of a copy.                                                     *)
LEMMA CaptureKeeps ==
  ASSUME CountsInv, NEW f \in Copy, NEW o \in Output, Capture(f, o)
  PROVE  CountsInv'
<1> USE DEF CountsInv
<1>1. /\ bound' = [bound EXCEPT ![f] = IF o \in enabled THEN o ELSE NoOutput]
      /\ UNCHANGED <<waiting, locks, outputs>> /\ f \notin waiting /\ o \in Present
  BY DEF Capture, screens
<1>2. ASSUME NEW p \in Output PROVE WaitingOn(p)' = WaitingOn(p)
  BY <1>1 DEF WaitingOn
<1>3. CopiesBound'
  BY <1>1 DEF CopiesBound, Present
<1> QED BY <1>1, <1>2, <1>3

LEMMA FrameCopyKeeps ==
  ASSUME CountsInv, NEW f \in Copy, FrameCopy(f)
  PROVE  CountsInv'
<1> USE DEF CountsInv
<1>1. f \notin waiting /\ UNCHANGED <<outputs, bound>>
  BY DEF FrameCopy, screens
<1>2. CASE bound[f] = NoOutput
  BY <1>1, <1>2, PlugKeepsCounts DEF FrameCopy, copies, Present
<1>3. CASE bound[f] # NoOutput
  <2>0. PICK o \in Output : o = bound[f]
    BY <1>3
  <2>1. waiting' = waiting \cup {f} /\ locks' = [locks EXCEPT ![o] = @ + 1]
    BY <1>3, <2>0 DEF FrameCopy
  <2>2. ASSUME NEW p \in Output PROVE locks'[p] = Cardinality(WaitingOn(p)')
    <3>1. CASE p = o
      <4>1. WaitingOn(o)' = WaitingOn(o) \cup {f} /\ f \notin WaitingOn(o)
        BY <1>1, <2>0, <2>1 DEF WaitingOn
      <4>2. IsFiniteSet(WaitingOn(o))
        <5>1. WaitingOn(o) \in SUBSET Copy
          BY DEF WaitingOn
        <5> QED BY <5>1, CopiesAreFinite, FS_Subset
      <4>3. Cardinality(WaitingOn(o) \cup {f}) = Cardinality(WaitingOn(o)) + 1
        BY <4>1, <4>2, FS_AddElement
      <4>4. locks'[o] = locks[o] + 1
        BY <2>1
      <4>5. locks[o] = Cardinality(WaitingOn(o))
        BY <2>1
      <4> QED BY <3>1, <4>1, <4>3, <4>4, <4>5
    <3>2. CASE p # o
      <4>1. WaitingOn(p)' = WaitingOn(p)
        BY <1>1, <2>0, <2>1, <3>2 DEF WaitingOn
      <4> QED BY <2>1, <3>2, <4>1
    <3> QED BY <3>1, <3>2
  <2>3. CopiesBound'
    BY <1>1, <1>3, <2>0, <2>1 DEF CopiesBound, Present
  <2> QED BY <1>1, <2>1, <2>2, <2>3
<1> QED BY <1>2, <1>3

LEMMA FrameDestroyKeeps ==
  ASSUME CountsInv, NEW f \in Copy, FrameDestroy(f)
  PROVE  CountsInv'
<1> USE DEF CountsInv
<1> DEFINE o == bound[f]
           set == {f} \cap waiting
<1>1. /\ o \in Output /\ bound' = [bound EXCEPT ![f] = NoOutput] /\ UNCHANGED outputs
      /\ frame_stop(o, {f})
  BY DEF FrameDestroy, screens
<1>2. set \subseteq WaitingOn(o)
  BY DEF WaitingOn
<1>3. frame_stop(o, set)
  <2>1. waiting \ set = waiting \ {f} /\ set \cap waiting = {f} \cap waiting
    OBVIOUS
  <2> QED BY <1>1, <2>1 DEF frame_stop
<1>4. /\ waiting' = waiting \ set /\ locks' \in [Output -> Int]
      /\ \A p \in Output : locks'[p] = Cardinality({g \in waiting' : bound[g] = p})
  BY <1>1, <1>2, <1>3, StopKeepsCounts
<1>5. ASSUME NEW p \in Output PROVE locks'[p] = Cardinality(WaitingOn(p)')
  <2>1. {g \in waiting' : bound[g] = p} = {g \in waiting' : bound'[g] = p}
    BY <1>1, <1>4
  <2> QED BY <1>4, <2>1 DEF WaitingOn
<1>6. CopiesBound'
  BY <1>1, <1>4 DEF CopiesBound, Present
<1> QED BY <1>1, <1>4, <1>5, <1>6

LEMMA FrameKeeps ==
  ASSUME CountsInv, NEW o \in Output, Frame(o)
  PROVE  CountsInv'
<1> USE DEF CountsInv
<1>1. frame_stop(o, WaitingOn(o)) /\ UNCHANGED <<outputs, bound>>
  BY DEF Frame, frame_handle_commit, screens
<1>2. /\ waiting' = waiting \ WaitingOn(o) /\ locks' \in [Output -> Int]
      /\ \A p \in Output : locks'[p] = Cardinality({f \in waiting' : bound[f] = p})
  BY <1>1, StopKeepsCounts
<1>3. CopiesBound'
  BY <1>1, <1>2 DEF CopiesBound, Present
<1> QED BY <1>1, <1>2, <1>3 DEF WaitingOn

----------------------------------------------------------------------------
(* Every step keeps the invariant.                                          *)
LEMMA NextKeepsInv == Inv /\ [Next]_vars => Inv'
<1> SUFFICES ASSUME Inv, [Next]_vars PROVE Inv'
  OBVIOUS
<1> USE DEF Inv
<1>0. NoSecretCopied'
  BY NextKeepsSecret
<1>1. ASSUME NEW o \in Output, NewOutput(o) PROVE Inv'
  <2>1. o \in Output \ Present /\ o # Remote
    BY <1>1 DEF NewOutput
  <2>2. ScreensInv'
    BY <1>1, <2>1, PlugKeepsScreens DEF NewOutput, ScreensInv
  <2>3. CountsInv'
    BY <1>1, <2>1, PlugKeepsScreens, PlugKeepsCounts DEF NewOutput
  <2>4. TagsInv'
    BY <1>1 DEF NewOutput, TagsInv
  <2> QED BY <1>0, <2>2, <2>3, <2>4
<1>2. ASSUME NEW o \in Output, OutputGone(o) PROVE Inv'
  <2>1. o \in Present /\ o # Remote /\ Unplug(o)
    BY <1>2 DEF OutputGone
  <2>2. ScreensInv'
    BY <1>2, <2>1, UnplugKeepsScreens DEF OutputGone, ScreensInv
  <2>3. CountsInv'
    BY <2>1, UnplugKeepsScreens, UnplugKeepsCounts
  <2>4. TagsInv'
    BY <1>2 DEF OutputGone, TagsInv
  <2> QED BY <1>0, <2>2, <2>3, <2>4
<1>3. ASSUME RemoteAttach PROVE Inv'
  <2>1. Remote \in Output \ Present /\ Plug(Remote)
    BY <1>3, RemoteIsOutput DEF RemoteAttach, ScreensInv
  <2>2. ScreensInv'
    BY <1>3, <2>1, PlugKeepsScreens DEF RemoteAttach, ScreensInv
  <2>3. CountsInv'
    BY <1>3, <2>1, PlugKeepsScreens, PlugKeepsCounts DEF RemoteAttach
  <2>4. TagsInv'
    BY <1>3 DEF RemoteAttach, TagsInv
  <2> QED BY <1>0, <2>2, <2>3, <2>4
<1>4. ASSUME RemoteDetach PROVE Inv'
  <2>1. Remote \in Present /\ Remote \in Output /\ Unplug(Remote)
    BY <1>4, RemoteIsOutput DEF RemoteDetach, ScreensInv
  <2>2. ScreensInv'
    BY <1>4, <2>1, UnplugKeepsScreens DEF RemoteDetach, ScreensInv
  <2>3. CountsInv'
    BY <2>1, UnplugKeepsScreens, UnplugKeepsCounts
  <2>4. TagsInv'
    BY <1>4 DEF RemoteDetach, TagsInv
  <2> QED BY <1>0, <2>2, <2>3, <2>4
<1>5. ASSUME UNCHANGED <<outputs, remote, copies, output_mode, mode>>, pictured' = {},
             enabled' \subseteq Present, layout' \subseteq Present, powered_off' \subseteq Present
      PROVE  Inv'
  <2>1. Present' = Present
    BY <1>5 DEF Present
  <2>2. ScreensInv'
    BY <1>5, <2>1 DEF ScreensInv
  <2>3. CountsInv'
    BY <1>5, <2>1, PlugKeepsCounts
  <2> QED BY <1>0, <1>5, <2>2, <2>3 DEF TagsInv
<1>6. ASSUME NEW o \in Output, NEW on \in BOOLEAN, SetPower(o, on) PROVE Inv'
  <2>1. PICK took \in Commits({o}) :
          /\ enabled' = IF on THEN enabled \cup took ELSE enabled \ took
          /\ powered_off' = IF on THEN powered_off \ took ELSE powered_off \cup took
          /\ IF on THEN o \in powered_off ELSE o \in enabled
    BY <1>6 DEF SetPower, output_set_power
  <2>2. took \subseteq Present
    BY <2>1, CommitsAre DEF ScreensInv
  <2> QED BY <1>5, <1>6, <2>1, <2>2 DEF SetPower, ScreensInv
<1>7. ASSUME NEW on \in SUBSET Present, NEW off \in SUBSET Present, NEW p, ConfigApply(on, off, p) PROVE Inv'
  BY <1>5, <1>7 DEF ConfigApply, Configured, ScreensInv
<1>8. ASSUME Activity PROVE Inv'
  <2>1. PICK took \in Commits(powered_off) : enabled' = enabled \cup took /\ powered_off' = powered_off \ took
    BY <1>8 DEF Activity
  <2>2. took \subseteq Present
    BY <2>1, CommitsAre DEF ScreensInv
  <2> QED BY <1>5, <1>8, <2>1, <2>2 DEF Activity, ScreensInv
<1>9. ASSUME ChangeMode PROVE Inv'
  <2>1. Present' = Present
    BY <1>9 DEF ChangeMode, screens, Present
  <2>2. ScreensInv'
    BY <1>9, <2>1 DEF ChangeMode, screens, ScreensInv
  <2>3. CountsInv'
    BY <1>9, <2>1, PlugKeepsCounts DEF ChangeMode
  <2> QED BY <1>0, <1>9, <2>2, <2>3 DEF ChangeMode, TagsInv
<1>10. ASSUME UNCHANGED <<screens, output_mode, mode, remote>>, pictured' \subseteq Copy, CountsInv' PROVE Inv'
  <2>1. ScreensInv'
    BY <1>10 DEF screens, ScreensInv, Present
  <2> QED BY <1>0, <1>10, <2>1 DEF TagsInv
<1>11. ASSUME NEW f \in Copy, NEW o \in Output, Capture(f, o) PROVE Inv'
  BY <1>10, <1>11, CaptureKeeps DEF Capture
<1>12. ASSUME NEW f \in Copy, FrameCopy(f) PROVE Inv'
  BY <1>10, <1>12, FrameCopyKeeps DEF FrameCopy
<1>13. ASSUME NEW f \in Copy, FrameDestroy(f) PROVE Inv'
  BY <1>10, <1>13, FrameDestroyKeeps DEF FrameDestroy
<1>14. ASSUME NEW o \in Output, Frame(o) PROVE Inv'
  <2>1. pictured' \subseteq Copy
    BY <1>14 DEF Frame, frame_handle_commit, fill, WaitingOn, CountsInv
  <2> QED BY <1>10, <1>14, <2>1, FrameKeeps DEF Frame
<1>15. ASSUME UNCHANGED vars PROVE Inv'
  <2>1. CountsInv'
    BY <1>15, PlugKeepsCounts DEF vars, screens, Present
  <2> QED BY <1>10, <1>15, <2>1 DEF vars, TagsInv
<1> QED BY <1>1, <1>2, <1>3, <1>4, <1>6, <1>7, <1>8, <1>9, <1>11, <1>12, <1>13, <1>14, <1>15 DEF Next

LEMMA InvHolds == Spec => []Inv
<1>1. Init => Inv
  <2> SUFFICES ASSUME Init PROVE Inv
    OBVIOUS
  <2>1. Present = {}
    BY DEF Init, Present, ToSet
  <2>2. ScreensInv
    <3>1. outputs = <<>> /\ outputs \in Seq(Output) /\ DOMAIN outputs = {}
      BY DEF Init
    <3>2. Once(outputs)
      BY <3>1 DEF Once
    <3> QED BY <2>1, <3>1, <3>2 DEF Init, ScreensInv
  <2>3. \A o \in Output : WaitingOn(o) = {}
    BY DEF Init, WaitingOn
  <2>4. CountsInv
    <3>1. \A o \in Output : locks[o] = Cardinality(WaitingOn(o))
      <4>1. Cardinality({}) = 0
        BY FS_EmptySet
      <4> QED BY <2>3, <4>1 DEF Init
    <3>2. locks \in [Output -> Int] /\ bound \in [Copy -> Output \cup {NoOutput}] /\ waiting \subseteq Copy
      BY DEF Init
    <3>3. CopiesBound
      BY DEF Init, CopiesBound
    <3> QED BY <3>1, <3>2, <3>3 DEF CountsInv
  <2> QED BY <2>2, <2>4 DEF Init, Inv, TagsInv, NoSecretCopied
<1> QED BY <1>1, NextKeepsInv, PTL DEF Spec

(* Copies of the screen, for any outputs and clients that come and go in    *)
(* any order: each output's render lock is held once for each copy that     *)
(* waits, none refers to an output that is gone, and none is given the      *)
(* picture under a lock or a prompt.                                        *)
THEOREM CopiesStaySound == Spec => []CopiesSound
BY InvHolds, InvIsSound, PTL
=============================================================================
