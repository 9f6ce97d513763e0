-------------------------- MODULE ResultStorageProofs -------------------------
(***************************************************************************)
(* Proofs about ResultStorage, for any number of Results and payloads: the *)
(* two slots are used as intended at every instant, and together behave as *)
(* one checked alternative (CheckedResult).                                *)
(***************************************************************************)
EXTENDS MCResultStorage, TLAPS

\* An emplacement works on a live Result, and what it has constructed is in the
\* inactive slot until the switch.
WorkIsSound ==
    /\ work.step = "Idle" <=> work = NoWork
    /\ work.step # "Idle" => work.result \in alive
    /\ work.step = "Construct" => work.new \in Payloads
    /\ work.step = "Switch" =>
         work.new \in Payloads /\ slots[work.result][1 - active[work.result]] = work.new

Inv == TypeOK /\ WorkIsSound /\ ActiveSlotIsEngaged /\ OnlyReplacementsUseTheOtherSlot

\* Each slot has one other slot.
LEMMA TwoSlots == \A i \in 0..1 : 1 - i \in 0..1 /\ 1 - i # i /\ 1 - (1 - i) = i
OBVIOUS

\* Facts about data that every step needs.
LEMMA Facts ==
    ASSUME TypeOK
    PROVE  /\ Empty \notin Payloads /\ Empty \notin Results /\ New \subseteq Payloads
           /\ \A i \in 0..1 : 1 - i \in 0..1 /\ 1 - i # i /\ 1 - (1 - i) = i
           /\ \A r \in Results : active[r] \in 0..1
           /\ \A r \in Results, i \in 0..1 : slots[r][i] \in Payloads \cup {Empty}
           /\ \A p \in Payloads : AfterMove(p) \in Payloads
           /\ alive \subseteq Results
<1>1. \A p \in Payloads : AfterMove(p) \in Payloads
  BY DEF AfterMove, Payloads, New
<1>2. Empty \notin Payloads /\ Empty \notin Results /\ New \subseteq Payloads
  BY PayloadAssumption, EmptyAssumption DEF Payloads
<1>3. \A r \in Results : active[r] \in 0..1
  BY DEF TypeOK
<1>4. \A r \in Results, i \in 0..1 : slots[r][i] \in Payloads \cup {Empty}
  BY DEF TypeOK
<1>5. alive \subseteq Results
  BY DEF TypeOK
<1> QED
  BY <1>1, <1>2, <1>3, <1>4, <1>5, TwoSlots

\* At first no Result exists.
LEMMA InitInv == Init => Inv
BY PayloadAssumption DEF Init, Inv, TypeOK, WorkIsSound, ActiveSlotIsEngaged, OnlyReplacementsUseTheOtherSlot,
   NoWork, NoSlots

\* A constructor makes a Result with its first slot engaged.
LEMMA ConstructKeepsInv ==
    ASSUME Inv, NEW r \in Results, NEW payload \in New, Construct(r, payload) PROVE Inv'
<1> USE DEF Inv, Construct
<1>1. /\ slots[r] = NoSlots /\ slots' = [slots EXCEPT ![r] = [NoSlots EXCEPT ![0] = payload]]
      /\ payload \in Payloads
  BY Facts DEF OnlyReplacementsUseTheOtherSlot
<1>2. TypeOK'
  BY <1>1 DEF TypeOK, NoSlots
<1>3. slots'[r][0] = payload /\ slots'[r][1] = Empty /\ active'[r] = 0
  BY <1>1 DEF TypeOK, NoSlots
<1>4. \A s \in Results : s # r => slots'[s] = slots[s] /\ active'[s] = active[s]
  BY <1>1 DEF TypeOK
<1>5. WorkIsSound'
  BY DEF WorkIsSound, NoWork
<1>6. ActiveSlotIsEngaged' /\ OnlyReplacementsUseTheOtherSlot'
  BY <1>1, <1>3, <1>4, Facts DEF ActiveSlotIsEngaged, OnlyReplacementsUseTheOtherSlot, Active
<1> QED
  BY <1>2, <1>5, <1>6

\* A copy is engaged where its original is.
LEMMA CopyKeepsInv ==
    ASSUME Inv, NEW r \in Results, NEW to \in Results, Copy(r, to) PROVE Inv'
<1> USE DEF Inv, Copy, Usable
<1>1. TypeOK'
  BY DEF TypeOK
<1>2. slots'[to] = slots[r] /\ active'[to] = active[r]
  BY DEF TypeOK
<1>3. \A s \in Results : s # to => slots'[s] = slots[s] /\ active'[s] = active[s]
  BY DEF TypeOK
<1>4. WorkIsSound'
  BY DEF WorkIsSound, NoWork
<1>5. ActiveSlotIsEngaged'
  BY <1>2, <1>3, Facts DEF ActiveSlotIsEngaged, Active
<1>6. OnlyReplacementsUseTheOtherSlot'
  BY <1>2, <1>3, Facts DEF OnlyReplacementsUseTheOtherSlot, NoWork
<1> QED
  BY <1>1, <1>4, <1>5, <1>6

\* A move leaves both the new and the old Result engaged.
LEMMA MoveKeepsInv ==
    ASSUME Inv, NEW r \in Results, NEW to \in Results, Move(r, to) PROVE Inv'
<1> USE DEF Inv, Move, Usable
<1>1. /\ r # to /\ r \in alive /\ active[r] \in 0..1 /\ Active(r) \in Payloads
      /\ AfterMove(Active(r)) \in Payloads
  BY Facts DEF ActiveSlotIsEngaged, Active
<1>2. /\ slots'[to] = slots[r] /\ active'[to] = active[r]
      /\ slots'[r] = [slots[r] EXCEPT ![active[r]] = AfterMove(Active(r))] /\ active'[r] = active[r]
      /\ \A s \in Results \ {r, to} : slots'[s] = slots[s] /\ active'[s] = active[s]
      /\ DOMAIN slots' = Results
  BY <1>1 DEF TypeOK, Active
<1>3. TypeOK'
  BY <1>1 DEF TypeOK, Active
<1>4. WorkIsSound'
  BY DEF WorkIsSound, NoWork
<1>5. slots'[r][active[r]] # Empty /\ slots'[r][1 - active[r]] = slots[r][1 - active[r]]
  <2>1. slots[r] \in [0..1 -> Payloads \cup {Empty}]
    BY DEF TypeOK
  <2>2. 1 - active[r] \in 0..1 /\ 1 - active[r] # active[r] /\ Empty \notin Payloads
    BY <1>1, Facts
  <2> HIDE DEF Inv, Move, Usable
  <2> QED
    BY <1>1, <1>2, <2>1, <2>2
<1>6. ActiveSlotIsEngaged'
  <2>1. alive' = alive \cup {to} /\ alive \subseteq Results
    BY Facts
  <2>2. \A s \in alive : slots[s][active[s]] # Empty
    BY DEF ActiveSlotIsEngaged, Active
  <2> HIDE DEF Inv, Move, Usable
  <2> QED
    BY <1>1, <1>2, <1>5, <2>1, <2>2 DEF ActiveSlotIsEngaged, Active
<1>7. OnlyReplacementsUseTheOtherSlot'
  BY <1>1, <1>2, <1>5, Facts DEF OnlyReplacementsUseTheOtherSlot, NoWork
<1> QED
  BY <1>3, <1>4, <1>6, <1>7

\* A destructor disengages both slots.
LEMMA DestroyKeepsInv ==
    ASSUME Inv, NEW r \in Results, Destroy(r) PROVE Inv'
<1> USE DEF Inv, Destroy
<1>1. TypeOK'
  BY DEF TypeOK, NoSlots
<1>2. slots'[r] = NoSlots /\ \A s \in Results : s # r => slots'[s] = slots[s] /\ active'[s] = active[s]
  BY DEF TypeOK
<1>3. WorkIsSound'
  BY DEF WorkIsSound, NoWork
<1>4. ActiveSlotIsEngaged' /\ OnlyReplacementsUseTheOtherSlot'
  BY <1>2, Facts DEF ActiveSlotIsEngaged, OnlyReplacementsUseTheOtherSlot, Active
<1> QED
  BY <1>1, <1>3, <1>4

\* An application that may use a Result finds a payload in its active slot.
LEMMA UsableHoldsPayload ==
    ASSUME Inv, NEW r \in Results, Usable(r)
    PROVE  r \in alive /\ Active(r) # Empty /\ Active(r) \in Payloads
BY Facts DEF Inv, Usable, ActiveSlotIsEngaged, Active

\* The start of an emplacement.
LEMMA BeginKeepsInv ==
    ASSUME Inv, NEW r \in Results, NEW payload \in New, BeginEmplace(r, payload) PROVE Inv'
<1> USE DEF Inv, BeginEmplace, Usable
<1>1. TypeOK'
  BY Facts DEF TypeOK
<1>2. WorkIsSound'
  BY Facts DEF WorkIsSound, NoWork
<1>3. ActiveSlotIsEngaged' /\ OnlyReplacementsUseTheOtherSlot'
  BY DEF ActiveSlotIsEngaged, OnlyReplacementsUseTheOtherSlot, Active, NoWork
<1> QED
  BY <1>1, <1>2, <1>3

\* While an emplacement is under way its Result is alive, its active slot engaged.
LEMMA WorkFacts ==
    ASSUME Inv, work.step # "Idle"
    PROVE  /\ work.result \in Results /\ work.result \in alive /\ active[work.result] \in 0..1
           /\ slots[work.result] \in [0..1 -> Payloads \cup {Empty}]
           /\ Active(work.result) \in Payloads
<1>1. work.result \in alive /\ work.result \in Results
  BY Facts DEF Inv, WorkIsSound
<1> QED
  BY <1>1, Facts DEF Inv, TypeOK, ActiveSlotIsEngaged, Active

\* The constructor moves from the payload that is being replaced.
LEMMA TakeOutKeepsInv ==
    ASSUME Inv, MoveFromReplaced PROVE Inv'
<1> DEFINE r == work.result
<1> USE DEF MoveFromReplaced
<1>1. /\ r \in Results /\ r \in alive /\ active[r] \in 0..1 /\ Active(r) \in Payloads
      /\ slots[r] \in [0..1 -> Payloads \cup {Empty}] /\ AfterMove(Active(r)) \in Payloads
  BY WorkFacts, Facts DEF Inv
<1>2. /\ slots'[r] = [slots[r] EXCEPT ![active[r]] = AfterMove(Active(r))]
      /\ \A s \in Results \ {r} : slots'[s] = slots[s]
  BY <1>1 DEF Inv, TypeOK, Active
<1>3. /\ work' \in [result: Results \cup {Empty}, new: Payloads \cup {Empty},
                    step: {"Idle", "Construct", "Switch", "Reset", "Destroy"}]
      /\ work'.result = r /\ work'.step = "Construct" /\ work'.new = Active(r)
  BY <1>1 DEF Inv, TypeOK
<1>4. TypeOK'
  BY <1>1, <1>3 DEF Inv, TypeOK, Active
<1>5. WorkIsSound'
  BY <1>1, <1>3 DEF WorkIsSound, NoWork
<1>6. slots'[r][active[r]] # Empty /\ slots'[r][1 - active[r]] = slots[r][1 - active[r]]
  <2>1. 1 - active[r] \in 0..1 /\ 1 - active[r] # active[r] /\ Empty \notin Payloads
    BY <1>1, Facts DEF Inv
  <2> QED
    BY <1>1, <1>2, <2>1
<1>7. ActiveSlotIsEngaged'
  BY <1>1, <1>2, <1>6, Facts DEF Inv, ActiveSlotIsEngaged, Active
<1>8. OnlyReplacementsUseTheOtherSlot'
  <2>1. \A s \in alive : slots'[s][1 - active[s]] = slots[s][1 - active[s]]
    BY <1>2, <1>6, Facts DEF Inv
  <2>2. \A s \in alive : slots[s][1 - active[s]] = Empty
    BY DEF Inv, OnlyReplacementsUseTheOtherSlot
  <2> QED
    BY <1>1, <1>2, <2>1, <2>2 DEF Inv, OnlyReplacementsUseTheOtherSlot
<1> QED
  BY <1>4, <1>5, <1>7, <1>8 DEF Inv

\* The replacement is constructed in the inactive slot; the active one is untouched.
LEMMA ConstructReplacementKeepsInv ==
    ASSUME Inv, ConstructReplacement PROVE Inv'
<1> DEFINE r == work.result
<1> USE DEF ConstructReplacement
<1>1. /\ r \in Results /\ r \in alive /\ active[r] \in 0..1 /\ Active(r) \in Payloads
      /\ slots[r] \in [0..1 -> Payloads \cup {Empty}] /\ work.new \in Payloads
      /\ 1 - active[r] \in 0..1 /\ 1 - active[r] # active[r] /\ Empty \notin Payloads
  BY WorkFacts, Facts DEF Inv, WorkIsSound
<1>2. /\ slots'[r] = [slots[r] EXCEPT ![1 - active[r]] = work.new]
      /\ \A s \in Results \ {r} : slots'[s] = slots[s]
  BY <1>1 DEF Inv, TypeOK
<1>3. /\ work' \in [result: Results \cup {Empty}, new: Payloads \cup {Empty},
                    step: {"Idle", "Construct", "Switch", "Reset", "Destroy"}]
      /\ work'.result = r /\ work'.step = "Switch" /\ work'.new = work.new
  BY <1>1 DEF Inv, TypeOK
<1>4. TypeOK'
  BY <1>1, <1>3 DEF Inv, TypeOK
<1>5. slots'[r][active[r]] = Active(r) /\ slots'[r][1 - active[r]] = work.new
  BY <1>1, <1>2 DEF Active
<1>6. WorkIsSound'
  BY <1>1, <1>3, <1>5 DEF WorkIsSound, NoWork
<1>7. ActiveSlotIsEngaged'
  BY <1>1, <1>2, <1>5, Facts DEF Inv, ActiveSlotIsEngaged, Active
<1>8. OnlyReplacementsUseTheOtherSlot'
  <2>1. \A s \in alive : slots[s][1 - active[s]] = Empty
    BY DEF Inv, OnlyReplacementsUseTheOtherSlot
  <2> QED
    BY <1>1, <1>2, <1>3, <2>1, Facts DEF Inv, OnlyReplacementsUseTheOtherSlot
<1> QED
  BY <1>4, <1>6, <1>7, <1>8 DEF Inv

\* The switch makes the replacement, which is engaged, active.
LEMMA SwitchKeepsInv ==
    ASSUME Inv, Switch PROVE Inv'
<1> DEFINE r == work.result
<1> USE DEF Switch
<1>1. /\ r \in Results /\ r \in alive /\ active[r] \in 0..1
      /\ 1 - active[r] \in 0..1 /\ 1 - active[r] # active[r] /\ 1 - (1 - active[r]) = active[r]
      /\ slots[r][1 - active[r]] = work.new /\ work.new # Empty
  BY WorkFacts, Facts DEF Inv, WorkIsSound
<1>2. active'[r] = 1 - active[r] /\ \A s \in Results \ {r} : active'[s] = active[s]
  BY <1>1 DEF Inv, TypeOK
<1>3. /\ work' \in [result: Results \cup {Empty}, new: Payloads \cup {Empty},
                    step: {"Idle", "Construct", "Switch", "Reset", "Destroy"}]
      /\ work'.result = r /\ work'.step = "Reset"
  BY <1>1 DEF Inv, TypeOK
<1>4. TypeOK'
  BY <1>1, <1>3 DEF Inv, TypeOK
<1>5. WorkIsSound'
  BY <1>1, <1>3 DEF WorkIsSound, NoWork
<1>6. ActiveSlotIsEngaged'
  BY <1>1, <1>2, Facts DEF Inv, ActiveSlotIsEngaged, Active
<1>7. OnlyReplacementsUseTheOtherSlot'
  BY <1>1, <1>2, <1>3, Facts DEF Inv, OnlyReplacementsUseTheOtherSlot
<1> QED
  BY <1>4, <1>5, <1>6, <1>7 DEF Inv

\* The slot that is no longer active is disengaged.
LEMMA ResetKeepsInv ==
    ASSUME Inv, Reset PROVE Inv'
<1> DEFINE r == work.result
<1> USE DEF Reset
<1>1. /\ r \in Results /\ r \in alive /\ active[r] \in 0..1 /\ Active(r) \in Payloads
      /\ slots[r] \in [0..1 -> Payloads \cup {Empty}]
      /\ 1 - active[r] \in 0..1 /\ 1 - active[r] # active[r] /\ Empty \notin Payloads
  BY WorkFacts, Facts DEF Inv
<1>2. /\ slots'[r] = [slots[r] EXCEPT ![1 - active[r]] = Empty]
      /\ \A s \in Results \ {r} : slots'[s] = slots[s]
  BY <1>1 DEF Inv, TypeOK
<1>3. /\ work' \in [result: Results \cup {Empty}, new: Payloads \cup {Empty},
                    step: {"Idle", "Construct", "Switch", "Reset", "Destroy"}]
      /\ work'.result = r /\ work'.step = "Destroy"
  BY <1>1 DEF Inv, TypeOK
<1>4. TypeOK'
  BY <1>1, <1>3 DEF Inv, TypeOK
<1>5. slots'[r][active[r]] = Active(r) /\ slots'[r][1 - active[r]] = Empty
  BY <1>1, <1>2 DEF Active
<1>6. WorkIsSound'
  BY <1>1, <1>3 DEF WorkIsSound, NoWork
<1>7. ActiveSlotIsEngaged'
  BY <1>1, <1>2, <1>5, Facts DEF Inv, ActiveSlotIsEngaged, Active
<1>8. OnlyReplacementsUseTheOtherSlot'
  BY <1>1, <1>2, <1>3, <1>5, Facts DEF Inv, OnlyReplacementsUseTheOtherSlot
<1> QED
  BY <1>4, <1>6, <1>7, <1>8 DEF Inv

\* An emplacement ends, by its last destructor or by the exception of its
\* constructor, with the other slot empty.
LEMMA EndKeepsInv ==
    ASSUME Inv, ConstructorThrows \/ EndEmplace PROVE Inv'
<1>1. /\ work' = NoWork /\ UNCHANGED <<process, alive, slots, active, movedFrom>>
      /\ work.step \notin {"Switch", "Reset"}
  BY DEF ConstructorThrows, EndEmplace
<1>2. TypeOK'
  BY <1>1 DEF Inv, TypeOK, NoWork
<1>3. WorkIsSound'
  BY <1>1 DEF WorkIsSound, NoWork
<1>4. ActiveSlotIsEngaged' /\ OnlyReplacementsUseTheOtherSlot'
  BY <1>1 DEF Inv, ActiveSlotIsEngaged, OnlyReplacementsUseTheOtherSlot, Active, NoWork
<1> QED
  BY <1>2, <1>3, <1>4 DEF Inv

\* A query or an access changes no Result, and never meets an empty slot.
LEMMA LookKeepsInv ==
    ASSUME Inv, NEW r \in Results, NEW alternative,
           QueryHasValue(r) \/ Access(r, alternative) \/ ValueOrThrow(r)
    PROVE  Inv'
<1>1. Active(r) # Empty
  BY UsableHoldsPayload DEF QueryHasValue, Access, ValueOrThrow
<1>2. /\ process' \in {"running", "wrong alternative", "converter returned"}
      /\ UNCHANGED <<alive, slots, active, movedFrom, work>>
  BY <1>1 DEF Inv, TypeOK, QueryHasValue, Access, ValueOrThrow, ThrowAsException, Give, Terminate
<1> QED
  BY <1>2 DEF Inv, TypeOK, WorkIsSound, ActiveSlotIsEngaged, OnlyReplacementsUseTheOtherSlot, Active

\* Every step preserves the invariant.
LEMMA NextInv == Inv /\ [Next]_vars => Inv'
<1> SUFFICES ASSUME Inv, [Next]_vars PROVE Inv'
  OBVIOUS
<1>1. CASE UNCHANGED vars
  BY <1>1 DEF vars, Inv, TypeOK, WorkIsSound, ActiveSlotIsEngaged, OnlyReplacementsUseTheOtherSlot,
     Active
<1>2. CASE \E r \in Results : \E payload \in New : Construct(r, payload) \/ BeginEmplace(r, payload)
  BY <1>2, ConstructKeepsInv, BeginKeepsInv
<1>3. CASE \E r \in Results : \E to \in Results : Copy(r, to) \/ Move(r, to)
  BY <1>3, CopyKeepsInv, MoveKeepsInv
<1>4. CASE \E r \in Results : Destroy(r)
  BY <1>4, DestroyKeepsInv
<1>5. CASE \E r \in Results : \/ QueryHasValue(r) \/ ValueOrThrow(r)
                              \/ \E alternative \in {"value", "error"} : Access(r, alternative)
  BY <1>5, LookKeepsInv
<1>6. CASE EmplaceStep
  BY <1>6, TakeOutKeepsInv, ConstructReplacementKeepsInv, SwitchKeepsInv, ResetKeepsInv, EndKeepsInv
     DEF EmplaceStep
<1> QED
  BY <1>1, <1>2, <1>3, <1>4, <1>5, <1>6 DEF Next, Ended

\* The invariant holds of every behaviour.
THEOREM InvHolds == Spec => []Inv
BY InitInv, NextInv, PTL DEF Spec

\* Every variable has its type: no access ever terminates for an empty slot.
THEOREM TypeCorrect == Spec => []TypeOK
<1>1. Inv => TypeOK
  BY DEF Inv
<1> QED
  BY <1>1, InvHolds, PTL

\* DD-04: the active slot of every Result that exists holds a payload, also
\* while application code runs inside an emplacement.
THEOREM ActiveSlotEngaged == Spec => []ActiveSlotIsEngaged
<1>1. Inv => ActiveSlotIsEngaged
  BY DEF Inv
<1> QED
  BY <1>1, InvHolds, PTL

\* Nothing is left in the other slot when a replacement is over.
THEOREM OtherSlotUnused == Spec => []OnlyReplacementsUseTheOtherSlot
<1>1. Inv => OnlyReplacementsUseTheOtherSlot
  BY DEF Inv
<1> QED
  BY <1>1, InvHolds, PTL

-----------------------------------------------------------------------------
(* ResultStorage implements CheckedResult *)

\* What a Result holds, as the contract sees it.
LEMMA HeldFacts ==
    ASSUME Inv
    PROVE  /\ \A r \in alive : r \in Results /\ Held[r] = Active(r) /\ Active(r) \in Payloads
                               /\ Held[r] # Empty
           /\ \A r \in Results \ alive : Held[r] = Empty
<1>1. \A r \in alive : r \in Results /\ Active(r) \in Payloads /\ Active(r) # Empty
  BY Facts DEF Inv, ActiveSlotIsEngaged, Active
<1> QED
  BY <1>1 DEF Held, HeldBy

\* A step that changes what one Result holds.
LEMMA OneChanges ==
    ASSUME NEW r \in Results, NEW p, HeldBy(r)' = p,
           \A s \in Results \ {r} : HeldBy(s)' = HeldBy(s)
    PROVE  Held' = [Held EXCEPT ![r] = p]
BY DEF Held

\* A step that changes what no Result holds.
LEMMA NoneChanges ==
    ASSUME \A s \in Results : HeldBy(s)' = HeldBy(s)
    PROVE  Held' = Held
BY DEF Held

\* Every payload is one the application has made, or what a move left of one.
LEMMA PayloadsAreNewOrMoved ==
    ASSUME NEW p \in Payloads
    PROVE  p \in New \cup {AfterMove(q) : q \in New}
<1>1. PICK v \in Values : TRUE
  BY PayloadAssumption
<1>2. [alternative |-> "value", payload |-> v] \in New
  BY DEF New
<1>3. AfterMove([alternative |-> "value", payload |-> v]) = [alternative |-> "value", payload |-> Moved]
  BY DEF AfterMove
<1> QED
  BY <1>2, <1>3 DEF Payloads

\* No Result exists, and the contract holds nothing.
LEMMA InitRefines == Init => Contract!Init
BY DEF Init, Contract!Init, State, Held, HeldBy

\* Construction, copy, move and destruction are the contract's steps of that kind.
LEMMA ConstructRefines ==
    ASSUME Inv, NEW r \in Results, NEW payload \in New, Construct(r, payload)
    PROVE  Contract!Appear(r) /\ State = "running"
<1> USE DEF Construct
<1>1. HeldBy(r)' = payload
  BY DEF HeldBy, Active, Inv, TypeOK
<1>2. \A s \in Results \ {r} : HeldBy(s)' = HeldBy(s)
  BY DEF HeldBy, Active, Inv, TypeOK
<1>3. Held' = [Held EXCEPT ![r] = payload] /\ Held[r] = Empty
  BY <1>1, <1>2, OneChanges, HeldFacts
<1> QED
  BY <1>3 DEF Contract!Appear, State

LEMMA CopyRefines ==
    ASSUME Inv, NEW r \in Results, NEW to \in Results, Copy(r, to)
    PROVE  Contract!Copy(r, to) /\ State = "running"
<1> USE DEF Copy, Usable
<1>1. HeldBy(to)' = HeldBy(r)
  BY DEF HeldBy, Active, Inv, TypeOK
<1>2. \A s \in Results \ {to} : HeldBy(s)' = HeldBy(s)
  BY DEF HeldBy, Active, Inv, TypeOK
<1>3. /\ Held' = [Held EXCEPT ![to] = HeldBy(r)] /\ Held[to] = Empty
      /\ Held[r] # Empty /\ Held[r] = HeldBy(r)
  BY <1>1, <1>2, OneChanges, HeldFacts DEF Held
<1> QED
  BY <1>3 DEF Contract!Copy, State

LEMMA MoveRefines ==
    ASSUME Inv, NEW r \in Results, NEW to \in Results, Move(r, to)
    PROVE  Contract!Move(r, to) /\ State = "running"
<1> USE DEF Move, Usable
<1>1. r \in alive /\ to \notin alive /\ r # to
  OBVIOUS
<1>2. HeldBy(to)' = HeldBy(r)
  BY <1>1 DEF HeldBy, Active, Inv, TypeOK
<1>3. HeldBy(r)' = AfterMove(HeldBy(r))
  BY <1>1 DEF HeldBy, Active, Inv, TypeOK
<1>4. \A s \in Results \ {r, to} : HeldBy(s)' = HeldBy(s)
  BY DEF HeldBy, Active, Inv, TypeOK
<1>5. Held' = [Held EXCEPT ![to] = Held[r], ![r] = AfterMove(Held[r])]
  BY <1>1, <1>2, <1>3, <1>4 DEF Held
<1>6. Held[to] = Empty /\ Held[r] # Empty
  BY <1>1, HeldFacts
<1> QED
  BY <1>1, <1>5, <1>6 DEF Contract!Move, State, Contract!AfterMove, AfterMove, Held

LEMMA DestroyRefines ==
    ASSUME Inv, NEW r \in Results, Destroy(r)
    PROVE  Contract!Vanish(r) /\ State = "running"
<1> USE DEF Destroy
<1>1. HeldBy(r)' = Empty
  BY DEF HeldBy
<1>2. \A s \in Results \ {r} : HeldBy(s)' = HeldBy(s)
  BY DEF HeldBy, Active, Inv, TypeOK
<1> QED
  BY <1>1, <1>2, OneChanges, HeldFacts DEF Contract!Vanish, State

\* Moving from the payload that is being replaced.
LEMMA TakeOutRefines ==
    ASSUME Inv, MoveFromReplaced
    PROVE  State = "running" /\ \E r \in Results : Contract!TakeOut(r)
<1> DEFINE r == work.result
<1> USE DEF MoveFromReplaced
<1>1. r \in Results /\ r \in alive /\ active[r] \in 0..1
  BY WorkFacts
<1>2. HeldBy(r)' = AfterMove(Held[r])
  BY <1>1, HeldFacts DEF HeldBy, Active, Inv, TypeOK
<1>3. \A s \in Results \ {r} : HeldBy(s)' = HeldBy(s)
  BY <1>1 DEF HeldBy, Active, Inv, TypeOK
<1>4. Held' = [Held EXCEPT ![r] = AfterMove(Held[r])] /\ Held[r] # Empty
  BY <1>1, <1>2, <1>3, OneChanges, HeldFacts
<1>5. Contract!TakeOut(r)
  BY <1>1, <1>4 DEF Contract!TakeOut, Contract!AfterMove, AfterMove, State, Held
<1> QED
  BY <1>1, <1>5 DEF State

\* The switch is the instant at which a replacement takes effect.
LEMMA SwitchRefines ==
    ASSUME Inv, Switch
    PROVE  State = "running" /\ \E r \in Results : Contract!Replace(r)
<1> DEFINE r == work.result
<1> USE DEF Switch
<1>1. r \in Results /\ r \in alive /\ active[r] \in 0..1 /\ work.new \in Payloads
      /\ slots[r][1 - active[r]] = work.new
  BY WorkFacts DEF Inv, WorkIsSound
<1>2. HeldBy(r)' = work.new
  BY <1>1 DEF HeldBy, Active, Inv, TypeOK
<1>3. \A s \in Results \ {r} : HeldBy(s)' = HeldBy(s)
  BY <1>1 DEF HeldBy, Active, Inv, TypeOK
<1>4. Held' = [Held EXCEPT ![r] = work.new] /\ Held[r] # Empty
  BY <1>1, <1>2, <1>3, OneChanges, HeldFacts
<1>5. work.new \in New \cup {Contract!AfterMove(q) : q \in New}
  BY <1>1, PayloadsAreNewOrMoved DEF Contract!AfterMove, AfterMove
<1>6. Contract!Replace(r)
  BY <1>4, <1>5 DEF Contract!Replace, State
<1> QED
  BY <1>1, <1>6 DEF State

\* The other steps of an emplacement happen in the slot that is not active.
LEMMA EmplaceStutters ==
    ASSUME Inv, ConstructReplacement \/ ConstructorThrows \/ Reset \/ EndEmplace
    PROVE  UNCHANGED <<State, Held, outcome>>
<1>1. CASE ConstructorThrows \/ EndEmplace
  BY <1>1, NoneChanges DEF ConstructorThrows, EndEmplace, State, HeldBy, Active
<1>2. ASSUME NEW p, NEW r \in Results, slots' = [slots EXCEPT ![r][1 - active[r]] = p],
             UNCHANGED <<process, alive, active, outcome>>
      PROVE  UNCHANGED <<State, Held, outcome>>
  <2>1. \A s \in Results : slots'[s][active[s]] = slots[s][active[s]]
    <3>1. active[r] \in 0..1 /\ 1 - active[r] # active[r]
      BY Facts DEF Inv
    <3> QED
      BY <1>2, <3>1 DEF Inv, TypeOK
  <2> QED
    BY <1>2, <2>1, NoneChanges DEF State, HeldBy, Active
<1>3. CASE ConstructReplacement \/ Reset
  BY <1>2, <1>3, WorkFacts DEF ConstructReplacement, Reset
<1> QED
  BY <1>1, <1>3

\* A query, an access, an error thrown: each is one step of the contract.
LEMMA LookRefines ==
    ASSUME Inv, NEW r \in Results, NEW alternative,
           QueryHasValue(r) \/ Access(r, alternative) \/ ValueOrThrow(r)
    PROVE  State = "running" /\ (Contract!Query(r) \/ Contract!Read(r) \/ Contract!Throw(r)
                                 \/ Contract!Terminate)
<1>1. Usable(r) /\ process = "running" /\ State = "running"
  BY DEF QueryHasValue, Access, ValueOrThrow, Usable, State
<1> SUFFICES Contract!Query(r) \/ Contract!Read(r) \/ Contract!Throw(r) \/ Contract!Terminate
  BY <1>1
<1>2. r \in alive /\ Held[r] = Active(r) /\ Held[r] # Empty /\ Active(r) \in Payloads
  BY <1>1, UsableHoldsPayload, HeldFacts
<1>3. ASSUME UNCHANGED <<process, alive, slots, active>>
      PROVE  State' = State /\ Held' = Held
  BY <1>3, NoneChanges DEF State, HeldBy, Active
<1>4. ASSUME NEW reason, Terminate(reason), reason # "running"
      PROVE  Contract!Terminate
  BY <1>4, NoneChanges DEF Terminate, Contract!Terminate, State, HeldBy, Active
<1>5. ASSUME NEW value, Give(value)
      PROVE  outcome' = value /\ State' = State /\ Held' = Held
  BY <1>3, <1>5 DEF Give
<1>6. CASE QueryHasValue(r)
  <2>1. outcome' = [kind |-> IF Held[r].alternative = "value" THEN "yes" ELSE "no", value |-> Empty]
        /\ State' = State /\ Held' = Held
    BY <1>2, <1>5, <1>6 DEF QueryHasValue, HasValue
  <2> QED
    BY <1>2, <2>1 DEF Contract!Query
<1>7. CASE Access(r, alternative)
  <2>1. CASE Active(r).alternative = alternative
    BY <1>2, <1>5, <1>7, <2>1 DEF Access, Contract!Read
  <2>2. CASE Active(r).alternative # alternative
    BY <1>2, <1>4, <1>7, <2>2 DEF Access
  <2> QED
    BY <2>1, <2>2
<1>8. CASE ValueOrThrow(r)
  <2>1. CASE HasValue(r)
    BY <1>2, <1>5, <1>8, <2>1 DEF ValueOrThrow, Contract!Read
  <2>2. CASE ~HasValue(r)
    <3>1. Active(r).alternative = "error" /\ ThrowAsException(Active(r))
      BY <1>2, <1>8, <2>2 DEF ValueOrThrow, HasValue, Payloads, New
    <3>2. CASE Give([kind |-> "exception", value |-> Active(r)])
      BY <1>2, <1>5, <3>1, <3>2 DEF Contract!Throw
    <3>3. CASE Terminate("converter returned")
      BY <1>4, <3>3
    <3> QED
      BY <3>1, <3>2, <3>3 DEF ThrowAsException
  <2> QED
    BY <2>1, <2>2
<1> QED
  BY <1>6, <1>7, <1>8

\* Every step is one step of the contract, or none.
LEMMA StepRefines == Inv /\ [Next]_vars => [Contract!Next]_(Contract!vars)
<1> SUFFICES ASSUME Inv, [Next]_vars PROVE Contract!Next \/ UNCHANGED <<State, Held, outcome>>
  BY DEF Contract!vars
<1> USE DEF Contract!Next, Contract!Step
<1>1. CASE UNCHANGED vars
  BY <1>1, NoneChanges DEF vars, State, HeldBy, Active
<1>2. CASE \E r \in Results : \E payload \in New : Construct(r, payload)
  BY <1>2, ConstructRefines
<1>3. CASE \E r \in Results : \E payload \in New : BeginEmplace(r, payload)
  BY <1>3, NoneChanges DEF BeginEmplace, State, HeldBy, Active
<1>4. CASE \E r \in Results : \E to \in Results : Copy(r, to) \/ Move(r, to)
  BY <1>4, CopyRefines, MoveRefines
<1>5. CASE \E r \in Results : Destroy(r)
  BY <1>5, DestroyRefines
<1>6. CASE \E r \in Results : \/ QueryHasValue(r) \/ ValueOrThrow(r)
                              \/ \E alternative \in {"value", "error"} : Access(r, alternative)
  BY <1>6, LookRefines
<1>7. CASE EmplaceStep
  BY <1>7, TakeOutRefines, SwitchRefines, EmplaceStutters DEF EmplaceStep
<1> QED
  BY <1>1, <1>2, <1>3, <1>4, <1>5, <1>6, <1>7 DEF Next, Ended

\* DD-04: two slots and a switch are a checked alternative that is replaced at
\* once or not at all, whatever the payloads' constructors and destructors do.
THEOREM StorageIsChecked == Spec => ImplementsCheckedResult
BY InvHolds, InitRefines, StepRefines, PTL DEF Spec, ImplementsCheckedResult, Contract!Spec
=============================================================================
