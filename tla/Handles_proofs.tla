--------------------------- MODULE Handles_proofs ---------------------------
(***************************************************************************)
(* Proofs about Handles: a pointer is valid, has one holder, and is lost   *)
(* by assignment only, for all handles and C objects; and about            *)
(* OptionsSettings: options with their setters, views and moves implement  *)
(* options that are values, for all views and settings.                    *)
(***************************************************************************)
EXTENDS OptionsSettings, TLAPS

(* What no step of a handle destroys; it is inductive.                     *)
IInv == TypeOK /\ OneHolder

-----------------------------------------------------------------------------
(* What a null handle is, and what a handle can hold.                      *)
LEMMA HeldObjects ==
  ASSUME TypeOK, NEW o \in Handles
  PROVE /\ Held(o) \subseteq objects
        /\ ptr[o] \in objects \/ ptr[o] = Null
        /\ ptr[o] # Null => Held(o) = {ptr[o]}
        /\ Null \notin objects
  BY HandlesAssumption DEF TypeOK, Held

(* A C object is referred to by no other handle than its own.              *)
LEMMA OtherHeld ==
  ASSUME TypeOK, OneHolder, NEW o \in Handles, NEW p \in Handles, o # p
  PROVE ptr[p] \notin Held(o)
  BY DEF OneHolder, Held

(* A handle that is built keeps the invariant: its object is new.          *)
LEMMA ConstructStep ==
  ASSUME IInv, NEW o \in Handles, Construct(o) \/ Open(o)
  PROVE IInv'
<1> USE DEF IInv
<1>1. CASE UNCHANGED <<ptr, objects>>
  <2>1. alive' = alive \cup {o} /\ asserts' = asserts /\ pc' = pc
    BY DEF Construct, Open
  <2>2. status' \in [Handles -> Statuses]
    BY DEF Construct, Open, TypeOK, Statuses
  <2> QED
    BY <1>1, <2>1, <2>2 DEF TypeOK, OneHolder
<1>2. ASSUME NEW c \in CObjects \ objects,
             ptr' = [ptr EXCEPT ![o] = c], objects' = objects \cup {c}
      PROVE IInv'
  <2>1. alive' = alive \cup {o} /\ asserts' = asserts /\ pc' = pc
    BY DEF Construct, Open
  <2>2. status' \in [Handles -> Statuses]
    BY DEF Construct, Open, TypeOK, Statuses
  <2>3. TypeOK'
    BY <1>2, <2>1, <2>2 DEF TypeOK
  <2>4. \A p \in Handles : ptr[p] # c
    BY <1>2, HandlesAssumption DEF TypeOK
  <2>5. OneHolder'
    BY <1>2, <2>1, <2>4 DEF OneHolder, TypeOK
  <2> QED
    BY <2>3, <2>5
<1>3. \/ UNCHANGED <<ptr, objects>>
      \/ \E c \in CObjects \ objects :
           ptr' = [ptr EXCEPT ![o] = c] /\ objects' = objects \cup {c}
  BY DEF Construct, Open
<1> QED
  BY <1>1, <1>2, <1>3

(* A handle that is destroyed frees its own object and no other's.         *)
LEMMA DestroyStep ==
  ASSUME IInv, NEW o \in Handles, Destroy(o)
  PROVE IInv'
<1> USE DEF IInv
<1>1. /\ alive' = alive \ {o}
      /\ ptr' = [ptr EXCEPT ![o] = Null]
      /\ objects' = objects \ Held(o)
      /\ asserts' = asserts
      /\ pc' \in {"running", "aborted"}
  BY DEF Destroy
<1>2. status' \in [Handles -> Statuses]
  BY DEF Destroy, TypeOK, Statuses
<1>3. \A p \in Handles : p # o => ptr[p] \in objects' \cup {Null}
  BY <1>1, HeldObjects, OtherHeld
<1>4. TypeOK'
  BY <1>1, <1>2, <1>3 DEF TypeOK
<1>5. OneHolder'
  BY <1>1 DEF OneHolder, TypeOK
<1> QED
  BY <1>4, <1>5

(* A move gives the object of one handle to another, which loses its own.  *)
LEMMA MoveStep ==
  ASSUME IInv, NEW o \in Handles, NEW other \in Handles,
         MoveConstruct(o, other) \/ MoveAssign(o, other)
  PROVE IInv'
<1> USE DEF IInv
<1>1. /\ alive' = alive \cup {o} /\ other \in alive /\ Class[o] = Class[other]
      /\ ptr' = [ptr EXCEPT ![o] = ptr[other], ![other] = Null]
      /\ UNCHANGED <<asserts, pc, objects>>
  BY DEF MoveConstruct, MoveAssign
<1>2. status' \in [Handles -> Statuses]
  BY DEF MoveConstruct, MoveAssign, TypeOK
<1>3. TypeOK'
  BY <1>1, <1>2 DEF TypeOK
<1>4. OneHolder'
  BY <1>1 DEF OneHolder, TypeOK
<1> QED
  BY <1>3, <1>4

(* swap() destroys what its two arguments hold, and nothing else.          *)
LEMMA SwapStep ==
  ASSUME IInv, NEW o \in Handles, NEW other \in Handles, Swap(o, other)
  PROVE IInv'
<1> USE DEF IInv
<1>1. /\ pc = "running" /\ {o, other} \subseteq alive
      /\ ptr' = [ptr EXCEPT ![o] = Null, ![other] = Null]
      /\ objects' = objects \ (Held(o) \cup Held(other))
      /\ UNCHANGED <<asserts, pc, alive, status>>
  BY DEF Swap
<1>2. \A p \in Handles \ {o, other} : ptr[p] \in objects' \cup {Null}
  BY <1>1, HeldObjects, OtherHeld
<1>3. TypeOK'
  BY <1>1, <1>2 DEF TypeOK
<1>4. OneHolder'
  BY <1>1 DEF OneHolder, TypeOK
<1> QED
  BY <1>3, <1>4

(* The status of a stream is all that reading and clearing it change.      *)
LEMMA ReadStep ==
  ASSUME IInv, NEW o \in Handles, ReadGzip(o) \/ ClearStatus(o)
  PROVE IInv'
<1> USE DEF IInv
<1>1. UNCHANGED <<asserts, pc, alive, ptr, objects>>
  BY DEF ReadGzip, ClearStatus
<1>2. status' \in [Handles -> Statuses]
  BY DEF ReadGzip, ClearStatus, TypeOK, Statuses
<1>3. TypeOK'
  BY <1>1, <1>2 DEF TypeOK
<1>4. OneHolder'
  BY <1>1 DEF OneHolder
<1> QED
  BY <1>3, <1>4

(* The invariant is inductive.                                             *)
LEMMA InvariantStep ==
  ASSUME IInv, [Next]_vars
  PROVE IInv'
<1>1. CASE UNCHANGED vars
  BY <1>1 DEF vars, IInv, TypeOK, OneHolder
<1>2. CASE Next
  BY <1>2, ConstructStep, DestroyStep, MoveStep, SwapStep, ReadStep DEF Next
<1> QED
  BY <1>1, <1>2

THEOREM Invariant == Spec => []IInv
<1>1. Init => IInv
  BY HandlesAssumption DEF Init, IInv, TypeOK, OneHolder, Statuses
<1> QED
  BY <1>1, InvariantStep, PTL DEF Spec

-----------------------------------------------------------------------------
(* A handle is null or refers to a C object that exists, whatever moves,   *)
(* swaps and destructions there were.                                      *)
THEOREM PointersValid == Spec => []TypeOK
  BY Invariant, PTL DEF IInv

(* No two destructors free the same C object.                              *)
THEOREM FreedOnce == Spec => []OneHolder
  BY Invariant, PTL DEF IInv

(* A C object loses its handle to an assignment only.                      *)
THEOREM Leaks == Spec => LeaksOnlyByAssignment
<1> DEFINE Lost(o) == /\ Held(o) \cap objects' # {}
                      /\ \A p \in Handles : ptr[o] # ptr'[p]
<1>1. ASSUME IInv, [Next]_vars, NEW o \in Handles, Lost(o)
      PROVE  \E p \in Handles : MoveAssign(o, p)
  <2>1. ptr[o] # ptr'[o] /\ ptr[o] \in objects' /\ ptr[o] # Null
    BY <1>1 DEF Held
  <2>2. ASSUME NEW q \in Handles, Construct(q) \/ Open(q)
        PROVE FALSE
    <3>1. q \notin alive /\ \A p \in Handles : p # q => ptr'[p] = ptr[p]
      BY <1>1, <2>2 DEF IInv, TypeOK, Construct, Open
    <3> QED
      BY <1>1, <2>1, <3>1 DEF IInv, OneHolder
  <2>3. ASSUME NEW q \in Handles, ReadGzip(q) \/ ClearStatus(q)
        PROVE FALSE
    BY <2>1, <2>3 DEF ReadGzip, ClearStatus
  <2>4. ASSUME NEW q \in Handles, Destroy(q)
        PROVE FALSE
    BY <1>1, <2>1, <2>4 DEF Destroy, IInv, TypeOK, Held
  <2>5. ASSUME NEW q \in Handles, NEW p \in Handles, MoveConstruct(q, p)
        PROVE FALSE
    BY <1>1, <2>1, <2>5 DEF MoveConstruct, IInv, TypeOK, OneHolder
  <2>6. ASSUME NEW q \in Handles, NEW p \in Handles, Swap(q, p)
        PROVE FALSE
    BY <1>1, <2>1, <2>6 DEF Swap, IInv, TypeOK, Held
  <2>7. ASSUME NEW q \in Handles, NEW p \in Handles, MoveAssign(q, p)
        PROVE q = o
    BY <1>1, <2>1, <2>7 DEF MoveAssign, IInv, TypeOK
  <2>8. ~UNCHANGED vars
    BY <2>1 DEF vars
  <2> QED
    BY <1>1, <2>2, <2>3, <2>4, <2>5, <2>6, <2>7, <2>8 DEF Next
<1>2. IInv /\ [Next]_vars =>
        [\A o \in Handles :
           Held(o) \cap objects' # {} /\ (\A p \in Handles : ptr[o] # ptr'[p]) =>
             \E p \in Handles : MoveAssign(o, p)]_vars
  BY <1>1
<1> QED
  BY <1>2, Invariant, PTL DEF Spec, LeaksOnlyByAssignment

-----------------------------------------------------------------------------
(* Settings have their shape; a view is null or one of a C object that     *)
(* exists, so that an object that is created is in no view.                *)
ViewsLive ==
  /\ settings \in [CObjects -> [TopFields \cup BgpFields -> Values]]
  /\ view \in [Views -> objects \cup {Null}]

SInv == IInv /\ ViewsLive

-----------------------------------------------------------------------------
(* What happens to settings and views is a step of the handles or none.    *)
LEMMA HandlesStep ==
  ASSUME [SettingsNext]_allVars
  PROVE  [Next]_vars
  BY DEF SettingsNext, allVars, Set, Bgp, SetBgp

(* Operations of handles leave settings their shape and views alive.       *)
LEMMA FollowKeeps ==
  ASSUME ViewsLive, Follow
  PROVE  ViewsLive'
  BY SettingsAssumption DEF ViewsLive, Follow

LEMMA SettingsInvariantStep ==
  ASSUME SInv, [SettingsNext]_allVars
  PROVE  SInv'
<1>1. IInv'
  BY HandlesStep, InvariantStep DEF SInv
<1>2. ASSUME Follow
      PROVE  ViewsLive'
  BY <1>2, FollowKeeps DEF SInv
<1>3. ASSUME NEW o \in Handles, NEW f \in TopFields, NEW x \in Values, Set(o, f, x)
      PROVE  ViewsLive'
  <2>1. ptr[o] \in CObjects
    BY <1>3, HeldObjects DEF Set, HasSettings, SInv, IInv, TypeOK
  <2> QED
    BY <1>3, <2>1 DEF Set, SInv, ViewsLive, vars
<1>4. ASSUME NEW o \in Handles, NEW v \in Views, Bgp(o, v)
      PROVE  ViewsLive'
  BY <1>4, HeldObjects DEF Bgp, HasSettings, SInv, IInv, ViewsLive, vars
<1>5. ASSUME NEW v \in Views, NEW f \in BgpFields, NEW x \in Values, SetBgp(v, f, x)
      PROVE  ViewsLive'
  <2>1. view[v] \in CObjects
    BY <1>5 DEF SetBgp, SInv, IInv, TypeOK, ViewsLive
  <2> QED
    BY <1>5, <2>1 DEF SetBgp, SInv, ViewsLive, vars
<1>6. ASSUME UNCHANGED allVars
      PROVE  ViewsLive'
  BY <1>6 DEF allVars, vars, SInv, ViewsLive
<1>7. ViewsLive'
  BY <1>2, <1>3, <1>4, <1>5, <1>6 DEF SettingsNext
<1> QED
  BY <1>1, <1>7 DEF SInv

LEMMA SettingsInvariantInit ==
  ASSUME SettingsInit
  PROVE  SInv
<1>1. IInv
  BY HandlesAssumption DEF SettingsInit, Init, IInv, TypeOK, OneHolder, Statuses
<1>2. ViewsLive
  BY SettingsAssumption DEF SettingsInit, ViewsLive
<1> QED
  BY <1>1, <1>2 DEF SInv

THEOREM SettingsInvariant == SettingsSpec => []SInv
  BY SettingsInvariantInit, SettingsInvariantStep, PTL DEF SettingsSpec

-----------------------------------------------------------------------------
(* Two handles of options share no settings.                               *)
LEMMA OwnSettings ==
  ASSUME SInv, NEW o \in Handles, NEW p \in Handles, ptr[o] # Null, ptr[p] = ptr[o]
  PROVE  p = o
  BY DEF SInv, IInv, OneHolder

(* A step that leaves options their objects, those their settings and      *)
(* views of those where they are, is nothing to options that are values.   *)
LEMMA Stutter ==
  ASSUME \A p \in OptionsHandles : ptr'[p] = ptr[p],
         \A p \in OptionsHandles : ptr[p] # Null => settings'[ptr[p]] = settings[ptr[p]],
         \A p \in OptionsHandles, v \in Views :
           ptr[p] # Null => (view'[v] = ptr[p] <=> view[v] = ptr[p])
  PROVE  UNCHANGED <<Meant, Of>>
<1>1. Meant' = Meant
  BY DEF Meant
<1>2. Of' = Of
  BY DEF Of
<1> QED
  BY <1>1, <1>2

(* The operations of the handles, as values see them: options are created, *)
(* forgotten and moved.                                                    *)
LEMMA CreateStep ==
  ASSUME SInv, Follow, NEW o \in Handles, Construct(o) \/ Open(o)
  PROVE  [ByValue!Next]_<<Meant, Of>>
<1> USE DEF SInv, IInv
<1>1. o \notin alive /\ ptr[o] = Null
  BY DEF Construct, Open, OneHolder
<1>2. CASE UNCHANGED <<ptr, objects>>
  <2>1. UNCHANGED <<Meant, Of>>
    BY <1>2, Stutter DEF Follow, ViewsLive, OptionsHandles, TypeOK
  <2> QED
    BY <2>1
<1>3. ASSUME NEW c \in CObjects \ objects,
             ptr' = [ptr EXCEPT ![o] = c], objects' = objects \cup {c}
      PROVE  [ByValue!Next]_<<Meant, Of>>
  <2>1. \A v \in Views : view'[v] = view[v] /\ view[v] # c
    BY <1>3, HandlesAssumption DEF Follow, ViewsLive, TypeOK
  <2>2. \A p \in Handles : p # o => ptr'[p] = ptr[p] /\ ptr[p] # c
    BY <1>3, HandlesAssumption DEF TypeOK
  <2>3. settings'[c] = Defaults
    BY <1>3 DEF Follow
  <2>4. \A p \in Handles : p # o /\ ptr[p] # Null => settings'[ptr[p]] = settings[ptr[p]]
    BY <1>3 DEF Follow, TypeOK
  <2>5. CASE o \in OptionsHandles
    <3>1. Meant' = [Meant EXCEPT ![o] = Defaults]
      BY <1>1, <1>3, <2>2, <2>3, <2>4, <2>5, HandlesAssumption DEF Meant, OptionsHandles, TypeOK
    <3>2. Of' = Of
      BY <1>1, <1>3, <2>1, <2>2 DEF Of, OptionsHandles, TypeOK
    <3>3. ByValue!Create(o)
      BY <1>1, <2>5, <3>1, <3>2 DEF ByValue!Create, Meant
    <3> QED
      BY <2>5, <3>3 DEF ByValue!Next
  <2>6. CASE o \notin OptionsHandles
    <3>1. UNCHANGED <<Meant, Of>>
      BY <2>1, <2>2, <2>4, <2>6, Stutter DEF OptionsHandles
    <3> QED
      BY <3>1
  <2> QED
    BY <2>5, <2>6
<1> QED
  BY <1>2, <1>3 DEF Construct, Open

LEMMA ForgetStep ==
  ASSUME SInv, Follow, NEW o \in Handles, Destroy(o)
  PROVE  [ByValue!Next]_<<Meant, Of>>
<1> USE DEF SInv, IInv
<1>1. /\ ptr' = [ptr EXCEPT ![o] = Null]
      /\ objects' = objects \ Held(o)
  BY DEF Destroy
<1>2. settings' = settings
  BY <1>1 DEF Follow, ViewsLive
<1>3. \A p \in Handles : p # o => ptr'[p] = ptr[p]
  BY <1>1 DEF TypeOK
<1>4. \A p \in Handles, v \in Views :
        p # o /\ ptr[p] # Null => (view'[v] = ptr[p] <=> view[v] = ptr[p])
  BY <1>1, HeldObjects, OtherHeld DEF Follow, TypeOK
<1>5. CASE o \in OptionsHandles
  <2>1. Meant' = [Meant EXCEPT ![o] = Null]
    BY <1>1, <1>2, <1>3, <1>5 DEF Meant, OptionsHandles, TypeOK
  <2>2. ASSUME NEW v \in Views
        PROVE  Of'[v] = Of[v] \ {o}
    <3>1. ptr'[o] = Null
      BY <1>1 DEF TypeOK
    <3> QED
      BY <1>3, <1>4, <3>1 DEF Of, OptionsHandles
  <2>3. Of' = [v \in Views |-> Of[v] \ {o}]
    BY <2>2 DEF Of
  <2>4. ByValue!Forget(o)
    BY <2>1, <2>3 DEF ByValue!Forget
  <2> QED
    BY <1>5, <2>4 DEF ByValue!Next
<1>6. CASE o \notin OptionsHandles
  <2>1. UNCHANGED <<Meant, Of>>
    BY <1>2, <1>3, <1>4, <1>6, Stutter DEF OptionsHandles
  <2> QED
    BY <2>1
<1> QED
  BY <1>5, <1>6

LEMMA MoveStepOfValues ==
  ASSUME SInv, Follow, NEW o \in Handles, NEW other \in Handles,
         MoveConstruct(o, other) \/ MoveAssign(o, other)
  PROVE  [ByValue!Next]_<<Meant, Of>>
<1> USE DEF SInv, IInv
<1>1. /\ ptr' = [ptr EXCEPT ![o] = ptr[other], ![other] = Null]
      /\ objects' = objects
      /\ Class[o] = Class[other]
  BY DEF MoveConstruct, MoveAssign
<1>2. settings' = settings /\ view' = view
  BY <1>1 DEF Follow, ViewsLive
<1>3. \A p \in Handles : p # o /\ p # other => ptr'[p] = ptr[p]
  BY <1>1 DEF TypeOK
<1>4. ptr'[other] = Null /\ (o # other => ptr'[o] = ptr[other])
  BY <1>1 DEF TypeOK
<1>5. CASE o \in OptionsHandles
  <2>1. other \in OptionsHandles
    BY <1>1, <1>5 DEF OptionsHandles
  <2>2. Meant' = [Meant EXCEPT ![o] = Meant[other], ![other] = Null]
    BY <1>2, <1>3, <1>4, <1>5, <2>1 DEF Meant, OptionsHandles
  <2>3. ASSUME NEW v \in Views
        PROVE  Of'[v] = IF other \in Of[v] /\ o # other THEN {o} ELSE Of[v] \ {o}
    <3>1. Of[v] = {p \in OptionsHandles : ptr[p] # Null /\ ptr[p] = view[v]}
      BY DEF Of
    <3>2. Of'[v] = {p \in OptionsHandles : ptr'[p] # Null /\ ptr'[p] = view[v]}
      BY <1>2 DEF Of
    <3>3. CASE other \in Of[v] /\ o # other
      <4>1. \A p \in OptionsHandles : p # other => ptr[p] # view[v]
        BY <2>1, <3>1, <3>3, OwnSettings DEF OptionsHandles
      <4> QED
        BY <1>3, <1>4, <1>5, <3>1, <3>2, <3>3, <4>1 DEF OptionsHandles
    <3>4. CASE ~(other \in Of[v] /\ o # other)
      BY <1>3, <1>4, <2>1, <3>1, <3>2, <3>4 DEF OptionsHandles
    <3> QED
      BY <3>3, <3>4
  <2>4. Of' = [v \in Views |-> IF other \in Of[v] /\ o # other THEN {o} ELSE Of[v] \ {o}]
    BY <2>3 DEF Of
  <2>5. ByValue!Move(o, other)
    BY <2>2, <2>4 DEF ByValue!Move
  <2> QED
    BY <1>5, <2>1, <2>5 DEF ByValue!Next
<1>6. CASE o \notin OptionsHandles
  <2>1. other \notin OptionsHandles
    BY <1>1, <1>6 DEF OptionsHandles
  <2>2. UNCHANGED <<Meant, Of>>
    BY <1>2, <1>3, <1>6, <2>1, Stutter DEF OptionsHandles
  <2> QED
    BY <2>2
<1> QED
  BY <1>5, <1>6

(* The other operations of handles are nothing to options.                 *)
LEMMA OthersStutter ==
  ASSUME SInv, Follow, NEW o \in Handles, NEW other \in Handles,
         ReadGzip(o) \/ ClearStatus(o) \/ Swap(o, other)
  PROVE  UNCHANGED <<Meant, Of>>
<1> USE DEF SInv, IInv
<1>1. CASE ReadGzip(o) \/ ClearStatus(o)
  <2>1. UNCHANGED <<ptr, objects>>
    BY <1>1 DEF ReadGzip, ClearStatus
  <2> QED
    BY <2>1, Stutter DEF Follow, ViewsLive, OptionsHandles, TypeOK
<1>2. CASE Swap(o, other)
  <2>1. /\ ptr' = [ptr EXCEPT ![o] = Null, ![other] = Null]
        /\ objects' = objects \ (Held(o) \cup Held(other))
        /\ o \notin OptionsHandles /\ other \notin OptionsHandles
    BY <1>2 DEF Swap, OptionsHandles
  <2>2. settings' = settings
    BY <2>1 DEF Follow, ViewsLive
  <2>3. \A p \in OptionsHandles : ptr'[p] = ptr[p]
    BY <2>1 DEF TypeOK, OptionsHandles
  <2>4. \A p \in OptionsHandles, v \in Views :
          ptr[p] # Null => (view'[v] = ptr[p] <=> view[v] = ptr[p])
    BY <2>1, HeldObjects, OtherHeld DEF Follow, TypeOK, OptionsHandles
  <2> QED
    BY <2>2, <2>3, <2>4, Stutter
<1> QED
  BY <1>1, <1>2

-----------------------------------------------------------------------------
(* A setting that is made in a C object is made for the options that hold  *)
(* it, and for no others.                                                  *)
LEMMA SetIn ==
  ASSUME SInv, NEW o \in OptionsHandles, ptr[o] # Null,
         NEW f \in TopFields \cup BgpFields, NEW x \in Values,
         settings' = [settings EXCEPT ![ptr[o]][f] = x],
         UNCHANGED <<ptr, view>>
  PROVE  ByValue!Set(o, f, x)
<1>1. o \in Handles /\ ptr[o] \in CObjects
  BY HeldObjects DEF OptionsHandles, SInv, IInv, TypeOK
<1>2. settings'[ptr[o]] = [settings[ptr[o]] EXCEPT ![f] = x]
  BY <1>1 DEF SInv, ViewsLive
<1>3. \A p \in OptionsHandles : p # o => settings'[ptr[p]] = settings[ptr[p]] \/ ptr[p] = Null
  <2> TAKE p \in OptionsHandles
  <2>1. p # o => ptr[p] # ptr[o]
    BY <1>1, OwnSettings DEF OptionsHandles
  <2>2. ptr[p] = Null \/ ptr[p] \in CObjects
    BY HeldObjects DEF OptionsHandles, SInv, IInv, TypeOK
  <2> QED
    BY <1>1, <2>1, <2>2 DEF SInv, ViewsLive
<1>4. Meant[o] = settings[ptr[o]] /\ Meant[o] # Null
  BY <1>1, SettingsAssumption DEF Meant, SInv, ViewsLive
<1>5. Meant' = [Meant EXCEPT ![o] = [Meant[o] EXCEPT ![f] = x]]
  BY <1>2, <1>3, <1>4, ZenonT(60) DEF Meant
<1>6. Of' = Of
  BY DEF Of
<1> QED
  BY <1>4, <1>5, <1>6 DEF ByValue!Set

LEMMA LookStep ==
  ASSUME SInv, NEW o \in Handles, NEW v \in Views, Bgp(o, v)
  PROVE  ByValue!Next
<1>1. /\ o \in OptionsHandles /\ ptr[o] # Null
      /\ view' = [view EXCEPT ![v] = ptr[o]]
      /\ UNCHANGED <<ptr, settings>>
  BY DEF Bgp, HasSettings, vars
<1>2. ptr[o] \in CObjects
  BY <1>1, HeldObjects DEF SInv, IInv, TypeOK
<1>3. Meant' = Meant /\ Meant[o] # Null
  BY <1>1, <1>2, SettingsAssumption DEF Meant, SInv, ViewsLive
<1>4. ASSUME NEW w \in Views
      PROVE  Of'[w] = IF w = v THEN {o} ELSE Of[w]
  <2>1. Of'[w] = {p \in OptionsHandles : ptr[p] # Null /\ ptr[p] = view'[w]}
    BY <1>1 DEF Of
  <2>2. view'[w] = IF w = v THEN ptr[o] ELSE view[w]
    BY <1>1 DEF SInv, ViewsLive
  <2>3. \A p \in OptionsHandles : ptr[p] = ptr[o] => p = o
    BY <1>1, OwnSettings DEF OptionsHandles
  <2> QED
    BY <1>1, <2>1, <2>2, <2>3 DEF Of
<1>5. Of' = [Of EXCEPT ![v] = {o}]
  BY <1>4 DEF Of
<1>6. ByValue!Look(o, v)
  BY <1>3, <1>5 DEF ByValue!Look
<1> QED
  BY <1>1, <1>6 DEF ByValue!Next

(* A view whose object was overwritten belongs to nobody: setting through  *)
(* it is nothing to the options that there are.                            *)
LEMMA SetThroughStep ==
  ASSUME SInv, NEW v \in Views, NEW f \in BgpFields, NEW x \in Values, SetBgp(v, f, x)
  PROVE  [ByValue!Next]_<<Meant, Of>>
<1>1. /\ view[v] # Null
      /\ settings' = [settings EXCEPT ![view[v]][f] = x]
      /\ UNCHANGED <<ptr, view>>
  BY DEF SetBgp, vars
<1>2. CASE \E o \in OptionsHandles : ptr[o] = view[v]
  <2>1. PICK o \in OptionsHandles : ptr[o] = view[v]
    BY <1>2
  <2>2. ByValue!Set(o, f, x)
    BY <1>1, <2>1, SetIn
  <2>3. o \in Of[v]
    BY <1>1, <2>1 DEF Of
  <2>4. ByValue!SetThrough(v, f, x)
    BY <2>2, <2>3 DEF ByValue!SetThrough
  <2> QED
    BY <2>4 DEF ByValue!Next
<1>3. CASE \A o \in OptionsHandles : ptr[o] # view[v]
  <2>1. \A p \in OptionsHandles : ptr[p] # Null => settings'[ptr[p]] = settings[ptr[p]]
    <3> TAKE p \in OptionsHandles
    <3>1. ptr[p] = Null \/ ptr[p] \in CObjects
      BY HeldObjects DEF OptionsHandles, SInv, IInv, TypeOK
    <3> QED
      BY <1>1, <1>3, <3>1 DEF SInv, ViewsLive
  <2>2. UNCHANGED <<Meant, Of>>
    BY <1>1, <2>1, Stutter
  <2> QED
    BY <2>2
<1> QED
  BY <1>2, <1>3

LEMMA ValuesStep ==
  ASSUME SInv, [SettingsNext]_allVars
  PROVE  [ByValue!Next]_<<Meant, Of>>
<1>1. ASSUME Next, Follow
      PROVE  [ByValue!Next]_<<Meant, Of>>
  BY <1>1, CreateStep, ForgetStep, MoveStepOfValues, OthersStutter DEF Next
<1>2. ASSUME NEW o \in Handles, NEW f \in TopFields, NEW x \in Values, Set(o, f, x)
      PROVE  ByValue!Next
  <2>1. o \in OptionsHandles /\ ByValue!Set(o, f, x)
    BY <1>2, SetIn DEF Set, HasSettings, vars
  <2> QED
    BY <2>1 DEF ByValue!Next
<1>3. ASSUME UNCHANGED allVars
      PROVE  UNCHANGED <<Meant, Of>>
  BY <1>3 DEF allVars, vars, Meant, Of
<1> QED
  BY <1>1, <1>2, <1>3, LookStep, SetThroughStep DEF SettingsNext

(* Options with their setters, bgp() views and moves are values: every     *)
(* step of the handles and settings is one of options that have settings   *)
(* of their own, or nothing to them.                                       *)
THEOREM ImplementsValues == SettingsSpec => OptionsAreValues
<1>1. SettingsInit => ByValue!Init
  BY DEF SettingsInit, Init, ByValue!Init, Meant, Of, OptionsHandles
<1>2. SInv /\ [SettingsNext]_allVars => [ByValue!Next]_<<Meant, Of>>
  BY ValuesStep
<1> QED
  BY <1>1, <1>2, SettingsInvariant, PTL
     DEF SettingsSpec, OptionsAreValues, ByValue!Spec, ByValue!vars

(* With settings and views the handles are still handles, so what is       *)
(* proved of them holds here: pointers are valid and freed once.           *)
THEOREM ImplementsHandles == SettingsSpec => Spec
<1>1. SettingsInit => Init
  BY DEF SettingsInit
<1> QED
  BY <1>1, HandlesStep, PTL DEF SettingsSpec, Spec
=============================================================================
