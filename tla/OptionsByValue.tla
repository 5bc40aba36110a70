--------------------------- MODULE OptionsByValue ---------------------------
(***************************************************************************)
(* What a program may think its options are: an Options object has         *)
(* settings of its own, or none when memory was short or it was moved      *)
(* from, and a move hands the settings over.  What bgp() returns is a view *)
(* of the settings, not of the object: it follows them when they are       *)
(* moved, and belongs to nobody once they are overwritten.                 *)
(***************************************************************************)
EXTENDS Integers

CONSTANTS
  Options,    (* names of Options objects                                  *)
  Views,      (* names of views that the program holds                     *)
  TopFields,  (* settings of Options                                       *)
  BgpFields,  (* settings of bgp::Options                                  *)
  Values,     (* what a setting can be                                     *)
  Defaults,   (* the settings to start with                                *)
  None        (* no settings                                               *)

VARIABLES
  meant,  (* [Options -> settings or None]                                 *)
  of      (* [Views -> SUBSET Options]: whose settings it shows            *)

vars == <<meant, of>>

Init == /\ meant = [o \in Options |-> None]
        /\ of = [v \in Views |-> {}]

Create(o) ==
  /\ meant[o] = None
  /\ meant' = [meant EXCEPT ![o] = Defaults]
  /\ UNCHANGED of

Forget(o) ==
  /\ meant' = [meant EXCEPT ![o] = None]
  /\ of' = [v \in Views |-> of[v] \ {o}]

(* What o had is lost; moving to itself loses everything.                  *)
Move(o, other) ==
  /\ meant' = [meant EXCEPT ![o] = meant[other], ![other] = None]
  /\ of' = [v \in Views |-> IF other \in of[v] /\ o # other THEN {o}
                            ELSE of[v] \ {o}]

Set(o, f, x) ==
  /\ meant[o] # None
  /\ meant' = [meant EXCEPT ![o] = [@ EXCEPT ![f] = x]]
  /\ UNCHANGED of

Look(o, v) ==
  /\ meant[o] # None
  /\ of' = [of EXCEPT ![v] = {o}]
  /\ UNCHANGED meant

SetThrough(v, f, x) == \E o \in of[v] : Set(o, f, x)

Next ==
  \/ \E o \in Options : Create(o) \/ Forget(o)
  \/ \E o, other \in Options : Move(o, other)
  \/ \E o \in Options, f \in TopFields, x \in Values : Set(o, f, x)
  \/ \E o \in Options, v \in Views : Look(o, v)
  \/ \E v \in Views, f \in BgpFields, x \in Values : SetThrough(v, f, x)

Spec == Init /\ [][Next]_vars
=============================================================================
