--------------------------- MODULE OptionsSettings ---------------------------
(***************************************************************************)
(* The settings in the C objects that Options handles own, the setters,    *)
(* and the bgp::Options views that bgp() gives out: pointers into the C    *)
(* object, with setters of their own.                                      *)
(*                                                                         *)
(* A program calls setters and bgp() on options that have a C object, and  *)
(* drops its views of options that are destroyed: it must, since nothing   *)
(* in a view tells that its object is gone and the next one may be at the  *)
(* same address.  It need not know of moves.                               *)
(***************************************************************************)
EXTENDS Handles

CONSTANTS
  Views,      (* names of bgp::Options views                               *)
  TopFields,  (* settings of Options                                       *)
  BgpFields,  (* settings of bgp::Options, array elements among them       *)
  Values,     (* what a setting can be                                     *)
  Defaults    (* what parsebgp_opts_init() makes of them                   *)

VARIABLES
  settings,  (* [CObjects -> settings]                                     *)
  view       (* [Views -> CObjects or Null]                                *)

allVars == <<vars, settings, view>>

ASSUME SettingsAssumption ==
  /\ TopFields \cap BgpFields = {}
  /\ Defaults \in [TopFields \cup BgpFields -> Values]
  /\ \A x \in [TopFields \cup BgpFields -> Values] : x # Null

OptionsHandles == {o \in Handles : Class[o] = "options"}

SettingsInit ==
  /\ Init
  /\ settings = [c \in CObjects |-> Defaults]
  /\ view = [v \in Views |-> Null]

(* What the operations of handles do to settings and views: the settings   *)
(* of a new object are initialised, views of one that is freed are gone.   *)
Follow ==
  /\ settings' = [c \in CObjects |-> IF c \in objects' \ objects THEN Defaults
                                     ELSE settings[c]]
  /\ view' = [v \in Views |-> IF view[v] \in objects' THEN view[v] ELSE Null]

HasSettings(o) == pc = "running" /\ o \in OptionsHandles /\ ptr[o] # Null

(* The setters of Options.                                                 *)
Set(o, f, x) ==
  /\ HasSettings(o)
  /\ settings' = [settings EXCEPT ![ptr[o]][f] = x]
  /\ UNCHANGED <<vars, view>>

(* bgp(): nothing is copied.                                                *)
Bgp(o, v) ==
  /\ HasSettings(o)
  /\ view' = [view EXCEPT ![v] = ptr[o]]
  /\ UNCHANGED <<vars, settings>>

(* The setters of bgp::Options.                                            *)
SetBgp(v, f, x) ==
  /\ pc = "running" /\ view[v] # Null
  /\ settings' = [settings EXCEPT ![view[v]][f] = x]
  /\ UNCHANGED <<vars, view>>

SettingsNext ==
  \/ Next /\ Follow
  \/ \E o \in Handles, f \in TopFields, x \in Values : Set(o, f, x)
  \/ \E o \in Handles, v \in Views : Bgp(o, v)
  \/ \E v \in Views, f \in BgpFields, x \in Values : SetBgp(v, f, x)

SettingsSpec == SettingsInit /\ [][SettingsNext]_allVars

-----------------------------------------------------------------------------
(* The options as values: the settings that a handle holds, and the        *)
(* handle whose settings a view shows.                                     *)
Meant == [o \in OptionsHandles |-> IF ptr[o] = Null THEN Null ELSE settings[ptr[o]]]
Of == [v \in Views |-> {o \in OptionsHandles : ptr[o] # Null /\ ptr[o] = view[v]}]

(* Whatever constructions, moves, assignments and destructions there are   *)
(* of handles of every class, and through whichever view or object a       *)
(* setting is made, every Options object has the settings that were made   *)
(* for it and no others: none is shared, none changes by a move, and a     *)
(* view taken before a move goes on setting what has moved.                *)
ByValue == INSTANCE OptionsByValue WITH
  Options <- OptionsHandles, None <- Null, meant <- Meant, of <- Of
OptionsAreValues == ByValue!Spec
=============================================================================
