------------------------------- MODULE Handles -------------------------------
(***************************************************************************)
(* The classes that own an object of a C library through a CPtrView:       *)
(* Message, Options, GzipStream and Bzip2Stream.  Each has its own         *)
(* constructor and destructor, and default moves, which are those of       *)
(* CPtrView: they copy the pointer and null the source.                    *)
(*                                                                         *)
(* A C object that exists is in objects; a handle refers to one or to      *)
(* Null.  Streams also have a status_, which a move copies.                *)
(***************************************************************************)
EXTENDS Integers

CONSTANTS
  Handles,   (* names of C++ objects                                       *)
  CObjects,  (* names of C objects                                         *)
  Null,      (* the null pointer                                           *)
  Class,     (* [Handles -> Classes]                                       *)
  Builds     (* subset of BOOLEAN: are assertions compiled in?             *)

Streams == {"gzip", "bzip2"}
Classes == {"message", "options"} \cup Streams

ASSUME HandlesAssumption == /\ Null \notin CObjects
                            /\ Class \in [Handles -> Classes]
                            /\ Builds \subseteq BOOLEAN

VARIABLES
  asserts,  (* this build has assertions                                   *)
  pc,       (* "running", or "aborted" by an assertion                     *)
  alive,    (* handles between construction and destruction                *)
  ptr,      (* cptr_                                                       *)
  status,   (* status_ of streams: "OK" or not                             *)
  objects   (* the C objects that exist                                    *)

vars == <<asserts, pc, alive, ptr, status, objects>>

Statuses == {"OK", "ERROR"}
Held(o) == {ptr[o]} \ {Null}

Init ==
  /\ asserts \in Builds
  /\ pc = "running"
  /\ alive = {}
  /\ ptr = [o \in Handles |-> Null]
  /\ status = [o \in Handles |-> "OK"]
  /\ objects = {}

(* The constructors of Message and Options: memory may be short.           *)
Construct(o) ==
  /\ pc = "running" /\ o \notin alive /\ Class[o] \notin Streams
  /\ alive' = alive \cup {o}
  /\ \/ UNCHANGED <<ptr, objects>>
     \/ \E c \in CObjects \ objects :
          ptr' = [ptr EXCEPT ![o] = c] /\ objects' = objects \cup {c}
  /\ UNCHANGED <<asserts, pc, status>>

(* Opening a stream; an open gzip stream may start with an error, when the *)
(* size of its internal buffer is refused.                                 *)
Open(o) ==
  /\ pc = "running" /\ o \notin alive /\ Class[o] \in Streams
  /\ alive' = alive \cup {o}
  /\ \/ /\ status' = [status EXCEPT ![o] = "ERROR"]
        /\ UNCHANGED <<ptr, objects>>
     \/ \E c \in CObjects \ objects :
          /\ ptr' = [ptr EXCEPT ![o] = c]
          /\ objects' = objects \cup {c}
          /\ \E s \in IF Class[o] = "gzip" THEN Statuses ELSE {"OK"} :
               status' = [status EXCEPT ![o] = s]
  /\ UNCHANGED <<asserts, pc>>

(* read() of a gzip stream that fails, as it does on a null handle; one    *)
(* that succeeds leaves the handle as it is.                               *)
ReadGzip(o) ==
  /\ pc = "running" /\ o \in alive /\ Class[o] = "gzip"
  /\ status' = [status EXCEPT ![o] = "ERROR"]
  /\ UNCHANGED <<asserts, pc, alive, ptr, objects>>

(* gzclose_r() of an open file: it reports a file that ended in mid-stream *)
(* where it was last read, and an error of close() for any.                *)
CloseMayFail(o) == Class[o] = "gzip" /\ ptr[o] # Null

(* Mutant: the C object is left. *)
Destroy_NotFreed(o) ==
  /\ pc = "running" /\ o \in alive
  /\ alive' = alive \ {o}
  /\ ptr' = [ptr EXCEPT ![o] = Null]
  /\ status' = [status EXCEPT ![o] = "OK"]
  /\ UNCHANGED <<asserts, pc, objects>>

(* The destructors.  The one of GzipStream asserts that closing succeeded; *)
(* the object is freed either way.                                         *)
Destroy(o) ==
  /\ pc = "running" /\ o \in alive
  /\ \/ UNCHANGED pc
     \/ asserts /\ CloseMayFail(o) /\ pc' = "aborted"
  /\ alive' = alive \ {o}
  /\ ptr' = [ptr EXCEPT ![o] = Null]
  /\ status' = [status EXCEPT ![o] = "OK"]
  /\ objects' = objects \ Held(o)
  /\ UNCHANGED asserts

(* Mutant: a move leaves the source its pointer. *)
MoveConstruct_SourceKept(o, other) ==
  /\ pc = "running" /\ Class[o] = Class[other]
  /\ o \notin alive /\ other \in alive
  /\ alive' = alive \cup {o}
  /\ ptr' = [ptr EXCEPT ![o] = ptr[other]]
  /\ status' = [status EXCEPT ![o] = status[other]]
  /\ UNCHANGED <<asserts, pc, objects>>

MoveConstruct(o, other) ==
  /\ pc = "running" /\ Class[o] = Class[other]
  /\ o \notin alive /\ other \in alive
  /\ alive' = alive \cup {o}
  /\ ptr' = [ptr EXCEPT ![o] = ptr[other], ![other] = Null]
  /\ status' = [status EXCEPT ![o] = status[other]]
  /\ UNCHANGED <<asserts, pc, objects>>

(* The pointer is overwritten and not freed; a move to itself nulls it.    *)
MoveAssign(o, other) ==
  /\ pc = "running" /\ Class[o] = Class[other]
  /\ {o, other} \subseteq alive
  /\ ptr' = [ptr EXCEPT ![o] = ptr[other], ![other] = Null]
  /\ status' = [status EXCEPT ![o] = status[other]]
  /\ UNCHANGED <<asserts, pc, alive, objects>>

(* Mutant: the arguments of swap() are copied from and not moved from. *)
Swap_ArgumentsKept(o, other) ==
  /\ pc = "running" /\ {o, other} \subseteq alive
  /\ Class[o] = "message" /\ Class[other] = "message"
  /\ objects' = objects \ (Held(o) \cup Held(other))
  /\ UNCHANGED <<asserts, pc, alive, ptr, status>>

(* swap() of two messages takes its arguments by value: it can be called   *)
(* with std::move only, and exchanges and destroys what it was given.      *)
Swap(o, other) ==
  /\ pc = "running" /\ {o, other} \subseteq alive
  /\ Class[o] = "message" /\ Class[other] = "message"
  /\ ptr' = [ptr EXCEPT ![o] = Null, ![other] = Null]
  /\ objects' = objects \ (Held(o) \cup Held(other))
  /\ UNCHANGED <<asserts, pc, alive, status>>

(* clear_status() of a stream.                                             *)
ClearStatus(o) ==
  /\ pc = "running" /\ o \in alive /\ Class[o] \in Streams
  /\ status' = [status EXCEPT ![o] = "OK"]
  /\ UNCHANGED <<asserts, pc, alive, ptr, objects>>

Next == \E o \in Handles :
          \/ Construct(o)
          \/ Open(o)
          \/ ReadGzip(o)
          \/ Destroy(o)
          \/ ClearStatus(o)
          \/ \E other \in Handles : MoveConstruct(o, other)
          \/ \E other \in Handles : MoveAssign(o, other)
          \/ \E other \in Handles : Swap(o, other)

Spec == Init /\ [][Next]_vars

-----------------------------------------------------------------------------
(* The state has its shape; a handle is null or refers to a C object that  *)
(* exists, whatever moves, swaps and destructions there were: no method    *)
(* and no destructor uses one that is gone.                                *)
TypeOK ==
  /\ asserts \in BOOLEAN
  /\ pc \in {"running", "aborted"}
  /\ alive \subseteq Handles
  /\ ptr \in [Handles -> objects \cup {Null}]
  /\ status \in [Handles -> Statuses]
  /\ objects \subseteq CObjects

(* A C object is referred to by one handle at most, one between its        *)
(* construction and its destruction, so that no two destructors free the   *)
(* same object.                                                            *)
OneHolder ==
  /\ \A o \in Handles : o \notin alive => ptr[o] = Null
  /\ \A o, p \in Handles : ptr[o] = ptr[p] => o = p \/ ptr[o] = Null

(* A C object that exists loses its handle in one way only: the handle is  *)
(* assigned to.  Destruction, move construction and swap leak nothing.     *)
LeaksOnlyByAssignment ==
  [][\A o \in Handles :
       Held(o) \cap objects' # {} /\ (\A p \in Handles : ptr[o] # ptr'[p]) =>
         \E p \in Handles : MoveAssign(o, p)]_vars
=============================================================================
