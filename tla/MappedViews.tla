----------------------------- MODULE MappedViews -----------------------------
(***************************************************************************)
(* What the mio library promises about mapping objects: an object views a  *)
(* range of a file or nothing; a view comes into being only by a call that *)
(* maps, lies within its file, and is never at two objects.                *)
(***************************************************************************)
EXTENDS Integers

CONSTANTS
  Objects,      \* the objects there can be
  Files,        \* the files there are
  FileSize,     \* their sizes
  NoView        \* what an object that maps nothing views

VARIABLES
  living,       \* the objects that exist
  view          \* what each of them views

vars == <<living, view>>

(***************************************************************************)
(* A range of bytes of a file, from offset on.                             *)
(***************************************************************************)
InFile(v) == v.file \in Files /\ v.offset + v.length <= FileSize[v.file]

Init == living = {} /\ view = [o \in Objects |-> NoView]

MayView(o) == InFile(view'[o]) \/ view'[o] = NoView

OthersKeep(S) == \A x \in Objects \ S : view'[x] = view[x]

Create(o) ==
  /\ o \notin living
  /\ living' = living \cup {o}
  /\ MayView(o) /\ OthersKeep({o})

Establish(o) ==
  /\ o \in living
  /\ UNCHANGED living
  /\ MayView(o) /\ OthersKeep({o})

(***************************************************************************)
(* The object o, one there is or a new one, takes the view of other, and   *)
(* possibly the place of an old object, which ends.                        *)
(***************************************************************************)
Transfer(o, other, ended) ==
  /\ o # other /\ other \in living /\ ended \subseteq living \ {o, other}
  /\ living' = (living \cup {o}) \ ended
  /\ view'[o] = view[other]
  /\ \A x \in {other} \cup ended : view'[x] = NoView
  /\ OthersKeep({o, other} \cup ended)

Exchange(o, other) ==
  /\ {o, other} \subseteq living
  /\ UNCHANGED living
  /\ view'[o] = view[other] /\ view'[other] = view[o]
  /\ OthersKeep({o, other})

Destroy(o) ==
  /\ o \in living
  /\ living' = living \ {o}
  /\ view'[o] = NoView /\ OthersKeep({o})

Next ==
  \E o \in Objects :
    \/ Create(o) \/ Establish(o) \/ Destroy(o)
    \/ \E other \in Objects :
         \/ Exchange(o, other)
         \/ \E ended \in SUBSET (living \ living') : Transfer(o, other, ended)

Spec == Init /\ [][Next]_vars
=============================================================================
