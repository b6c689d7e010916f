---------------------------- MODULE HandleTable ----------------------------
(***************************************************************************)
(* What the handle-based API promises: creating a resource issues a handle *)
(* that was never issued before and that names this resource, and nothing  *)
(* else, until some copy of the handle is destroyed; from then on every    *)
(* copy of it names nothing, for as long as the promise stands.            *)
(***************************************************************************)
EXTENDS Integers

CONSTANTS
  Vars,      \* the client's handle variables
  Objects,   \* the driver objects a handle can stand for
  Handle,    \* the handles that can be issued
  Invalid    \* the handle that names nothing

VARIABLES
  table,     \* issued and not destroyed: handle -> object
  issued,    \* every handle ever issued
  held,      \* the handle in each client variable
  promised   \* whether the promise stands: it may lapse, for ever

vars == <<table, issued, held, promised>>

Init == /\ table = [h \in {} |-> Invalid]
        /\ issued = {}
        /\ held = [v \in Vars |-> Invalid]
        /\ promised = TRUE

(* The handle returned is whatever v holds after the step.                 *)
Create(v) ==
  LET h == held'[v]
  IN  /\ h \in Handle
      /\ h \notin issued
      /\ issued' = issued \cup {h}
      /\ held' = [held EXCEPT ![v] = h]
      /\ \E o \in Objects :
           /\ \A k \in DOMAIN table : table[k] # o
           /\ table' = [k \in DOMAIN table \cup {h} |->
                          IF k = h THEN o ELSE table[k]]

CreateFails(v) ==
  /\ held' = [held EXCEPT ![v] = Invalid]
  /\ UNCHANGED <<table, issued>>

Copy(v, w) ==
  /\ held' = [held EXCEPT ![w] = held[v]]
  /\ UNCHANGED <<table, issued>>

(* A destroy removes the entry of its own handle and no other.             *)
Destroy(v) ==
  /\ held[v] \in DOMAIN table
  /\ table' = [k \in DOMAIN table \ {held[v]} |-> table[k]]
  /\ held' = [held EXCEPT ![v] = Invalid]
  /\ UNCHANGED issued

(* Once the promise lapses anything goes.                                  *)
Lapse == promised' = FALSE

Next == \/ /\ UNCHANGED promised
           /\ \/ \E v \in Vars : Create(v) \/ CreateFails(v) \/ Destroy(v)
              \/ \E v, w \in Vars : Copy(v, w)
        \/ Lapse

Spec == Init /\ [][Next]_vars
=============================================================================
