------------------------------ MODULE Journal ------------------------------
(***************************************************************************)
(* What the logger promises to its callers, without mutex, sinks and       *)
(* steps of opening and closing: between its invocation and its return     *)
(* every call takes effect at one instant.  A log call appends its entry   *)
(* to the one place its kind is kept in, or is lost; the first Close ends  *)
(* the appending for the rest of the process; what was appended stays,     *)
(* over any number of processes.                                           *)
(***************************************************************************)
EXTENDS Naturals, Sequences

CONSTANTS Caller, Kind, Medium, Nowhere

VARIABLES
  up,       \* a process with a logger runs
  open,     \* its logger has not been closed
  place,    \* kind -> medium its entries go to, or Nowhere
  pending,  \* caller -> idle, what it has called, or returning
  issued,   \* caller -> number of its calls so far
  log       \* medium -> the entries

vars == <<up, open, place, pending, issued, log>>

Init ==
  /\ up = FALSE /\ open = FALSE
  /\ place = [k \in Kind |-> Nowhere]
  /\ pending = [c \in Caller |-> "idle"]
  /\ issued = [c \in Caller |-> 0]
  /\ log = [m \in Medium |-> <<>>]

Start ==
  /\ ~up
  /\ up' = TRUE /\ open' = TRUE
  /\ place' \in [Kind -> Medium \cup {Nowhere}]
  /\ UNCHANGED <<pending, issued, log>>

Invoke(c) ==
  /\ up /\ pending[c] = "idle"
  /\ \E r \in Kind \cup {"Close"} : pending' = [pending EXCEPT ![c] = r]
  /\ issued' = [issued EXCEPT ![c] = @ + 1]
  /\ UNCHANGED <<up, open, place, log>>

TakesEffect(c) == pending' = [pending EXCEPT ![c] = "returning"]

Record(c) ==
  /\ pending[c] \in Kind
  /\ open /\ place[pending[c]] # Nowhere
  /\ log' = [log EXCEPT ![place[pending[c]]] = Append(@, <<c, issued[c]>>)]
  /\ TakesEffect(c)
  /\ UNCHANGED <<up, open, place, issued>>

(* The journal is closed, keeps nothing of this kind, or could not write.  *)
Lose(c) ==
  /\ pending[c] \in Kind
  /\ TakesEffect(c)
  /\ UNCHANGED <<up, open, place, issued, log>>

Close(c) ==
  /\ pending[c] = "Close"
  /\ open' = FALSE
  /\ TakesEffect(c)
  /\ UNCHANGED <<up, place, issued, log>>

Return(c) ==
  /\ pending[c] = "returning"
  /\ pending' = [pending EXCEPT ![c] = "idle"]
  /\ UNCHANGED <<up, open, place, issued, log>>

End ==
  /\ up
  /\ up' = FALSE /\ open' = FALSE
  /\ place' = [k \in Kind |-> Nowhere]
  /\ pending' = [c \in Caller |-> "idle"]
  /\ UNCHANGED <<issued, log>>

Next ==
  \/ Start
  \/ \E c \in Caller :
       Invoke(c) \/ Record(c) \/ Lose(c) \/ Close(c) \/ Return(c)
  \/ End

Spec == Init /\ [][Next]_vars
=============================================================================
