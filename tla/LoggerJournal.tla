--------------------------- MODULE LoggerJournal ---------------------------
(***************************************************************************)
(* The logger implements Journal.  A call takes effect at its write, or    *)
(* when it sees that the logger is closed; Close takes effect when it sets *)
(* l.closed, before the sinks are closed one by one.                       *)
(***************************************************************************)
EXTENDS Logger

Nowhere == <<>>

placeOf ==
  [k \in Kind |-> IF proc = "running" /\ modeOf(k) # "off"
                  THEN mediumOf(k) ELSE Nowhere]

pendingAt(position, request) ==
  CASE position = "idle"                        -> "idle"
    [] position \in {"lock", "locked", "write"} -> request
    [] position \in {"close", "unlock"}         -> "returning"

pendingOf == [c \in Caller |-> pendingAt(at[c], op[c])]

J == INSTANCE Journal WITH
       up      <- proc = "running",
       open    <- proc = "running" /\ ~closed,
       place   <- placeOf,
       pending <- pendingOf,
       issued  <- calls,
       log     <- stored

(* System, Access and Close are atomic for their callers, in whatever      *)
(* order the goroutines get the mutex: each log call adds at most one      *)
(* entry, to the sink its mode names, none after a Close has taken effect, *)
(* although Close takes several steps and the process may end at any one.  *)
ImplementsJournal == J!Spec
=============================================================================
