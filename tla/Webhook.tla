------------------------------ MODULE Webhook ------------------------------
(***************************************************************************)
(* server/webhook.go.  Every event the relay reports is posted by a        *)
(* goroutine of its own, which visits the configured URLs one after the    *)
(* other and logs one result for each.  The http.Client has no timeout:    *)
(* how long a URL takes is up to whoever answers there.                    *)
(*                                                                         *)
(* Events are numbered in the order in which Post was called.  The body of *)
(* a request, the elapsed time and the wording of the log are left out,    *)
(* and so is the failure of json.Marshal on the server's own payload.      *)
(***************************************************************************)
EXTENDS Naturals

CONSTANTS
  NumUrls,     \* len(w.URLs); NewWebhook returns nil for 0
  Malformed,   \* URLs http.NewRequest refuses
  Silent,      \* URLs that take requests and may never answer
  MaxPosts     \* bound: events posted

Url   == 1 .. NumUrls
Event == 1 .. MaxPosts

ASSUME WebhookAssumption ==
  /\ NumUrls \in Nat
  /\ MaxPosts \in Nat
  /\ Malformed \subseteq Url
  /\ Silent \subseteq Url

VARIABLES
  posts,    \* calls of Post so far
  at,       \* event -> the URL its goroutine is at; 0 before, NumUrls+1 after
  phase,    \* event -> what the goroutine is doing there
  arrived,  \* <<event, URL>> of the requests a receiver has got
  result    \* event -> URL -> level of the logged result

vars == <<posts, at, phase, arrived, result>>

Phase == {"build", "sent", "arrived"}
Level == {"ok", "warn", "error"}

Init ==
  /\ posts = 0
  /\ at = [e \in Event |-> 0]
  /\ phase = [e \in Event |-> "build"]
  /\ arrived = {}
  /\ result = [e \in Event |-> [u \in Url |-> "none"]]

(* The loop of deliver is at a URL.                                        *)
visiting(e, p) == at[e] \in Url /\ phase[e] = p

(* Post starts the goroutine and returns.  With no URL the goroutine has   *)
(* nothing to visit; the code does not start it then.                      *)
Post ==
  /\ posts < MaxPosts
  /\ posts' = posts + 1
  /\ at' = [at EXCEPT ![posts + 1] = 1]
  /\ UNCHANGED <<phase, arrived, result>>

(* Broken variant of logResult: a failure ends the loop.                   *)
logResultAndGiveUp(e, level) ==
  /\ result' = [result EXCEPT ![e][at[e]] = level]
  /\ at' = [at EXCEPT ![e] = IF level = "error" THEN NumUrls + 1 ELSE @ + 1]
  /\ phase' = [phase EXCEPT ![e] = "build"]
  /\ UNCHANGED posts

(* Broken variant of logResult: the next request is taken for sent.        *)
logResultOnly(e, level) ==
  /\ result' = [result EXCEPT ![e][at[e]] = level]
  /\ at' = [at EXCEPT ![e] = @ + 1]
  /\ UNCHANGED <<posts, phase>>

(* Every branch of the loop's body ends here: log, then the next URL.      *)
logResult(e, level) ==
  /\ result' = [result EXCEPT ![e][at[e]] = level]
  /\ at' = [at EXCEPT ![e] = @ + 1]
  /\ phase' = [phase EXCEPT ![e] = "build"]
  /\ UNCHANGED posts

NewRequestFails(e) ==
  /\ visiting(e, "build")
  /\ at[e] \in Malformed
  /\ logResult(e, "error")
  /\ UNCHANGED arrived

(* http.Client.Do puts the request on the wire.                            *)
Send(e) ==
  /\ visiting(e, "build")
  /\ at[e] \notin Malformed
  /\ phase' = [phase EXCEPT ![e] = "sent"]
  /\ UNCHANGED <<posts, at, arrived, result>>

Arrives(e) ==
  /\ visiting(e, "sent")
  /\ phase' = [phase EXCEPT ![e] = "arrived"]
  /\ arrived' = arrived \cup {<<e, at[e]>>}
  /\ UNCHANGED <<posts, at, result>>

(* Broken variant of Answered: the answer is not waited for.               *)
AnsweredEarly(e) ==
  /\ visiting(e, "sent") \/ visiting(e, "arrived")
  /\ \E level \in {"ok", "warn"} : logResult(e, level)
  /\ UNCHANGED arrived

(* A response: "ok" for 2xx, "warn" for every other status.                *)
Answered(e) ==
  /\ visiting(e, "arrived")
  /\ \E level \in {"ok", "warn"} : logResult(e, level)
  /\ UNCHANGED arrived

(* Do returns an error: before the request arrived (refused, no such host) *)
(* or after (the connection was cut before the response).                  *)
PostFails(e) ==
  /\ visiting(e, "sent") \/ visiting(e, "arrived")
  /\ logResult(e, "error")
  /\ UNCHANGED arrived

Next ==
  \/ Post
  \/ \E e \in Event :
       NewRequestFails(e) \/ Send(e) \/ Arrives(e) \/ Answered(e) \/ PostFails(e)

(* The goroutines run; a URL that is not silent answers every request or   *)
(* refuses it, a silent one owes nothing.                                  *)
Fairness ==
  \A e \in Event :
    /\ WF_vars(NewRequestFails(e) \/ Send(e))
    /\ WF_vars(at[e] \notin Silent /\ (Arrives(e) \/ Answered(e) \/ PostFails(e)))

Spec == Init /\ [][Next]_vars /\ Fairness

-----------------------------------------------------------------------------
(* The values of the variables; nothing is under way at a malformed URL.   *)
WebhookTypeOK ==
  /\ posts \in 0 .. MaxPosts
  /\ at \in [Event -> 0 .. NumUrls + 1]
  /\ phase \in [Event -> Phase]
  /\ \A e \in Event : phase[e] # "build" => at[e] \in Url \ Malformed
  /\ arrived \subseteq Event \X Url
  /\ result \in [Event -> [Url -> Level \cup {"none"}]]

(* The log tells the truth about every URL: it has a result exactly for    *)
(* the URLs the goroutine has gone past, in order and without gaps, and a  *)
(* success or a warning only where the receiver got the event.  (An error  *)
(* does not mean that the receiver did not get it.)                        *)
LogMatches ==
  \A e \in Event, u \in Url :
    /\ result[e][u] # "none" <=> at[e] > u
    /\ result[e][u] \in {"ok", "warn"} => <<e, u>> \in arrived
    /\ <<e, u>> \in arrived => at[e] >= u

(* "Post delivers the event to every URL", and a failing URL does not keep *)
(* the event from the others: every URL that does not stay silent is       *)
(* visited and its result logged, for every event posted.                  *)
EveryUrlServed ==
  \A e \in Event : \A u \in Url \ Silent :
    posts >= e ~> result[e][u] # "none"
=============================================================================
