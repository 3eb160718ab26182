--------------------------- MODULE WebhookProofs ---------------------------
(***************************************************************************)
(* What the webhook's log says is true, for any number of URLs and events. *)
(* That every URL is served is a liveness property and stays with TLC.     *)
(***************************************************************************)
EXTENDS Webhook, TLAPS

(* The inductive invariant: what the goroutine of one event has done so    *)
(* far, the request it has under way included.                             *)
EventInv(e) ==
  /\ posts < e => at[e] = 0
  /\ phase[e] = "arrived" => <<e, at[e]>> \in arrived
  /\ \A u \in Url :
       /\ result[e][u] # "none" <=> at[e] > u
       /\ result[e][u] \in {"ok", "warn"} => <<e, u>> \in arrived
       /\ <<e, u>> \in arrived => at[e] >= u
       /\ <<e, u>> \in arrived /\ phase[e] # "arrived" => at[e] > u

WebhookInv == WebhookTypeOK /\ \A e \in Event : EventInv(e)

-----------------------------------------------------------------------------
(* The empty log satisfies the invariant.                                  *)
LEMMA InitInv == Init => WebhookInv
<1> SUFFICES ASSUME Init PROVE WebhookInv
  OBVIOUS
<1>1. WebhookTypeOK
  BY WebhookAssumption DEF Init, WebhookTypeOK, Phase, Level, Url
<1>2. ASSUME NEW e \in Event PROVE EventInv(e)
  BY <1>2, WebhookAssumption DEF Init, EventInv, Url, Event
<1> QED BY <1>1, <1>2 DEF WebhookInv

(* Post starts a goroutine at the first URL, where nothing has happened.   *)
LEMMA PostInv == WebhookInv /\ Post => WebhookInv'
<1> SUFFICES ASSUME WebhookInv, Post PROVE WebhookInv'
  OBVIOUS
<1> USE WebhookAssumption
<1>1. /\ posts + 1 \in Event /\ posts' = posts + 1
      /\ at' = [at EXCEPT ![posts + 1] = 1]
      /\ UNCHANGED <<phase, arrived, result>>
      /\ at[posts + 1] = 0
  <2>1. posts \in 0 .. MaxPosts /\ posts < MaxPosts
    BY DEF Post, WebhookInv, WebhookTypeOK
  <2>2. posts + 1 \in Event /\ posts < posts + 1
    BY <2>1 DEF Event
  <2>3. at[posts + 1] = 0
    BY <2>2 DEF WebhookInv, EventInv
  <2> QED BY <2>2, <2>3 DEF Post
<1>2. phase[posts + 1] = "build"
  BY <1>1 DEF WebhookInv, WebhookTypeOK, Url
<1>3. WebhookTypeOK'
  BY <1>1, <1>2 DEF WebhookInv, WebhookTypeOK, Url, Event
<1>4. ASSUME NEW e \in Event PROVE EventInv(e)'
  <2>1. EventInv(e) /\ posts \in Nat /\ at[e] \in 0 .. NumUrls + 1
    BY <1>4 DEF WebhookInv, WebhookTypeOK
  <2>2. CASE e = posts + 1
    <3>1. at'[e] = 1 /\ phase'[e] = "build"
      BY <1>1, <1>2, <2>2 DEF WebhookInv, WebhookTypeOK
    <3> QED BY <1>1, <2>1, <2>2, <3>1 DEF EventInv, Url
  <2>3. CASE e # posts + 1
    <3>1. at'[e] = at[e]
      BY <1>1, <2>3 DEF WebhookInv, WebhookTypeOK
    <3> QED BY <1>1, <2>1, <2>3, <3>1 DEF EventInv, Url, Event
  <2> QED BY <2>2, <2>3
<1> QED BY <1>3, <1>4 DEF WebhookInv

(* Send and Arrives change what is under way at the current URL.           *)
LEMMA RequestInv ==
  ASSUME WebhookInv, NEW e \in Event, Send(e) \/ Arrives(e)
  PROVE  WebhookInv'
<1> USE WebhookAssumption
<1>1. /\ UNCHANGED <<posts, at, result>> /\ at[e] \in Url
      /\ arrived' \subseteq arrived \cup {<<e, at[e]>>}
      /\ arrived \subseteq arrived'
      /\ at[e] \notin Malformed
      /\ \/ phase' = [phase EXCEPT ![e] = "sent"] /\ phase[e] = "build"
            /\ arrived' = arrived
         \/ phase' = [phase EXCEPT ![e] = "arrived"] /\ <<e, at[e]>> \in arrived'
  BY DEF Send, Arrives, visiting, WebhookInv, WebhookTypeOK
<1>2. WebhookTypeOK'
  BY <1>1 DEF WebhookInv, WebhookTypeOK, Phase
<1>3. ASSUME NEW f \in Event PROVE EventInv(f)'
  <2>1. EventInv(f) /\ at[f] \in 0 .. NumUrls + 1
    BY <1>3 DEF WebhookInv, WebhookTypeOK
  <2>2. CASE f # e
    <3>1. /\ phase'[f] = phase[f]
          /\ \A u \in Url : <<f, u>> \in arrived' <=> <<f, u>> \in arrived
          /\ <<f, at[f]>> \in arrived => <<f, at[f]>> \in arrived'
      BY <1>1, <2>2 DEF WebhookInv, WebhookTypeOK
    <3> QED BY <1>1, <2>1, <3>1 DEF EventInv
  <2>3. CASE f = e
    <3>1. phase'[e] \in {"sent", "arrived"} /\ (phase'[e] = "arrived" => <<e, at[e]>> \in arrived')
      BY <1>1 DEF WebhookInv, WebhookTypeOK
    <3>2. \A u \in Url : <<e, u>> \in arrived' => <<e, u>> \in arrived \/ u = at[e]
      BY <1>1
    <3>3. phase'[e] = "sent" => phase[e] = "build" /\ arrived' = arrived
      BY <1>1 DEF WebhookInv, WebhookTypeOK
    <3>4. at[e] \in Nat /\ \A u \in Url : u \in Nat
      BY <1>1 DEF Url
    <3> QED BY <1>1, <2>1, <2>3, <3>1, <3>2, <3>3, <3>4 DEF EventInv
  <2> QED BY <2>2, <2>3
<1> QED BY <1>2, <1>3 DEF WebhookInv

(* Logging the result of the current URL moves the goroutine to the next.  *)
LEMMA LogInv ==
  ASSUME WebhookInv, NEW e \in Event, NEW level \in Level,
         at[e] \in Url, logResult(e, level), arrived' = arrived,
         level \in {"ok", "warn"} => <<e, at[e]>> \in arrived
  PROVE  WebhookInv'
<1> USE WebhookAssumption
<1>1. /\ posts' = posts /\ at' = [at EXCEPT ![e] = at[e] + 1]
      /\ phase' = [phase EXCEPT ![e] = "build"]
      /\ result' = [result EXCEPT ![e][at[e]] = level]
  BY DEF logResult
<1>2. at[e] \in 1 .. NumUrls /\ at[e] + 1 \in 0 .. NumUrls + 1
  BY DEF Url
<1>3. WebhookTypeOK'
  BY <1>1, <1>2 DEF WebhookInv, WebhookTypeOK, Phase
<1>4. ASSUME NEW f \in Event PROVE EventInv(f)'
  <2>1. EventInv(f) /\ at[f] \in 0 .. NumUrls + 1
    BY <1>4 DEF WebhookInv, WebhookTypeOK
  <2>2. CASE f # e
    <3>1. /\ phase'[f] = phase[f] /\ at'[f] = at[f] /\ result'[f] = result[f]
      BY <1>1, <2>2 DEF WebhookInv, WebhookTypeOK
    <3> QED BY <1>1, <2>1, <3>1 DEF EventInv
  <2>3. CASE f = e
    <3>1. /\ phase'[e] = "build" /\ at'[e] = at[e] + 1
          /\ result'[e][at[e]] = level
          /\ \A u \in Url : u # at[e] => result'[e][u] = result[e][u]
      BY <1>1 DEF WebhookInv, WebhookTypeOK
    <3>2. level # "none"
      BY DEF Level
    <3>3. ~(posts < e)
      BY <1>2, <2>1, <2>3 DEF EventInv
    <3>4. ASSUME NEW u \in Url
          PROVE  /\ result'[e][u] # "none" <=> at'[e] > u
                 /\ result'[e][u] \in {"ok", "warn"} => <<e, u>> \in arrived
                 /\ <<e, u>> \in arrived => at'[e] > u
      <4>1. /\ result[e][u] # "none" <=> at[e] > u
            /\ result[e][u] \in {"ok", "warn"} => <<e, u>> \in arrived
            /\ <<e, u>> \in arrived => at[e] >= u
        BY <2>1, <2>3 DEF EventInv
      <4>2. u \in Nat /\ at[e] \in Nat
        BY <1>2 DEF Url
      <4>3. CASE u = at[e]
        BY <3>1, <3>2, <4>2, <4>3
      <4>4. CASE u # at[e]
        BY <3>1, <4>1, <4>2, <4>4
      <4> QED BY <4>3, <4>4
    <3>5. \A u \in Url : <<e, u>> \in arrived => at'[e] >= u
      BY <1>2, <3>1, <3>4 DEF Url
    <3>6. phase'[e] # "arrived"
      BY <3>1
    <3>7. EventInv(e)'
      BY <1>1, <3>3, <3>4, <3>5, <3>6 DEF EventInv
    <3> QED BY <2>3, <3>7
  <2> QED BY <2>2, <2>3
<1> QED BY <1>3, <1>4 DEF WebhookInv

(* Every step preserves the invariant.                                     *)
LEMMA NextInv == WebhookInv /\ [Next]_vars => WebhookInv'
<1> SUFFICES ASSUME WebhookInv, [Next]_vars PROVE WebhookInv'
  OBVIOUS
<1>1. CASE UNCHANGED vars
  BY <1>1 DEF vars, WebhookInv, WebhookTypeOK, EventInv
<1>2. CASE Post
  BY <1>2, PostInv
<1>3. ASSUME NEW e \in Event, Send(e) \/ Arrives(e)
      PROVE  WebhookInv'
  BY <1>3, RequestInv
<1>4. ASSUME NEW e \in Event, NewRequestFails(e) \/ PostFails(e)
      PROVE  WebhookInv'
  <2>1. at[e] \in Url /\ logResult(e, "error") /\ arrived' = arrived
    BY <1>4 DEF NewRequestFails, PostFails, visiting
  <2> QED BY <2>1, LogInv DEF Level
<1>5. ASSUME NEW e \in Event, Answered(e)
      PROVE  WebhookInv'
  <2>1. PICK level \in {"ok", "warn"} : logResult(e, level)
    BY <1>5 DEF Answered
  <2>2. at[e] \in Url /\ arrived' = arrived /\ <<e, at[e]>> \in arrived
    BY <1>5 DEF Answered, visiting, WebhookInv, EventInv
  <2> QED BY <2>1, <2>2, LogInv DEF Level
<1> QED BY <1>1, <1>2, <1>3, <1>4, <1>5 DEF Next

(* The invariant holds in every reachable state.                           *)
THEOREM WebhookInvariance == Spec => []WebhookInv
BY InitInv, NextInv, PTL DEF Spec

(* Type correctness; no request is under way at a URL that cannot be       *)
(* requested.                                                              *)
THEOREM WebhookTypeCorrect == Spec => []WebhookTypeOK
<1>1. WebhookInv => WebhookTypeOK
  BY DEF WebhookInv
<1> QED BY <1>1, WebhookInvariance, PTL

(* The log has one truthful result for every URL gone past, and no other.  *)
THEOREM LogIsTrue == Spec => []LogMatches
<1>1. WebhookInv => LogMatches
  BY DEF WebhookInv, EventInv, LogMatches
<1> QED BY <1>1, WebhookInvariance, PTL
=============================================================================
