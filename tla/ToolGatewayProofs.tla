-------------------------- MODULE ToolGatewayProofs --------------------------
(***************************************************************************)
(* What holds of ToolGateway for every number of calls, every set of keys, *)
(* requests and fault plans and every limit on attempts.                   *)
(***************************************************************************)
EXTENDS ToolGateway, SequenceTheorems, TLAPS

\* Between the claim of the key and the answer.
Working == {"attempt", "handler", "applied", "backoff", "persist"}

Shapes ==
  /\ ClaimsTypeOK
  /\ pc \in [Callers -> Places]
  /\ want \in [Callers -> Want]
  /\ attempt \in [Callers -> Nat]
  /\ last \in [Callers -> Outcomes]
  /\ answer \in [Callers -> Answer]
  /\ effects \subseteq [token : Keys, key : Keys, request : Requests]

\* A call that has begun asks for something, and a write has a key.
AsksOK(c) ==
  pc[c] \notin {"idle", "crashed"} =>
    /\ want[c].request \in Requests
    /\ IsWrite(c) => IsKeyed(c)
    /\ pc[c] = "claim" => IsKeyed(c)

\* The call a claim names, if it still runs, holds it for its own request.
OwnerOK(c) ==
  pc[c] # "crashed" =>
    \A k \in Keys :
      claims[k].owner = c =>
        /\ pc[c] # "idle"
        /\ Key(c) = k
        /\ claims[k].request = want[c].request

\* A call at work has bound its key, whoever holds the claim by now.
BoundOK(c) ==
  pc[c] \in Working /\ IsKeyed(c) => claims[Key(c)].request = want[c].request

\* An answer of success is what the table completed the key with.
AnswerOK(c) ==
  /\ pc[c] \notin {"reply", "done"} => answer[c] = NoAnswer
  /\ answer[c].by # NoCaller <=> answer[c].status = "succeeded"
  /\ answer[c].by # NoCaller /\ IsKeyed(c) =>
       /\ claims[Key(c)].state = "completed"
       /\ claims[Key(c)].owner = answer[c].by
       /\ claims[Key(c)].request = want[c].request

\* Whoever is about to report a write has seen its effect.
WorkOK(c) ==
  /\ IsWrite(c)
  /\ pc[c] = "applied" \/ (pc[c] = "persist" /\ last[c] = "ok")
  => \E e \in effects : e.key = Key(c)

\* Effects are filed under their key, for the request the key is bound to,
\* and a completed write has one.
EffectsOK ==
  /\ \A e \in effects : e.token = e.key /\ claims[e.key].request = e.request
  /\ \A k \in Keys :
       claims[k].state = "completed" /\ claims[k].request \in Writes =>
         \E e \in effects : e.key = k

CallOK(c) ==
  AsksOK(c) /\ OwnerOK(c) /\ BoundOK(c) /\ AnswerOK(c) /\ WorkOK(c)

IInv == Shapes /\ EffectsOK /\ \A c \in Callers : CallOK(c)

-----------------------------------------------------------------------------
(* The claim table *)

\* What a step may do to a claim: nothing, hand a free one to a call, end
\* one of its owner, or let its lease run out.
Hands(k, c, q) ==
  /\ Acquirable(k, q, TRUE)
  /\ claims' = [claims EXCEPT ![k] = Held(c, q)]

Completes(k, c) ==
  Owns(k, c) /\ claims' = [claims EXCEPT ![k].state = "completed"]

Fails(k, c, d) ==
  /\ Owns(k, c)
  /\ claims' = [claims EXCEPT ![k].state = "failed", ![k].disposition = d]

LEMMA ClaimMoves ==
  ASSUME NEW k \in Keys, NEW c \in Callers, NEW q \in Requests,
         ClaimToolExecution(k, c, q, TRUE)
  PROVE  IF Acquirable(k, q, TRUE) THEN Hands(k, c, q) ELSE claims' = claims
  BY DEF ClaimToolExecution, Hands

LEMMA ClaimShapes ==
  ASSUME ClaimsTypeOK, NEW k \in Keys, NEW c \in Callers,
         \/ UNCHANGED claims
         \/ \E q \in Requests : Hands(k, c, q)
         \/ Completes(k, c)
         \/ \E d \in Dispositions : Fails(k, c, d)
         \/ ClaimExpires(k)
  PROVE  ClaimsTypeOK'
  <1> DEFINE State == {"claimed", "completed", "failed"}
             Full == [state : State, owner : Callers, live : BOOLEAN,
                      request : Requests, disposition : Dispositions]
  <1>1. ASSUME NEW q \in Requests, Hands(k, c, q) PROVE ClaimsTypeOK'
    <2>1. Held(c, q) \in Full
      BY DEF Held, Dispositions
    <2> QED
      BY <1>1, <2>1 DEF Hands, ClaimsTypeOK, ToolClaim
  <1>2. ASSUME claims[k].state = "claimed" PROVE claims[k] \in Full
    BY <1>2 DEF ClaimsTypeOK, ToolClaim, Absent
  <1>3. ASSUME Completes(k, c) PROVE ClaimsTypeOK'
    <2>1. claims[k] \in Full
      BY <1>2, <1>3 DEF Completes, Owns
    <2>2. [claims[k] EXCEPT !.state = "completed"] \in Full
      BY <2>1
    <2>3. claims' = [claims EXCEPT ![k] =
                       [claims[k] EXCEPT !.state = "completed"]]
      BY <1>3 DEF Completes
    <2> HIDE DEF Full
    <2>4. [claims[k] EXCEPT !.state = "completed"] \in ToolClaim
      BY <2>2 DEF ToolClaim, Full
    <2> QED
      BY <2>3, <2>4 DEF ClaimsTypeOK
  <1>4. ASSUME NEW d \in Dispositions, Fails(k, c, d) PROVE ClaimsTypeOK'
    <2>1. claims[k] \in Full
      BY <1>2, <1>4 DEF Fails, Owns
    <2> DEFINE ended == [claims[k] EXCEPT !.state = "failed", !.disposition = d]
    <2>2. ended \in Full
      BY <2>1
    <2>3. claims' = [claims EXCEPT ![k] = ended]
      BY <1>4 DEF Fails, ClaimsTypeOK
    <2>4. ended \in ToolClaim
      BY <2>2 DEF ToolClaim
    <2> HIDE DEF ended
    <2> QED
      BY <2>3, <2>4 DEF ClaimsTypeOK
  <1>5. ASSUME ClaimExpires(k) PROVE ClaimsTypeOK'
    <2>1. claims[k] \in Full
      BY <1>2, <1>5 DEF ClaimExpires
    <2> DEFINE expired == [claims[k] EXCEPT !.live = FALSE]
    <2>2. expired \in Full
      BY <2>1
    <2>3. claims' = [claims EXCEPT ![k] = expired]
      BY <1>5 DEF ClaimExpires
    <2>4. expired \in ToolClaim
      BY <2>2 DEF ToolClaim
    <2> HIDE DEF expired
    <2> QED
      BY <2>3, <2>4 DEF ClaimsTypeOK
  <1> QED
    BY <1>1, <1>3, <1>4, <1>5 DEF ClaimsTypeOK

\* What no step of call c may break in the claim table: a bound key keeps
\* its request, a completed one is left alone, a claim changes hands only to
\* c for its own request, and only c's success completes one.
Steady(c) ==
  \A k \in Keys :
    /\ claims[k].request \in Requests =>
         claims'[k].request = claims[k].request
    /\ claims[k].state = "completed" => claims'[k] = claims[k]
    /\ \/ claims'[k].owner = claims[k].owner
       \/ /\ pc[c] = "claim" /\ Key(c) = k
          /\ claims'[k].owner = c
          /\ claims'[k].request = want[c].request
    /\ claims'[k].state = "completed" =>
         \/ claims[k].state = "completed"
         \/ /\ pc[c] = "persist" /\ last[c] = "ok"
            /\ claims[k].owner = c

LEMMA SteadyMoves ==
  ASSUME Shapes, NEW c \in Callers, IsKeyed(c),
         want[c].request \in Requests,
         \/ UNCHANGED claims
         \/ pc[c] = "claim" /\ Hands(Key(c), c, want[c].request)
         \/ pc[c] = "persist" /\ last[c] = "ok" /\ Completes(Key(c), c)
         \/ \E d \in Dispositions : Fails(Key(c), c, d)
  PROVE  Steady(c) /\ ClaimsTypeOK'
  <1>1. Key(c) \in Keys
    BY DEF Shapes, Want, IsKeyed, Key
  <1>2. claims \in [Keys -> ToolClaim]
    BY DEF Shapes, ClaimsTypeOK
  <1>3. ClaimsTypeOK'
    BY <1>1, ClaimShapes DEF Shapes
  <1>4. CASE UNCHANGED claims
    BY <1>4, <1>3 DEF Steady
  <1>5. CASE pc[c] = "claim" /\ Hands(Key(c), c, want[c].request)
    <2>1. claims' = [claims EXCEPT ![Key(c)] = Held(c, want[c].request)]
      BY <1>5 DEF Hands
    <2>2. /\ claims[Key(c)].state # "completed"
          /\ claims[Key(c)].state # "absent" =>
               claims[Key(c)].request = want[c].request
      BY <1>5 DEF Hands, Acquirable, Conflicts, Abandoned, Retryable
    <2>3. claims[Key(c)].state = "absent" => claims[Key(c)].request = NoRequest
      BY <1>1, <1>2 DEF ToolClaim, Absent
    <2>4. claims'[Key(c)] = Held(c, want[c].request)
      BY <2>1, <1>1, <1>2
    <2>5. \A k \in Keys : k # Key(c) => claims'[k] = claims[k]
      BY <2>1, <1>1, <1>2
    <2> QED
      BY <1>5, <1>3, <2>2, <2>3, <2>4, <2>5, GatewayAssumption DEF Steady, Held
  <1>6. CASE /\ pc[c] = "persist" /\ last[c] = "ok"
             /\ Completes(Key(c), c)
    <2> DEFINE done == [claims[Key(c)] EXCEPT !.state = "completed"]
    <2>1. claims' = [claims EXCEPT ![Key(c)] = done]
      BY <1>6 DEF Completes
    <2>2. done.request = claims[Key(c)].request /\ done.owner = claims[Key(c)].owner
      OBVIOUS
    <2> HIDE DEF done
    <2>3. claims'[Key(c)] = done
      BY <2>1, <1>1, <1>2
    <2>4. \A k \in Keys : k # Key(c) => claims'[k] = claims[k]
      BY <2>1, <1>1, <1>2
    <2>5. claims[Key(c)].state = "claimed" /\ claims[Key(c)].owner = c
      BY <1>6 DEF Completes, Owns
    <2> QED
      BY <1>6, <1>3, <2>2, <2>3, <2>4, <2>5 DEF Steady
  <1>7. ASSUME NEW d \in Dispositions, Fails(Key(c), c, d)
        PROVE  Steady(c)
    <2> DEFINE ended ==
                 [claims[Key(c)] EXCEPT !.state = "failed", !.disposition = d]
    <2>1. claims' = [claims EXCEPT ![Key(c)] = ended]
      BY <1>7, <1>1, <1>2 DEF Fails
    <2>2. /\ ended.request = claims[Key(c)].request
          /\ ended.owner = claims[Key(c)].owner
          /\ claims[Key(c)] \in ToolClaim => ended.state = "failed"
      BY DEF ToolClaim, Absent
    <2> HIDE DEF ended
    <2>3. claims'[Key(c)] = ended
      BY <2>1, <1>1, <1>2
    <2>4. \A k \in Keys : k # Key(c) => claims'[k] = claims[k]
      BY <2>1, <1>1, <1>2
    <2>5. claims[Key(c)].state = "claimed"
      BY <1>7 DEF Fails, Owns
    <2> QED
      BY <1>1, <1>2, <2>2, <2>3, <2>4, <2>5 DEF Steady
  <1> QED
    BY <1>3, <1>4, <1>5, <1>6, <1>7

\* A lease that runs out changes no claim that matters.
LEMMA SteadyExpiry ==
  ASSUME Shapes, NEW k \in Keys, ClaimExpires(k)
  PROVE  ClaimsTypeOK' /\ \A c \in Callers : Steady(c)
  <1> DEFINE expired == [claims[k] EXCEPT !.live = FALSE]
  <1>1. claims \in [Keys -> ToolClaim]
    BY DEF Shapes, ClaimsTypeOK
  <1>2. claims' = [claims EXCEPT ![k] = expired]
    BY DEF ClaimExpires
  <1>3. /\ expired.request = claims[k].request
        /\ expired.owner = claims[k].owner
        /\ claims[k].state = "claimed" /\ claims[k] \in ToolClaim =>
             expired.state = "claimed"
    BY DEF ToolClaim, Absent
  <1>4. claims[k].state = "claimed"
    BY DEF ClaimExpires
  <1>5. ClaimsTypeOK'
    <2>1. claims[k] \in ToolClaim \ {Absent}
      BY <1>1, <1>4 DEF Absent
    <2>2. expired \in ToolClaim
      BY <2>1 DEF ToolClaim
    <2> HIDE DEF expired
    <2> QED
      BY <1>1, <1>2, <2>2 DEF ClaimsTypeOK
  <1> HIDE DEF expired
  <1>6. claims'[k] = expired /\ \A i \in Keys : i # k => claims'[i] = claims[i]
    BY <1>1, <1>2
  <1> QED
    BY <1>1, <1>3, <1>4, <1>5, <1>6 DEF Steady

-----------------------------------------------------------------------------
(* The invariant *)

\* A call whose own variables a step leaves alone keeps its invariant.
LEMMA Bystanders ==
  ASSUME IInv, Shapes', NEW c \in Callers, Steady(c), effects \subseteq effects',
         NEW d \in Callers,
         pc'[d] = pc[d], want'[d] = want[d], last'[d] = last[d],
         answer'[d] = answer[d]
  PROVE  CallOK(d)'
  <1> DEFINE q == want[d].request
             Holds == IsKeyed(d) => Key(d) \in Keys
  <1>1. Holds
    BY DEF IInv, Shapes, Want, IsKeyed, Key
  <1>2. CallOK(d) /\ CallOK(c)
    BY DEF IInv
  <1>3. AsksOK(d)'
    BY <1>2 DEF CallOK, AsksOK, IsWrite, IsKeyed, Key
  <1>4. ASSUME pc[d] # "crashed", NEW k \in Keys, claims'[k].owner = d
        PROVE  pc[d] # "idle" /\ Key(d) = k /\ claims'[k].request = q
    <2>1. CASE claims[k].owner = d
      <3>1. /\ pc[d] # "idle" /\ Key(d) = k /\ claims[k].request = q
        BY <1>2, <1>4, <2>1 DEF CallOK, OwnerOK
      <3>2. q \in Requests
        BY <1>2, <1>4, <3>1 DEF CallOK, AsksOK
      <3> QED
        BY <3>1, <3>2 DEF Steady
    <2>2. CASE claims[k].owner # d
      BY <1>4, <2>2 DEF Steady
    <2> QED
      BY <2>1, <2>2
  <1>5. OwnerOK(d)'
    BY <1>4 DEF OwnerOK, Key
  <1>6. BoundOK(d)'
    BY <1>1, <1>2 DEF CallOK, AsksOK, BoundOK, Steady, IsKeyed, Key, Working
  <1>7. AnswerOK(d)'
    BY <1>1, <1>2 DEF CallOK, AnswerOK, Steady, IsKeyed, Key
  <1>8. WorkOK(d)'
    BY <1>2 DEF CallOK, WorkOK, IsWrite, Key
  <1> QED
    BY <1>3, <1>5, <1>6, <1>7, <1>8 DEF CallOK

\* So does the acting call, as far as the claim table goes, if it keeps
\* what it asked for.
LEMMA ActorOwns ==
  ASSUME IInv, NEW c \in Callers, Steady(c), want' = want,
         pc'[c] # "idle", pc[c] \notin {"idle", "crashed"},
         pc'[c] = "claim" => pc[c] = "claim"
  PROVE  AsksOK(c)' /\ OwnerOK(c)'
  <1>1. CallOK(c)
    BY DEF IInv
  <1>2. AsksOK(c)'
    BY <1>1 DEF CallOK, AsksOK, IsWrite, IsKeyed, Key
  <1>3. ASSUME NEW k \in Keys, claims'[k].owner = c
        PROVE  Key(c) = k /\ claims'[k].request = want[c].request
    BY <1>1, <1>3 DEF Steady, CallOK, OwnerOK, AsksOK
  <1> QED
    BY <1>2, <1>3 DEF OwnerOK, Key

\* A call that stays at work keeps its key bound and gives no answer yet.
LEMMA ActorWorks ==
  ASSUME IInv, NEW c \in Callers, Steady(c), want' = want, answer' = answer,
         pc[c] \in Working, pc'[c] \notin {"idle", "claim", "reply", "done"}
  PROVE  AsksOK(c)' /\ OwnerOK(c)' /\ BoundOK(c)' /\ AnswerOK(c)'
  <1>1. CallOK(c) /\ (IsKeyed(c) => Key(c) \in Keys)
    BY DEF IInv, Shapes, Want, IsKeyed, Key
  <1>2. AsksOK(c)' /\ OwnerOK(c)'
    BY ActorOwns DEF Working
  <1>3. BoundOK(c)'
    BY <1>1 DEF CallOK, AsksOK, BoundOK, Steady, IsKeyed, Key, Working
  <1>4. AnswerOK(c)'
    BY <1>1 DEF CallOK, AnswerOK, NoAnswer, Working
  <1> QED
    BY <1>2, <1>3, <1>4

\* The effects of a step that adds none.
LEMMA EffectsStay ==
  ASSUME IInv, NEW c \in Callers, Steady(c), effects' = effects
  PROVE  EffectsOK'
  <1>1. ASSUME NEW e \in effects
        PROVE  e.token = e.key /\ claims'[e.key].request = e.request
    <2>1. e.key \in Keys /\ e.request \in Requests
      BY DEF IInv, Shapes
    <2> QED
      BY <2>1 DEF IInv, EffectsOK, Steady
  <1>2. ASSUME NEW k \in Keys, claims'[k].state = "completed",
               claims'[k].request \in Writes
        PROVE  \E e \in effects : e.key = k
    <2>1. CASE claims[k].state = "completed"
      BY <1>2, <2>1 DEF IInv, EffectsOK, Steady
    <2>2. CASE claims[k].state # "completed"
      <3>1. pc[c] = "persist" /\ last[c] = "ok" /\ claims[k].owner = c
        BY <1>2, <2>2 DEF Steady
      <3>2. CallOK(c)
        BY DEF IInv
      <3>3. /\ Key(c) = k /\ claims[k].request = want[c].request
            /\ want[c].request \in Requests
        BY <3>1, <3>2 DEF CallOK, OwnerOK, AsksOK
      <3>4. IsWrite(c)
        BY <1>2, <3>3 DEF Steady, IsWrite
      <3> QED
        BY <3>1, <3>2, <3>3, <3>4 DEF CallOK, WorkOK
    <2> QED
      BY <2>1, <2>2
  <1> QED
    BY <1>1, <1>2 DEF EffectsOK

\* What every step of a call c does.
Acts(c) ==
  /\ Shapes'
  /\ Steady(c)
  /\ effects \subseteq effects'
  /\ EffectsOK'
  /\ CallOK(c)'
  /\ \A d \in Callers : d # c =>
       /\ pc'[d] = pc[d] /\ want'[d] = want[d]
       /\ last'[d] = last[d] /\ answer'[d] = answer[d]

LEMMA ActsKeep ==
  ASSUME IInv, NEW c \in Callers, Acts(c)
  PROVE  IInv'
  <1>1. ASSUME NEW d \in Callers, d # c PROVE CallOK(d)'
    BY <1>1, Bystanders DEF Acts
  <1> QED
    BY <1>1 DEF Acts, IInv

LEMMA SteadyStutter ==
  ASSUME NEW c \in Callers, claims' = claims
  PROVE  Steady(c)
  BY DEF Steady

\* A call that has begun: its key, if any, and its request are real.
LEMMA Begun ==
  ASSUME IInv, NEW c \in Callers, pc[c] \notin {"idle", "crashed"}
  PROVE  /\ want[c].request \in Requests
         /\ IsKeyed(c) => Key(c) \in Keys
         /\ IsWrite(c) => IsKeyed(c)
         /\ pc[c] = "claim" => IsKeyed(c)
  BY DEF IInv, Shapes, CallOK, AsksOK, Want, IsKeyed, Key

LEMMA CallActs ==
  ASSUME IInv, NEW c \in Callers, NEW k \in Keys \cup {NoKey},
         NEW q \in Requests, Call(c, k, q)
  PROVE  Acts(c)
  <1>1. /\ pc[c] = "idle"
        /\ q \in Writes => k # NoKey
        /\ want' = [want EXCEPT ![c] = [key |-> k, request |-> q]]
        /\ UNCHANGED <<claims, attempt, last, effects>>
    BY DEF Call
  <1>2. \/ /\ pc' = [pc EXCEPT ![c] = "reply"]
           /\ answer' = [answer EXCEPT ![c] = Failing("preflight_failed", 0)]
        \/ /\ pc' = [pc EXCEPT ![c] = "attempt"] /\ k = NoKey
           /\ answer' = answer
        \/ /\ pc' = [pc EXCEPT ![c] = "claim"] /\ k # NoKey
           /\ answer' = answer
    BY DEF Call, Finishing, Goto
  <1>3. [key |-> k, request |-> q] \in Want
    BY DEF Want
  <1>4. /\ Failing("preflight_failed", 0) \in Answer
        /\ Failing("preflight_failed", 0).by = NoCaller
        /\ Failing("preflight_failed", 0).status = "failed"
    BY DEF Failing, NoAnswer, Answer, Codes
  <1>5. /\ pc \in [Callers -> Places] /\ want \in [Callers -> Want]
        /\ answer \in [Callers -> Answer]
    BY DEF IInv, Shapes
  <1> HIDE DEF Failing
  <1>6. /\ pc' \in [Callers -> Places] /\ want' \in [Callers -> Want]
        /\ answer' \in [Callers -> Answer]
    BY <1>1, <1>2, <1>3, <1>4, <1>5 DEF Places, Ended
  <1>7. Shapes'
    BY <1>1, <1>6 DEF IInv, Shapes, ClaimsTypeOK
  <1>8. Steady(c) /\ EffectsOK'
    BY <1>1, SteadyStutter, EffectsStay
  <1>9. /\ want'[c].key = k /\ want'[c].request = q
        /\ pc'[c] \in {"reply", "attempt", "claim"}
        /\ pc'[c] = "attempt" => k = NoKey
        /\ pc'[c] = "claim" => k # NoKey
    BY <1>1, <1>2, <1>5
  <1>10. CallOK(c)
    BY DEF IInv
  <1>11. AsksOK(c)' /\ BoundOK(c)'
    BY <1>1, <1>9 DEF AsksOK, BoundOK, IsKeyed, IsWrite, Key, Working
  <1>12. OwnerOK(c)'
    BY <1>1, <1>10 DEF CallOK, OwnerOK
  <1>13. answer[c] = NoAnswer
    BY <1>1, <1>10 DEF CallOK, AnswerOK
  <1>14. AnswerOK(c)'
    <2>1. NoAnswer.by = NoCaller /\ NoAnswer.status # "succeeded"
      BY DEF NoAnswer
    <2>2. \/ answer'[c] = NoAnswer
          \/ pc'[c] = "reply" /\ answer'[c] = Failing("preflight_failed", 0)
      BY <1>2, <1>5, <1>13
    <2> QED
      BY <1>4, <1>9, <2>1, <2>2 DEF AnswerOK
  <1>15. WorkOK(c)'
    BY <1>9 DEF WorkOK
  <1>16. \A d \in Callers : d # c =>
           /\ pc'[d] = pc[d] /\ want'[d] = want[d]
           /\ last'[d] = last[d] /\ answer'[d] = answer[d]
    BY <1>1, <1>2, <1>5
  <1> QED
    BY <1>1, <1>7, <1>8, <1>11, <1>12, <1>14, <1>15, <1>16 DEF Acts, CallOK

\* What a call may be told that was not granted its claim.
LEMMA RefusalFacts ==
  ASSUME IInv, NEW c \in Callers, pc[c] = "claim", NEW a \in Refusals(c)
  PROVE  /\ a \in Answer
         /\ a.by # NoCaller <=> a.status = "succeeded"
         /\ a.by # NoCaller =>
              /\ claims[Key(c)].state = "completed"
              /\ claims[Key(c)].owner = a.by
              /\ claims[Key(c)].request = want[c].request
  <1>1. Key(c) \in Keys
    BY Begun
  <1>2. claims[Key(c)] \in ToolClaim
    BY <1>1 DEF IInv, Shapes, ClaimsTypeOK
  <1>3. \A code \in Codes :
          /\ Failing(code, 0) \in Answer
          /\ Failing(code, 0).by = NoCaller
          /\ Failing(code, 0).status = "failed"
    BY DEF Failing, NoAnswer, Answer
  <1> DEFINE told == [NoAnswer EXCEPT !.status = "succeeded", !.cached = TRUE,
                                      !.by = claims[Key(c)].owner]
  <1>4. \/ \E code \in Codes : a = Failing(code, 0)
        \/ /\ claims[Key(c)].state = "completed"
           /\ ~Conflicts(Key(c), want[c].request)
           /\ a = told
    BY DEF Refusals, Codes
  <1>5. CASE \E code \in Codes : a = Failing(code, 0)
    BY <1>3, <1>5
  <1>6. CASE /\ claims[Key(c)].state = "completed"
             /\ ~Conflicts(Key(c), want[c].request)
             /\ a = told
    <2>1. claims[Key(c)].owner \in Callers
      BY <1>2, <1>6 DEF ToolClaim, Absent
    <2>2. told.status = "succeeded" /\ told.by = claims[Key(c)].owner
      BY DEF NoAnswer
    <2>3. told \in Answer
      BY <2>1 DEF NoAnswer, Answer, Codes
    <2>4. claims[Key(c)].request = want[c].request
      BY <1>6 DEF Conflicts
    <2> QED
      BY <1>6, <2>1, <2>2, <2>3, <2>4, GatewayAssumption
  <1> QED
    BY <1>4, <1>5, <1>6

LEMMA ClaimKeyActs ==
  ASSUME IInv, NEW c \in Callers, ClaimKey(c)
  PROVE  Acts(c)
  <1> DEFINE k == Key(c)
             q == want[c].request
  <1>1. /\ pc[c] = "claim"
        /\ ClaimToolExecution(k, c, q, TRUE)
        /\ UNCHANGED <<want, attempt, last, effects>>
    BY DEF ClaimKey
  <1>2. k \in Keys /\ q \in Requests /\ IsKeyed(c)
    BY <1>1, Begun
  <1>3. CallOK(c)
    BY DEF IInv
  <1>4. /\ pc \in [Callers -> Places] /\ answer \in [Callers -> Answer]
    BY DEF IInv, Shapes
  <1>5. CASE Acquirable(k, q, TRUE)
    <2>1. Hands(k, c, q)
      BY <1>1, <1>2, <1>5, ClaimMoves
    <2>2. pc' = [pc EXCEPT ![c] = "attempt"] /\ answer' = answer
      BY <1>5 DEF ClaimKey, Goto
    <2>3. Steady(c) /\ ClaimsTypeOK'
      BY <1>1, <1>2, <2>1, SteadyMoves DEF IInv
    <2>4. Shapes'
      BY <1>1, <1>4, <2>2, <2>3 DEF IInv, Shapes, Places
    <2>5. EffectsOK'
      BY <1>1, <2>3, EffectsStay
    <2>6. AsksOK(c)' /\ OwnerOK(c)'
      BY <1>1, <1>4, <2>2, <2>3, ActorOwns
    <2>7. claims'[k] = Held(c, q)
      BY <1>2, <2>1 DEF Hands, IInv, Shapes, ClaimsTypeOK
    <2>8. BoundOK(c)'
      BY <1>1, <2>7 DEF BoundOK, Key, Held
    <2>9. answer[c] = NoAnswer /\ NoAnswer.by = NoCaller
          /\ NoAnswer.status # "succeeded"
      BY <1>1, <1>3 DEF CallOK, AnswerOK, NoAnswer
    <2>10. AnswerOK(c)'
      BY <2>2, <2>9 DEF AnswerOK
    <2>11. WorkOK(c)'
      BY <1>4, <2>2 DEF WorkOK
    <2> QED
      BY <1>1, <1>4, <2>2, <2>3, <2>4, <2>5, <2>6, <2>8, <2>10, <2>11
      DEF Acts, CallOK
  <1>6. CASE ~Acquirable(k, q, TRUE)
    <2>1. claims' = claims
      BY <1>1, <1>2, <1>6, ClaimMoves
    <2>2. PICK a \in Refusals(c) :
            /\ pc' = [pc EXCEPT ![c] = "reply"]
            /\ answer' = [answer EXCEPT ![c] = a]
      BY <1>6 DEF ClaimKey, Finishing, Goto
    <2>3. /\ a \in Answer
          /\ a.by # NoCaller <=> a.status = "succeeded"
          /\ a.by # NoCaller =>
               /\ claims[k].state = "completed"
               /\ claims[k].owner = a.by
               /\ claims[k].request = q
      BY <1>1, RefusalFacts
    <2>4. Shapes'
      BY <1>1, <1>4, <2>1, <2>2, <2>3 DEF IInv, Shapes, ClaimsTypeOK, Places
    <2>5. Steady(c) /\ EffectsOK'
      BY <1>1, <2>1, SteadyStutter, EffectsStay
    <2>6. pc'[c] = "reply" /\ answer'[c] = a
      BY <1>4, <2>2
    <2>7. AsksOK(c)' /\ OwnerOK(c)'
      BY <1>1, <2>5, <2>6, ActorOwns
    <2>8. BoundOK(c)' /\ WorkOK(c)'
      BY <2>6 DEF BoundOK, WorkOK, Working
    <2>9. AnswerOK(c)'
      BY <1>1, <2>1, <2>3, <2>6 DEF AnswerOK, Key
    <2> QED
      BY <1>1, <1>4, <2>2, <2>4, <2>5, <2>7, <2>8, <2>9 DEF Acts, CallOK
  <1> QED
    BY <1>5, <1>6

\* An attempt that fails either leads to another one or to the end.
LEMMA FailingMoves ==
  ASSUME IInv, NEW c \in Callers, NEW events, NEW transient \in BOOLEAN,
         AttemptFails(c, events, transient)
  PROVE  /\ last' \in [Callers -> Outcomes] /\ pc' \in [Callers -> Places]
         /\ last'[c] # "ok" /\ pc'[c] \in {"backoff", "persist"}
         /\ \A d \in Callers : d # c => pc'[d] = pc[d] /\ last'[d] = last[d]
  <1>1. pc \in [Callers -> Places] /\ last \in [Callers -> Outcomes]
    BY DEF IInv, Shapes
  <1>2. PICK l \in {"backoff", "persist"}, r \in {"transient", "permanent"} :
          pc' = [pc EXCEPT ![c] = l] /\ last' = [last EXCEPT ![c] = r]
    BY DEF AttemptFails, Goto
  <1> QED
    BY <1>1, <1>2 DEF Places, Outcomes

\* A step inside the attempts of a call: neither its claim nor its answer
\* moves.
LEMMA AttemptActs ==
  ASSUME IInv, NEW c \in Callers, pc[c] \in Working,
         pc' \in [Callers -> Places], last' \in [Callers -> Outcomes],
         attempt' \in [Callers -> Nat],
         pc'[c] \in Working,
         pc'[c] = "applied" => FALSE,
         pc'[c] = "persist" /\ last'[c] = "ok" /\ IsWrite(c) =>
           pc[c] = "applied",
         \A d \in Callers : d # c => pc'[d] = pc[d] /\ last'[d] = last[d],
         UNCHANGED <<claims, want, answer, effects>>
  PROVE  Acts(c)
  <1>1. Steady(c) /\ EffectsOK'
    BY SteadyStutter, EffectsStay
  <1>2. Shapes'
    BY DEF IInv, Shapes, ClaimsTypeOK
  <1>3. AsksOK(c)' /\ OwnerOK(c)' /\ BoundOK(c)' /\ AnswerOK(c)'
    BY <1>1, ActorWorks DEF Working
  <1>4. CallOK(c)
    BY DEF IInv
  <1>5. WorkOK(c)'
    BY <1>4 DEF CallOK, WorkOK, IsWrite, Key
  <1> QED
    BY <1>1, <1>2, <1>3, <1>5 DEF Acts, CallOK

LEMMA StartAttemptActs ==
  ASSUME IInv, NEW c \in Callers, StartAttempt(c)
  PROVE  Acts(c)
  <1>1. /\ pc[c] = "attempt" /\ UNCHANGED <<claims, want, answer, effects>>
        /\ attempt' = [attempt EXCEPT ![c] = @ + 1]
    BY DEF StartAttempt
  <1>2. /\ pc \in [Callers -> Places] /\ last \in [Callers -> Outcomes]
        /\ attempt \in [Callers -> Nat]
    BY DEF IInv, Shapes
  <1>3. attempt' \in [Callers -> Nat]
    BY <1>1, <1>2
  <1>4. CASE pc' = [pc EXCEPT ![c] = "handler"] /\ last' = last
    BY <1>1, <1>2, <1>3, <1>4, AttemptActs DEF Working, Places
  <1>5. ASSUME NEW events, NEW transient \in BOOLEAN,
               AttemptFails(c, events, transient)
        PROVE  Acts(c)
    <2>1. /\ last' \in [Callers -> Outcomes] /\ pc' \in [Callers -> Places]
          /\ last'[c] # "ok" /\ pc'[c] \in {"backoff", "persist"}
          /\ \A d \in Callers : d # c => pc'[d] = pc[d] /\ last'[d] = last[d]
      BY <1>5, FailingMoves
    <2> QED
      BY <1>1, <1>3, <2>1, AttemptActs DEF Working
  <1> QED
    BY <1>4, <1>5 DEF StartAttempt, Goto

LEMMA HandlerAppliesActs ==
  ASSUME IInv, NEW c \in Callers, HandlerApplies(c)
  PROVE  Acts(c)
  <1> DEFINE k == Key(c)
             q == want[c].request
             mine == [token |-> k, key |-> k, request |-> q]
  <1>1. /\ pc[c] = "handler" /\ IsWrite(c)
        /\ pc' = [pc EXCEPT ![c] = "applied"]
        /\ UNCHANGED <<claims, want, attempt, last, answer>>
    BY DEF HandlerApplies, Goto
  <1>2. k \in Keys /\ q \in Requests /\ claims[k].request = q
    <2>1. k \in Keys /\ q \in Requests /\ IsKeyed(c)
      BY <1>1, Begun
    <2> QED
      BY <1>1, <2>1 DEF IInv, CallOK, BoundOK, Working
  <1>3. /\ pc \in [Callers -> Places]
        /\ effects \subseteq [token : Keys, key : Keys, request : Requests]
        /\ EffectsOK
    BY DEF IInv, Shapes
  <1>4. \/ effects' = effects /\ \E e \in effects : e.token = k
        \/ effects' = effects \cup {mine}
    BY DEF HandlerApplies, Token
  <1>5. /\ mine \in [token : Keys, key : Keys, request : Requests]
        /\ mine.token = k /\ mine.key = k /\ mine.request = q
    BY <1>2
  <1> HIDE DEF mine
  <1>6. \E e \in effects' : e.key = k
    BY <1>3, <1>4, <1>5 DEF EffectsOK
  <1>7. effects \subseteq effects'
    BY <1>4
  <1>8. Steady(c)
    BY <1>1, SteadyStutter
  <1>9. Shapes'
    BY <1>1, <1>3, <1>4, <1>5 DEF IInv, Shapes, ClaimsTypeOK, Places
  <1>10. EffectsOK'
    <2>1. \A e \in effects' : e.token = e.key /\ claims[e.key].request = e.request
      BY <1>2, <1>3, <1>4, <1>5 DEF EffectsOK
    <2>2. \A i \in Keys :
            claims[i].state = "completed" /\ claims[i].request \in Writes =>
              \E e \in effects' : e.key = i
      BY <1>3, <1>7 DEF EffectsOK
    <2> QED
      BY <1>1, <2>1, <2>2 DEF EffectsOK
  <1>11. AsksOK(c)' /\ OwnerOK(c)' /\ BoundOK(c)' /\ AnswerOK(c)'
    BY <1>1, <1>3, <1>8, ActorWorks DEF Working
  <1>12. WorkOK(c)'
    BY <1>1, <1>6 DEF WorkOK, Key
  <1> QED
    BY <1>1, <1>3, <1>7, <1>8, <1>9, <1>10, <1>11, <1>12 DEF Acts, CallOK

LEMMA HandlerEndsActs ==
  ASSUME IInv, NEW c \in Callers,
         \/ HandlerReturns(c) \/ Backoff(c)
         \/ \E kind \in {"transient", "permanent", "invalid"} :
              HandlerFails(c, kind)
  PROVE  Acts(c)
  <1>1. /\ pc \in [Callers -> Places] /\ last \in [Callers -> Outcomes]
        /\ attempt \in [Callers -> Nat]
    BY DEF IInv, Shapes
  <1>2. CASE HandlerReturns(c)
    <2>1. /\ pc[c] \in {"handler", "applied"}
          /\ IsWrite(c) => pc[c] = "applied"
          /\ pc' = [pc EXCEPT ![c] = "persist"]
          /\ last' = [last EXCEPT ![c] = "ok"]
          /\ UNCHANGED <<claims, want, attempt, answer, effects>>
      BY <1>2 DEF HandlerReturns, Goto
    <2> QED
      BY <1>1, <2>1, AttemptActs DEF Working, Places, Outcomes
  <1>3. CASE Backoff(c)
    <2>1. /\ pc[c] = "backoff" /\ pc' = [pc EXCEPT ![c] = "attempt"]
          /\ UNCHANGED <<claims, want, attempt, last, answer, effects>>
      BY <1>3 DEF Backoff, Goto
    <2> QED
      BY <1>1, <2>1, AttemptActs DEF Working, Places
  <1>4. ASSUME NEW kind \in {"transient", "permanent", "invalid"},
               HandlerFails(c, kind)
        PROVE  Acts(c)
    <2>1. /\ pc[c] \in {"handler", "applied"}
          /\ UNCHANGED <<claims, want, attempt, answer, effects>>
          /\ AttemptFails(c, IF kind = "invalid"
                               THEN <<Happened(c, "invalid")>> ELSE <<>>,
                          kind = "transient")
      BY <1>4 DEF HandlerFails
    <2>2. (kind = "transient") \in BOOLEAN
      OBVIOUS
    <2>3. /\ last' \in [Callers -> Outcomes] /\ pc' \in [Callers -> Places]
          /\ last'[c] # "ok" /\ pc'[c] \in {"backoff", "persist"}
          /\ \A d \in Callers : d # c => pc'[d] = pc[d] /\ last'[d] = last[d]
      BY <2>1, <2>2, FailingMoves
    <2> QED
      BY <1>1, <2>1, <2>3, AttemptActs DEF Working
  <1> QED
    BY <1>2, <1>3, <1>4

\* What _persist_claim_result does to the claim, and what it answers.
LEMMA PersistMoves ==
  ASSUME IInv, NEW c \in Callers, NEW storable \in BOOLEAN, Persist(c, storable)
  PROVE  /\ IF IsKeyed(c)
              THEN \/ UNCHANGED claims
                   \/ last[c] = "ok" /\ Completes(Key(c), c)
                   \/ \E d \in Dispositions : Fails(Key(c), c, d)
              ELSE UNCHANGED claims
         /\ \/ pc' = [pc EXCEPT ![c] = "raised"] /\ answer' = answer
            \/ /\ pc' = [pc EXCEPT ![c] = "reply"]
               /\ \E a \in Answer :
                    /\ answer' = [answer EXCEPT ![c] = a]
                    /\ a.by # NoCaller <=> a.status = "succeeded"
                    /\ a.by # NoCaller =>
                         /\ last[c] = "ok" /\ a.by = c
                         /\ IsKeyed(c) => Completes(Key(c), c)
  <1>1. attempt[c] \in Nat
    BY DEF IInv, Shapes
  <1>2. Disposition(c) \in Dispositions
    BY DEF Disposition, Dispositions
  <1>3. \A d : FailToolExecution(Key(c), c, d) =>
                 UNCHANGED claims \/ Fails(Key(c), c, d)
    BY DEF FailToolExecution, Fails
  <1>4. CompleteToolResult(Key(c), c) =>
          /\ UNCHANGED claims \/ Completes(Key(c), c)
          /\ Owns(Key(c), c) => Completes(Key(c), c)
    BY DEF CompleteToolResult, Completes
  <1>5. \A code \in Codes :
          /\ Failing(code, attempt[c]) \in Answer
          /\ Failing(code, attempt[c]).by = NoCaller
          /\ Failing(code, attempt[c]).status = "failed"
    BY <1>1 DEF Failing, NoAnswer, Answer
  <1> DEFINE told == [NoAnswer EXCEPT !.status = "succeeded",
                                      !.attempts = attempt[c], !.by = c]
  <1>6. told \in Answer /\ told.by = c /\ told.status = "succeeded"
    BY <1>1 DEF NoAnswer, Answer, Codes
  <1>7. CASE last[c] = "ok"
    <2>1. /\ pc' = [pc EXCEPT ![c] = "reply"]
          /\ answer' = [answer EXCEPT ![c] = AfterSuccess(c, storable)]
      BY <1>7 DEF Persist, Finishing, Goto
    <2>2. \/ /\ IsKeyed(c) => storable /\ Owns(Key(c), c)
             /\ AfterSuccess(c, storable) = told
          \/ \E code \in Codes : AfterSuccess(c, storable) = Failing(code, attempt[c])
      BY DEF AfterSuccess, Codes
    <2>3. /\ IsKeyed(c) /\ storable => CompleteToolResult(Key(c), c)
          /\ IsKeyed(c) /\ ~storable =>
               FailToolExecution(Key(c), c, Disposition(c))
          /\ ~IsKeyed(c) => UNCHANGED claims
      BY <1>7 DEF Persist
    <2> HIDE DEF told
    <2>4. IF IsKeyed(c)
            THEN \/ UNCHANGED claims
                 \/ last[c] = "ok" /\ Completes(Key(c), c)
                 \/ \E d \in Dispositions : Fails(Key(c), c, d)
            ELSE UNCHANGED claims
      BY <1>2, <1>3, <1>4, <1>7, <2>3
    <2>5. CASE /\ IsKeyed(c) => storable /\ Owns(Key(c), c)
               /\ AfterSuccess(c, storable) = told
      <3>1. IsKeyed(c) => Completes(Key(c), c)
        BY <1>4, <2>3, <2>5
      <3>2. answer' = [answer EXCEPT ![c] = told]
        BY <2>1, <2>5
      <3> QED
        BY <1>6, <1>7, <2>1, <2>4, <3>1, <3>2, GatewayAssumption
    <2>6. CASE \E code \in Codes :
                 AfterSuccess(c, storable) = Failing(code, attempt[c])
      <3>1. PICK code \in Codes :
              AfterSuccess(c, storable) = Failing(code, attempt[c])
        BY <2>6
      <3>2. answer' = [answer EXCEPT ![c] = Failing(code, attempt[c])]
        BY <2>1, <3>1
      <3> QED
        BY <1>5, <2>1, <2>4, <3>2
    <2> QED
      BY <2>2, <2>5, <2>6
  <1>8. CASE last[c] # "ok"
    <2>1. IF IsKeyed(c) THEN FailToolExecution(Key(c), c, Disposition(c))
                        ELSE UNCHANGED claims
      BY <1>8 DEF Persist
    <2>2. \/ pc' = [pc EXCEPT ![c] = "raised"] /\ answer' = answer
          \/ /\ pc' = [pc EXCEPT ![c] = "reply"]
             /\ answer' = [answer EXCEPT ![c] =
                             Failing("tool_execution_failed", attempt[c])]
      BY <1>8 DEF Persist, Finishing, Goto
    <2>3. /\ Failing("tool_execution_failed", attempt[c]) \in Answer
          /\ Failing("tool_execution_failed", attempt[c]).by = NoCaller
          /\ Failing("tool_execution_failed", attempt[c]).status # "succeeded"
      BY <1>5 DEF Codes
    <2>4. IF IsKeyed(c)
            THEN \/ UNCHANGED claims
                 \/ \E d \in Dispositions : Fails(Key(c), c, d)
            ELSE UNCHANGED claims
      BY <1>2, <1>3, <2>1
    <2> HIDE DEF Failing
    <2>5. \/ pc' = [pc EXCEPT ![c] = "raised"] /\ answer' = answer
          \/ /\ pc' = [pc EXCEPT ![c] = "reply"]
             /\ \E a \in Answer :
                  /\ answer' = [answer EXCEPT ![c] = a]
                  /\ a.by = NoCaller /\ a.status # "succeeded"
      BY <2>2, <2>3
    <2>6. ASSUME pc' = [pc EXCEPT ![c] = "reply"],
                 \E a \in Answer :
                   /\ answer' = [answer EXCEPT ![c] = a]
                   /\ a.by = NoCaller /\ a.status # "succeeded"
          PROVE  /\ pc' = [pc EXCEPT ![c] = "reply"]
                 /\ \E a \in Answer :
                      /\ answer' = [answer EXCEPT ![c] = a]
                      /\ a.by # NoCaller <=> a.status = "succeeded"
                      /\ a.by # NoCaller =>
                           /\ last[c] = "ok" /\ a.by = c
                           /\ IsKeyed(c) => Completes(Key(c), c)
      <3>1. PICK a \in Answer :
              /\ answer' = [answer EXCEPT ![c] = a]
              /\ a.by = NoCaller /\ a.status # "succeeded"
        BY <2>6
      <3>2. a.by # NoCaller <=> a.status = "succeeded"
        BY <3>1
      <3> QED
        BY <2>6, <3>1, <3>2
    <2> QED
      BY <2>4, <2>5, <2>6
  <1> QED
    BY <1>7, <1>8

LEMMA PersistActs ==
  ASSUME IInv, NEW c \in Callers, NEW storable \in BOOLEAN, Persist(c, storable)
  PROVE  Acts(c)
  <1>1. /\ pc[c] = "persist" /\ UNCHANGED <<want, attempt, last, effects>>
        /\ pc \in [Callers -> Places] /\ answer \in [Callers -> Answer]
        /\ claims \in [Keys -> ToolClaim]
    BY DEF Persist, IInv, Shapes, ClaimsTypeOK
  <1>2. /\ want[c].request \in Requests
        /\ IsKeyed(c) => Key(c) \in Keys
        /\ CallOK(c)
    BY <1>1, Begun DEF IInv
  <1>3. Steady(c) /\ ClaimsTypeOK'
    <2>1. CASE UNCHANGED claims
      BY <2>1, SteadyStutter DEF IInv, Shapes, ClaimsTypeOK
    <2>2. CASE claims' # claims
      <3>1. /\ IsKeyed(c)
            /\ \/ last[c] = "ok" /\ Completes(Key(c), c)
               \/ \E d \in Dispositions : Fails(Key(c), c, d)
        BY <2>2, PersistMoves
      <3>2. Shapes
        BY DEF IInv
      <3> QED
        BY <1>1, <1>2, <3>1, <3>2, SteadyMoves
    <2> QED
      BY <2>1, <2>2
  <1>4. EffectsOK'
    BY <1>1, <1>3, EffectsStay
  <1>5. CASE pc' = [pc EXCEPT ![c] = "raised"] /\ answer' = answer
    <2>1. Shapes'
      BY <1>1, <1>3, <1>5 DEF IInv, Shapes, Places, Ended
    <2>2. AsksOK(c)' /\ OwnerOK(c)' /\ BoundOK(c)' /\ AnswerOK(c)'
      BY <1>1, <1>3, <1>5, ActorWorks DEF Working
    <2>3. WorkOK(c)'
      BY <1>1, <1>5 DEF WorkOK
    <2> QED
      BY <1>1, <1>3, <1>4, <1>5, <2>1, <2>2, <2>3 DEF Acts, CallOK
  <1>6. ASSUME NEW a \in Answer,
               pc' = [pc EXCEPT ![c] = "reply"],
               answer' = [answer EXCEPT ![c] = a],
               a.by # NoCaller <=> a.status = "succeeded",
               a.by # NoCaller => a.by = c /\ (IsKeyed(c) => Completes(Key(c), c))
        PROVE  Acts(c)
    <2>1. Shapes'
      BY <1>1, <1>3, <1>6 DEF IInv, Shapes, Places
    <2>2. pc'[c] = "reply" /\ answer'[c] = a
      BY <1>1, <1>6
    <2>3. AsksOK(c)' /\ OwnerOK(c)'
      BY <1>1, <1>3, <2>2, ActorOwns
    <2>4. BoundOK(c)' /\ WorkOK(c)'
      BY <2>2 DEF BoundOK, WorkOK, Working
    <2>5. ASSUME a.by # NoCaller, IsKeyed(c)
          PROVE  /\ claims'[Key(c)].state = "completed"
                 /\ claims'[Key(c)].owner = a.by
                 /\ claims'[Key(c)].request = want[c].request
      <3>1. claims' = [claims EXCEPT ![Key(c)].state = "completed"]
        BY <1>6, <2>5 DEF Completes
      <3>2. claims[Key(c)].owner = c /\ claims[Key(c)].state = "claimed"
        BY <1>6, <2>5 DEF Completes, Owns
      <3>3. claims[Key(c)].request = want[c].request
        BY <1>1, <1>2, <2>5 DEF CallOK, BoundOK, Working
      <3>4. claims[Key(c)] \in ToolClaim \ {Absent}
        BY <1>1, <1>2, <2>5, <3>2 DEF Absent
      <3> DEFINE done == [claims[Key(c)] EXCEPT !.state = "completed"]
      <3>5. /\ done.state = "completed" /\ done.owner = claims[Key(c)].owner
            /\ done.request = claims[Key(c)].request
        BY <3>4 DEF ToolClaim
      <3>6. claims' = [claims EXCEPT ![Key(c)] = done]
        BY <3>1
      <3> HIDE DEF done
      <3>7. claims'[Key(c)] = done
        BY <1>1, <1>2, <2>5, <3>6
      <3> QED
        BY <1>6, <2>5, <3>2, <3>3, <3>5, <3>7
    <2>6. AnswerOK(c)'
      BY <1>1, <1>6, <2>2, <2>5 DEF AnswerOK, IsKeyed, Key
    <2> QED
      BY <1>1, <1>3, <1>4, <1>6, <2>1, <2>3, <2>4, <2>6 DEF Acts, CallOK
  <1> QED
    BY <1>5, <1>6, PersistMoves

LEMMA LeavingActs ==
  ASSUME IInv, NEW c \in Callers, Return(c) \/ Cancel(c) \/ Crash(c)
  PROVE  Acts(c)
  <1>1. /\ pc \in [Callers -> Places] /\ want \in [Callers -> Want]
        /\ attempt \in [Callers -> Nat] /\ last \in [Callers -> Outcomes]
        /\ answer \in [Callers -> Answer] /\ CallOK(c)
    BY DEF IInv, Shapes
  <1>2. CASE Return(c)
    <2>1. /\ pc[c] = "reply" /\ pc' = [pc EXCEPT ![c] = "done"]
          /\ attempt' = [attempt EXCEPT ![c] = 0]
          /\ last' = [last EXCEPT ![c] = "none"]
          /\ UNCHANGED <<claims, want, answer, effects>>
      BY <1>2 DEF Return, Forget, Goto
    <2>2. Steady(c) /\ EffectsOK'
      BY <2>1, SteadyStutter, EffectsStay
    <2>3. Shapes'
      BY <1>1, <2>1 DEF IInv, Shapes, ClaimsTypeOK, Places, Ended, Outcomes
    <2>4. AsksOK(c)' /\ OwnerOK(c)'
      BY <1>1, <2>1, <2>2, ActorOwns
    <2>5. BoundOK(c)' /\ WorkOK(c)'
      BY <1>1, <2>1 DEF BoundOK, WorkOK, Working
    <2>6. AnswerOK(c)'
      BY <1>1, <2>1 DEF CallOK, AnswerOK, IsKeyed, Key
    <2> QED
      BY <1>1, <2>1, <2>2, <2>3, <2>4, <2>5, <2>6 DEF Acts, CallOK
  <1>3. CASE Cancel(c)
    <2>1. /\ pc[c] \in {"handler", "applied", "backoff"}
          /\ pc' = [pc EXCEPT ![c] = "raised"]
          /\ IF IsKeyed(c) THEN FailToolExecution(Key(c), c, "retryable")
                           ELSE UNCHANGED claims
          /\ UNCHANGED <<want, attempt, last, answer, effects>>
      BY <1>3 DEF Cancel, Goto
    <2>2. \/ UNCHANGED claims
          \/ IsKeyed(c) /\ Fails(Key(c), c, "retryable")
      BY <2>1 DEF FailToolExecution, Fails
    <2>3. Steady(c) /\ ClaimsTypeOK'
      <3>1. CASE UNCHANGED claims
        BY <3>1, SteadyStutter DEF IInv, Shapes, ClaimsTypeOK
      <3>2. CASE IsKeyed(c) /\ Fails(Key(c), c, "retryable")
        BY <2>1, <3>2, Begun, SteadyMoves DEF IInv, Dispositions
      <3> QED
        BY <2>2, <3>1, <3>2
    <2>4. Shapes' /\ EffectsOK'
      <3>1. Shapes'
        BY <1>1, <2>1, <2>3 DEF IInv, Shapes, Places, Ended
      <3> QED
        BY <2>1, <2>3, <3>1, EffectsStay
    <2>5. AsksOK(c)' /\ OwnerOK(c)' /\ BoundOK(c)' /\ AnswerOK(c)'
      BY <1>1, <2>1, <2>3, ActorWorks DEF Working
    <2>6. WorkOK(c)'
      BY <1>1, <2>1 DEF WorkOK
    <2> QED
      BY <1>1, <2>1, <2>3, <2>4, <2>5, <2>6 DEF Acts, CallOK
  <1>4. CASE Crash(c)
    <2>1. /\ pc[c] # "idle" /\ pc' = [pc EXCEPT ![c] = "crashed"]
          /\ attempt' = [attempt EXCEPT ![c] = 0]
          /\ last' = [last EXCEPT ![c] = "none"]
          /\ want' = [want EXCEPT ![c] = NoWant]
          /\ answer' = [answer EXCEPT ![c] = NoAnswer]
          /\ UNCHANGED <<claims, effects>>
      BY <1>4 DEF Crash, Forget, Goto
    <2>2. Steady(c) /\ EffectsOK'
      BY <2>1, SteadyStutter, EffectsStay
    <2>3. NoWant \in Want /\ NoAnswer \in Answer
      BY DEF NoWant, Want, NoAnswer, Answer, Codes
    <2>4. Shapes'
      BY <1>1, <2>1, <2>3
      DEF IInv, Shapes, ClaimsTypeOK, Places, Ended, Outcomes
    <2>5. /\ pc'[c] = "crashed" /\ answer'[c] = NoAnswer
          /\ NoAnswer.by = NoCaller /\ NoAnswer.status # "succeeded"
      BY <1>1, <2>1 DEF NoAnswer
    <2>6. CallOK(c)'
      BY <2>5 DEF CallOK, AsksOK, OwnerOK, BoundOK, AnswerOK, WorkOK, Working
    <2> QED
      BY <1>1, <2>1, <2>2, <2>4, <2>6 DEF Acts
  <1> QED
    BY <1>2, <1>3, <1>4

LEMMA InitOK == Init => IInv
  <1> SUFFICES ASSUME Init PROVE IInv
    OBVIOUS
  <1>1. /\ NoWant \in Want /\ NoAnswer \in Answer
        /\ NoAnswer.by = NoCaller /\ NoAnswer.status # "succeeded"
    BY DEF NoWant, Want, NoAnswer, Answer, Codes
  <1>2. /\ claims = [k \in Keys |-> Absent] /\ effects = {}
        /\ Absent \in ToolClaim /\ Absent.state = "absent"
        /\ Absent.owner = NoCaller
    BY DEF Init, ClaimsInit, Absent, ToolClaim
  <1>3. Shapes
    BY <1>1, <1>2 DEF Init, Shapes, ClaimsTypeOK, Places, Outcomes
  <1>4. EffectsOK
    BY <1>2 DEF EffectsOK
  <1>5. ASSUME NEW c \in Callers PROVE CallOK(c)
    <2>1. pc[c] = "idle" /\ answer[c] = NoAnswer
      BY DEF Init
    <2>2. OwnerOK(c)
      BY <1>2, GatewayAssumption DEF OwnerOK
    <2> QED
      BY <1>1, <2>1, <2>2
      DEF CallOK, AsksOK, BoundOK, AnswerOK, WorkOK, Working
  <1> QED
    BY <1>3, <1>4, <1>5 DEF IInv

LEMMA StepOK == IInv /\ [Next]_vars => IInv'
  <1> SUFFICES ASSUME IInv, [Next]_vars PROVE IInv'
    OBVIOUS
  <1>1. ASSUME NEW c \in Callers, NEW k \in Keys \cup {NoKey},
               NEW q \in Requests, Call(c, k, q)
        PROVE  IInv'
    BY <1>1, CallActs, ActsKeep
  <1>2. ASSUME NEW c \in Callers, Advance(c)
        PROVE  IInv'
    <2>1. CASE ClaimKey(c)
      BY <2>1, ClaimKeyActs, ActsKeep
    <2>2. CASE StartAttempt(c)
      BY <2>2, StartAttemptActs, ActsKeep
    <2>3. CASE HandlerApplies(c)
      BY <2>3, HandlerAppliesActs, ActsKeep
    <2>4. CASE \/ HandlerReturns(c) \/ Backoff(c)
               \/ \E kind \in {"transient", "permanent", "invalid"} :
                    HandlerFails(c, kind)
      BY <2>4, HandlerEndsActs, ActsKeep
    <2>5. CASE \E storable \in BOOLEAN : Persist(c, storable)
      BY <2>5, PersistActs, ActsKeep
    <2>6. CASE Return(c)
      BY <2>6, LeavingActs, ActsKeep
    <2> QED
      BY <1>2, <2>1, <2>2, <2>3, <2>4, <2>5, <2>6 DEF Advance
  <1>3. ASSUME NEW c \in Callers, Cancel(c) \/ Crash(c)
        PROVE  IInv'
    BY <1>3, LeavingActs, ActsKeep
  <1>4. ASSUME NEW k \in Keys, Expire(k)
        PROVE  IInv'
    <2>1. /\ ClaimExpires(k) /\ Shapes
          /\ UNCHANGED <<pc, want, attempt, last, answer, effects>>
      BY <1>4 DEF Expire, callVars, IInv
    <2>2. ClaimsTypeOK' /\ \A c \in Callers : Steady(c)
      BY <2>1, SteadyExpiry
    <2>3. Shapes'
      BY <2>1, <2>2 DEF Shapes
    <2>4. ASSUME NEW c \in Callers PROVE CallOK(c)' /\ EffectsOK'
      BY <2>1, <2>2, <2>3, Bystanders, EffectsStay
    <2>5. \E c : c \in Callers
      BY <2>1 DEF ClaimExpires, Shapes, ClaimsTypeOK, ToolClaim, Absent
    <2> QED
      BY <2>3, <2>4, <2>5 DEF IInv
  <1>5. CASE UNCHANGED vars
    BY <1>5
    DEF vars, callVars, IInv, Shapes, ClaimsTypeOK, EffectsOK, CallOK, AsksOK,
        OwnerOK, BoundOK, AnswerOK, WorkOK, IsKeyed, IsWrite, Key
  <1> QED
    BY <1>1, <1>2, <1>3, <1>4, <1>5 DEF Next, Quiescent

LEMMA Invariance == Spec => []IInv
  BY InitOK, StepOK, PTL DEF Spec

-----------------------------------------------------------------------------
(* Types and the limit on attempts *)

\* Where another attempt may still begin.
Unspent == {"idle", "claim", "attempt", "backoff"}

Limits ==
  /\ mode \in {"fragile", "resilient"} /\ plan \in Plans
  /\ log \in [Callers -> Seq(Event)]
  /\ attempt \in [Callers -> 0..MaxAttempts]
  /\ \A c \in Callers : pc[c] \in Unspent => attempt[c] < AttemptLimit

\* What a step of c does to the variables Limits speaks of.
Moves(c, events, n, place) ==
  /\ UNCHANGED runVars
  /\ log' = [log EXCEPT ![c] = events]
  /\ attempt' = [attempt EXCEPT ![c] = n]
  /\ pc' = [pc EXCEPT ![c] = place]

LEMMA LimitFacts ==
  ASSUME Limits
  PROVE  AttemptLimit \in 1..MaxAttempts
  BY GatewayAssumption DEF AttemptLimit

LEMMA MovesKeep ==
  ASSUME Limits, pc \in [Callers -> Places], NEW c \in Callers,
         NEW events \in Seq(Event), NEW n \in 0..MaxAttempts, NEW place,
         place \in Unspent => n < AttemptLimit,
         Moves(c, events, n, place)
  PROVE  Limits'
  <1>1. AttemptLimit' = AttemptLimit
    BY DEF Moves, runVars, AttemptLimit
  <1>2. log' \in [Callers -> Seq(Event)]
    BY DEF Limits, Moves
  <1>3. attempt' \in [Callers -> 0..MaxAttempts]
    BY DEF Limits, Moves
  <1>4. ASSUME NEW d \in Callers, pc'[d] \in Unspent
        PROVE  attempt'[d] < AttemptLimit'
    <2>1. CASE d = c
      BY <1>1, <1>4, <2>1 DEF Limits, Moves
    <2>2. CASE d # c
      <3>1. pc'[d] = pc[d] /\ attempt'[d] = attempt[d]
        BY <2>2 DEF Limits, Moves
      <3> QED
        BY <1>1, <1>4, <3>1 DEF Limits
    <2> QED
      BY <2>1, <2>2
  <1> QED
    BY <1>2, <1>3, <1>4 DEF Limits, Moves, runVars

\* A step that neither logs nor counts.
LEMMA QuietKeeps ==
  ASSUME Limits, pc \in [Callers -> Places], NEW c \in Callers, NEW place,
         place \in Unspent => attempt[c] < AttemptLimit,
         pc' = [pc EXCEPT ![c] = place],
         UNCHANGED <<attempt, log, runVars>>
  PROVE  Limits'
  <1>1. log[c] \in Seq(Event) /\ attempt[c] \in 0..MaxAttempts
    BY DEF Limits
  <1>2. Moves(c, log[c], attempt[c], place)
    BY DEF Limits, Moves
  <1> QED
    BY <1>1, <1>2, MovesKeep

LEMMA FailingKeeps ==
  ASSUME Limits, pc \in [Callers -> Places], NEW c \in Callers,
         NEW events \in Seq(Event), NEW transient \in BOOLEAN,
         NEW n \in 0..MaxAttempts, attempt' = [attempt EXCEPT ![c] = n],
         AttemptFails(c, events, transient), UNCHANGED runVars
  PROVE  Limits'
  <1>1. attempt'[c] = n
    BY DEF Limits
  <1> DEFINE r == Retries(c, transient)
             failure == [type |-> "failed", attempt |-> n,
                         transient |-> transient, retry |-> r]
             written == (log[c] \o events) \o <<failure>>
             place == IF r THEN "backoff" ELSE "persist"
  <1>2. r \in BOOLEAN /\ (r => n < AttemptLimit)
    BY <1>1 DEF Retries
  <1>3. written \in Seq(Event)
    <2>1. failure \in Event
      BY <1>2 DEF Event
    <2>2. <<failure>> \in Seq(Event)
      BY <2>1
    <2>3. log[c] \in Seq(Event)
      BY DEF Limits
    <2>4. log[c] \o events \in Seq(Event)
      BY <2>3
    <2> HIDE DEF failure
    <2> QED
      BY <2>2, <2>4
  <1>4. place \in Unspent => n < AttemptLimit
    BY <1>2 DEF Unspent
  <1>5. Moves(c, written, n, place)
    BY <1>1 DEF AttemptFails, Goto, Moves
  <1> HIDE DEF written, place
  <1> QED
    BY <1>3, <1>4, <1>5, MovesKeep

LEMMA EventFacts ==
  ASSUME NEW c \in Callers, attempt'[c] \in Nat,
         NEW type \in {"started", "fault", "invalid", "succeeded", "failed",
                       "cancelled", "retry_cancelled"}
  PROVE  Happened(c, type) \in Event
  BY DEF Happened, Event

LEMMA StartAttemptKeeps ==
  ASSUME Limits, Shapes, NEW c \in Callers, StartAttempt(c)
  PROVE  Limits'
  <1> DEFINE n == attempt[c] + 1
             begun == <<Happened(c, "started")>>
             fault == FaultFor(want[c].request, n)
  <1>1. /\ pc[c] = "attempt" /\ attempt' = [attempt EXCEPT ![c] = n]
        /\ UNCHANGED runVars
    BY DEF StartAttempt
  <1>2. n \in 0..MaxAttempts
    <2>1. attempt[c] \in 0..MaxAttempts /\ attempt[c] < AttemptLimit
      BY <1>1 DEF Limits, Unspent
    <2>2. AttemptLimit \in 1..MaxAttempts
      BY LimitFacts
    <2> HIDE DEF AttemptLimit
    <2> QED
      BY <2>1, <2>2, GatewayAssumption
  <1>3. pc \in [Callers -> Places]
    BY DEF Shapes
  <1>4. attempt'[c] \in Nat
    BY <1>1, <1>2 DEF Limits
  <1>5. /\ Happened(c, "started") \in Event /\ Happened(c, "fault") \in Event
        /\ Happened(c, "invalid") \in Event
    BY <1>4, EventFacts
  <1> HIDE DEF n
  <1>6. CASE fault = "none"
    <2>1. /\ log' = [log EXCEPT ![c] = @ \o begun]
          /\ pc' = [pc EXCEPT ![c] = "handler"]
      BY <1>6 DEF StartAttempt, Goto, n
    <2>2. log[c] \o begun \in Seq(Event)
      BY <1>5 DEF Limits
    <2>3. Moves(c, log[c] \o begun, n, "handler")
      BY <1>1, <2>1 DEF Moves
    <2> HIDE DEF begun
    <2> QED
      BY <1>2, <1>3, <2>2, <2>3, MovesKeep DEF Unspent
  <1>7. CASE fault = "malformed_output"
    <2> DEFINE events == begun \o <<Happened(c, "fault"), Happened(c, "invalid")>>
    <2>1. AttemptFails(c, events, FALSE)
      BY <1>7 DEF StartAttempt, n
    <2>2. events \in Seq(Event)
      BY <1>5
    <2> HIDE DEF events
    <2> QED
      BY <1>1, <1>2, <1>3, <2>1, <2>2, FailingKeeps
  <1>8. CASE fault \notin {"none", "malformed_output"}
    <2> DEFINE events == begun \o <<Happened(c, "fault")>>
    <2>1. AttemptFails(c, events, TRUE)
      BY <1>8 DEF StartAttempt, n
    <2>2. events \in Seq(Event)
      BY <1>5
    <2> HIDE DEF events
    <2> QED
      BY <1>1, <1>2, <1>3, <2>1, <2>2, FailingKeeps
  <1> QED
    BY <1>6, <1>7, <1>8

\* The handler ends, well or badly, or is cancelled: one event more.
LEMMA HandlerKeeps ==
  ASSUME Limits, Shapes, NEW c \in Callers,
         \/ HandlerReturns(c) \/ Cancel(c)
         \/ \E kind \in {"transient", "permanent", "invalid"} :
              HandlerFails(c, kind)
  PROVE  Limits'
  <1>1. /\ UNCHANGED <<attempt, runVars>> /\ pc \in [Callers -> Places]
        /\ attempt[c] \in 0..MaxAttempts /\ log[c] \in Seq(Event)
        /\ attempt' = [attempt EXCEPT ![c] = attempt[c]]
    BY DEF HandlerReturns, Cancel, HandlerFails, Limits, Shapes
  <1>2. attempt'[c] \in Nat
    BY <1>1
  <1>3. ASSUME NEW e \in Event, NEW place \in {"persist", "raised"},
               log' = [log EXCEPT ![c] = Append(@, e)],
               pc' = [pc EXCEPT ![c] = place]
        PROVE  Limits'
    <2>1. Append(log[c], e) \in Seq(Event)
      BY <1>1
    <2>2. Moves(c, Append(log[c], e), attempt[c], place)
      BY <1>1, <1>3 DEF Moves
    <2> QED
      BY <1>1, <2>1, <2>2, MovesKeep DEF Unspent
  <1>4. CASE HandlerReturns(c)
    BY <1>2, <1>3, <1>4, EventFacts DEF HandlerReturns, Goto
  <1>5. CASE Cancel(c)
    <2> DEFINE type == IF pc[c] = "backoff" THEN "retry_cancelled"
                                            ELSE "cancelled"
    <2>1. Happened(c, type) \in Event
      BY <1>2, EventFacts
    <2>2. /\ log' = [log EXCEPT ![c] = Append(@, Happened(c, type))]
          /\ pc' = [pc EXCEPT ![c] = "raised"]
      BY <1>5 DEF Cancel, Goto
    <2> HIDE DEF type
    <2> QED
      BY <1>3, <2>1, <2>2
  <1>6. ASSUME NEW kind \in {"transient", "permanent", "invalid"},
               HandlerFails(c, kind)
        PROVE  Limits'
    <2> DEFINE events == IF kind = "invalid" THEN <<Happened(c, "invalid")>>
                                             ELSE <<>>
    <2>1. AttemptFails(c, events, kind = "transient")
      BY <1>6 DEF HandlerFails
    <2>2. Happened(c, "invalid") \in Event
      BY <1>2, EventFacts
    <2>3. events \in Seq(Event)
      BY <2>2
    <2>4. (kind = "transient") \in BOOLEAN
      OBVIOUS
    <2> HIDE DEF events
    <2> QED
      BY <1>1, <2>1, <2>3, <2>4, FailingKeeps
  <1> QED
    BY <1>4, <1>5, <1>6

\* A call ends, and its events and counts are forgotten.
LEMMA ForgetKeeps ==
  ASSUME Limits, Shapes, NEW c \in Callers, Return(c) \/ Crash(c)
  PROVE  Limits'
  <1>1. \E place \in {"done", "crashed"} : Moves(c, <<>>, 0, place)
    BY DEF Return, Crash, Forget, Goto, Moves
  <1>2. <<>> \in Seq(Event) /\ 0 \in 0..MaxAttempts
    BY GatewayAssumption
  <1> QED
    BY <1>1, <1>2, MovesKeep DEF Shapes, Unspent

LEMMA LimitsInit == Init => Limits
  <1> SUFFICES ASSUME Init PROVE Limits
    OBVIOUS
  <1>1. <<>> \in Seq(Event) /\ 0 \in 0..MaxAttempts
    BY GatewayAssumption
  <1>2. \A c \in Callers : attempt[c] = 0
    BY DEF Init
  <1>3. 0 < AttemptLimit
    BY GatewayAssumption DEF AttemptLimit
  <1> QED
    BY <1>1, <1>2, <1>3 DEF Init, Limits

LEMMA LimitsStep == Limits /\ Shapes /\ [Next]_vars => Limits'
  <1> SUFFICES ASSUME Limits, Shapes, [Next]_vars PROVE Limits'
    OBVIOUS
  <1>1. pc \in [Callers -> Places]
    BY DEF Shapes
  <1>2. ASSUME NEW c \in Callers, NEW k \in Keys \cup {NoKey},
               NEW q \in Requests, Call(c, k, q)
        PROVE  Limits'
    <2>1. /\ pc[c] = "idle" /\ UNCHANGED <<attempt, log, runVars>>
          /\ \E place : pc' = [pc EXCEPT ![c] = place]
      BY <1>2 DEF Call, Finishing, Goto
    <2> QED
      BY <1>1, <2>1, QuietKeeps DEF Limits, Unspent
  <1>3. ASSUME NEW c \in Callers, ClaimKey(c) PROVE Limits'
    <2>1. /\ pc[c] = "claim" /\ UNCHANGED <<attempt, log, runVars>>
          /\ \E place : pc' = [pc EXCEPT ![c] = place]
      BY <1>3 DEF ClaimKey, Finishing, Goto
    <2> QED
      BY <1>1, <2>1, QuietKeeps DEF Limits, Unspent
  <1>4. ASSUME NEW c \in Callers, HandlerApplies(c) PROVE Limits'
    <2>1. /\ UNCHANGED <<attempt, log, runVars>>
          /\ pc' = [pc EXCEPT ![c] = "applied"]
      BY <1>4 DEF HandlerApplies, Goto
    <2> QED
      BY <1>1, <2>1, QuietKeeps DEF Unspent
  <1>5. ASSUME NEW c \in Callers, Backoff(c) PROVE Limits'
    <2>1. /\ pc[c] = "backoff" /\ UNCHANGED <<attempt, log, runVars>>
          /\ pc' = [pc EXCEPT ![c] = "attempt"]
      BY <1>5 DEF Backoff, Goto
    <2> QED
      BY <1>1, <2>1, QuietKeeps DEF Limits, Unspent
  <1>6. ASSUME NEW c \in Callers, NEW storable \in BOOLEAN,
               Persist(c, storable)
        PROVE  Limits'
    <2>1. /\ UNCHANGED <<attempt, log, runVars>>
          /\ \E place \in {"reply", "raised"} : pc' = [pc EXCEPT ![c] = place]
      BY <1>6 DEF Persist, Finishing, Goto
    <2> QED
      BY <1>1, <2>1, QuietKeeps DEF Unspent
  <1>7. CASE \/ \E k \in Keys : Expire(k)
             \/ UNCHANGED vars
    <2>1. UNCHANGED <<pc, attempt, log, mode, plan>>
      BY <1>7 DEF Expire, vars, callVars, runVars
    <2> QED
      BY <2>1 DEF Limits, AttemptLimit
  <1>8. ASSUME NEW c \in Callers, Advance(c) PROVE Limits'
    BY <1>3, <1>4, <1>5, <1>6, <1>8, StartAttemptKeeps, HandlerKeeps,
       ForgetKeeps DEF Advance
  <1>9. ASSUME NEW c \in Callers, Cancel(c) \/ Crash(c) PROVE Limits'
    BY <1>9, HandlerKeeps, ForgetKeeps
  <1> QED
    BY <1>2, <1>7, <1>8, <1>9 DEF Next, Quiescent

\* The types of the claim table, of the calls and of their histories; no call
\* makes more attempts than its tool allows, whatever is retried, cancelled or
\* taken over.
THEOREM Typing == Spec => []TypeOK
  <1>1. IInv => Shapes
    BY DEF IInv
  <1>2. IInv /\ Limits => TypeOK
    BY DEF IInv, Shapes, Limits, TypeOK
  <1> QED
    BY <1>1, <1>2, LimitsInit, LimitsStep, Invariance, PTL DEF Spec

-----------------------------------------------------------------------------
(* One effect *)

LEMMA OnceFollows == IInv => WritesHappenOnce
  <1> SUFFICES ASSUME IInv PROVE WritesHappenOnce
    OBVIOUS
  <1>1. /\ effects \subseteq [token : Keys, key : Keys, request : Requests]
        /\ EffectsOK
    BY DEF IInv, Shapes
  <1>2. ASSUME NEW e \in effects, NEW f \in effects, e.key = f.key
        PROVE  e = f
    BY <1>1, <1>2 DEF EffectsOK
  <1>3. ASSUME NEW c \in Callers, answer[c].status = "succeeded", IsWrite(c)
        PROVE  \E e \in effects : e.key = Key(c) /\ e.request = want[c].request
    <2>1. CallOK(c)
      BY DEF IInv
    <2>2. answer[c].by # NoCaller /\ pc[c] \in {"reply", "done"}
      BY <1>3, <2>1 DEF CallOK, AnswerOK, NoAnswer
    <2>3. IsKeyed(c) /\ Key(c) \in Keys
      BY <1>3, <2>2, Begun
    <2>4. /\ claims[Key(c)].state = "completed"
          /\ claims[Key(c)].request = want[c].request
      BY <2>1, <2>2, <2>3 DEF CallOK, AnswerOK
    <2> QED
      BY <1>1, <1>3, <2>3, <2>4 DEF EffectsOK, IsWrite
  <1> QED
    BY <1>1, <1>2, <1>3 DEF WritesHappenOnce, EffectsOK

\* Whatever the number of concurrent calls and their keys, the fault plan and
\* the limit on attempts: the gateway's retries, takeovers and crashes never
\* do the work of a key twice, nor report a write that was not done.
THEOREM WritesOnce == Spec => []WritesHappenOnce
  BY Invariance, OnceFollows, PTL

-----------------------------------------------------------------------------
(* The promise of an idempotency key *)

\* The state of Promise that a state of the gateway stands for.
ProductOf(k) == IF claims[k].state = "completed" THEN {claims[k].owner} ELSE {}

ReplyOf(c) ==
  [client |-> c, id |-> Key(c), demand |-> want[c].request,
   result |-> answer[c].by]

Bound == [k \in Keys |-> claims[k].request]

Fate == [k \in Keys |-> FateOf(k)]

Product == [k \in Keys |-> ProductOf(k)]

Replies == {ReplyOf(c) : c \in Replied}

LEMMA MappedInit ==
  Promise!Init <=>
    /\ Bound = [k \in Keys |-> NoRequest]
    /\ Fate = [k \in Keys |-> "open"]
    /\ Product = [k \in Keys |-> {}]
    /\ Replies = {}
  BY DEF Promise!Init, Bound, Fate, Product, Replies,
         ProductOf, ReplyOf

LEMMA MappedStay ==
  ASSUME UNCHANGED <<Bound, Fate, Product, Replies>>
  PROVE  UNCHANGED Promise!keyVars
  BY DEF Promise!keyVars, Bound, Fate, Product, Replies, ProductOf, ReplyOf

LEMMA BindStep ==
  ASSUME NEW k \in Keys, NEW q \in Requests, Bound[k] = NoRequest,
         Bound' = [Bound EXCEPT ![k] = q], UNCHANGED <<Fate, Product, Replies>>
  PROVE  Promise!Next
  <1>1. Promise!Bind(k, q)
    BY DEF Promise!Bind, Bound, Fate, Product, Replies, ProductOf, ReplyOf
  <1> QED
    BY <1>1 DEF Promise!Next

LEMMA SettleStep ==
  ASSUME NEW k \in Keys, NEW c \in Callers, Fate[k] = "open",
         Bound[k] # NoRequest, Fate' = [Fate EXCEPT ![k] = "settled"],
         Product' = [Product EXCEPT ![k] = {c}], UNCHANGED <<Bound, Replies>>
  PROVE  Promise!Next
  <1>1. Promise!Settle(k, c)
    BY DEF Promise!Settle, Bound, Fate, Product, Replies, ProductOf, ReplyOf
  <1> QED
    BY <1>1 DEF Promise!Next

LEMMA SealStep ==
  ASSUME NEW k \in Keys, Fate[k] = "open", Bound[k] # NoRequest,
         Fate' = [Fate EXCEPT ![k] = "sealed"],
         UNCHANGED <<Bound, Product, Replies>>
  PROVE  Promise!Next
  <1>1. Promise!Seal(k)
    BY DEF Promise!Seal, Bound, Fate, Product, Replies, ProductOf, ReplyOf
  <1> QED
    BY <1>1 DEF Promise!Next

LEMMA ReplyStep ==
  ASSUME NEW c \in Callers, Key(c) \in Keys, want[c].request \in Requests,
         answer[c].by \in Callers \cup {NoCaller},
         answer[c].by # NoCaller =>
           /\ Bound[Key(c)] = want[c].request
           /\ Product[Key(c)] = {answer[c].by},
         Replies' = Replies \cup {ReplyOf(c)},
         UNCHANGED <<Bound, Fate, Product>>
  PROVE  Promise!Next
  <1>1. PICK k \in Keys, d \in Requests, r \in Callers \cup {NoCaller} :
          k = Key(c) /\ d = want[c].request /\ r = answer[c].by
    OBVIOUS
  <1>2. Promise!Reply(c, k, d, r)
    BY <1>1
    DEF Promise!Reply, Bound, Fate, Product, Replies, ProductOf, ReplyOf
  <1> QED
    BY <1>2 DEF Promise!Next

\* Replies only change when a call is done.
LEMMA RepliesStay ==
  ASSUME \A d \in Callers : pc'[d] = "done" <=> pc[d] = "done",
         \A d \in Callers : pc[d] = "done" =>
           want'[d] = want[d] /\ answer'[d] = answer[d]
  PROVE  Replies' = Replies
  <1>1. Replied' = Replied
    BY DEF Replied, Key
  <1>2. \A d \in Replied : ReplyOf(d)' = ReplyOf(d)
    BY DEF Replied, ReplyOf, Key
  <1> QED
    BY <1>1, <1>2 DEF Replies

LEMMA ClaimsStay ==
  ASSUME claims' = claims
  PROVE  UNCHANGED <<Bound, Fate, Product>>
  BY DEF Bound, Fate, Product, FateOf, ProductOf

LEMMA FateFacts ==
  ASSUME NEW k \in Keys
  PROVE  /\ claims[k].state = "completed" => FateOf(k) = "settled"
         /\ claims[k].state = "failed" =>
              FateOf(k) = IF claims[k].disposition = "retryable"
                            THEN "open" ELSE "sealed"
         /\ claims[k].state \notin {"completed", "failed"} => FateOf(k) = "open"
  BY DEF FateOf

\* The mapping of a step that touches one claim.
LEMMA OneClaim ==
  ASSUME NEW k \in Keys, \A i \in Keys : i # k => claims'[i] = claims[i]
  PROVE  /\ Bound' = [Bound EXCEPT ![k] = claims'[k].request]
         /\ Fate' = [Fate EXCEPT ![k] = FateOf(k)']
         /\ Product' = [Product EXCEPT ![k] = ProductOf(k)']
  <1>1. \A i \in Keys : i # k =>
          /\ claims'[i].request = claims[i].request
          /\ FateOf(i)' = FateOf(i)
          /\ ProductOf(i)' = ProductOf(i)
    BY DEF FateOf, ProductOf
  <1>2. Bound' = [Bound EXCEPT ![k] = claims'[k].request]
    BY <1>1 DEF Bound
  <1>3. Fate' = [Fate EXCEPT ![k] = FateOf(k)']
    BY <1>1 DEF Fate
  <1>4. Product' = [Product EXCEPT ![k] = ProductOf(k)']
    BY <1>1 DEF Product
  <1> QED
    BY <1>2, <1>3, <1>4

\* A claim handed out binds its key, the first time.
LEMMA HandsRefines ==
  ASSUME Shapes, NEW k \in Keys, NEW c \in Callers, NEW q \in Requests,
         Hands(k, c, q), UNCHANGED Replies
  PROVE  Promise!Next \/ UNCHANGED Promise!keyVars
  <1>1. /\ claims \in [Keys -> ToolClaim]
        /\ claims' = [claims EXCEPT ![k] = Held(c, q)]
    BY DEF Shapes, ClaimsTypeOK, Hands
  <1>2. /\ claims'[k].state = "claimed" /\ claims'[k].request = q
        /\ \A i \in Keys : i # k => claims'[i] = claims[i]
    BY <1>1 DEF Held
  <1>3. FateOf(k)' = "open" /\ ProductOf(k)' = {}
    BY <1>2 DEF FateOf, ProductOf
  <1>4. /\ Bound' = [Bound EXCEPT ![k] = q]
        /\ Fate' = [Fate EXCEPT ![k] = "open"]
        /\ Product' = [Product EXCEPT ![k] = {}]
    BY <1>2, <1>3, OneClaim
  <1>5. Fate[k] = "open" /\ Product[k] = {}
    <2>1. \/ claims[k].state \in {"absent", "claimed"}
          \/ claims[k].state = "failed" /\ claims[k].disposition = "retryable"
      BY DEF Hands, Acquirable, Abandoned, Retryable
    <2> QED
      BY <2>1, FateFacts DEF Fate, Product, ProductOf
  <1>6. UNCHANGED <<Fate, Product>>
    BY <1>4, <1>5 DEF Fate, Product
  <1>7. CASE claims[k].state = "absent"
    <2>1. Bound[k] = NoRequest
      BY <1>1, <1>7 DEF Bound, ToolClaim, Absent
    <2> QED
      BY <1>4, <1>6, <2>1, BindStep
  <1>8. CASE claims[k].state # "absent"
    <2>1. Bound[k] = q
      BY <1>8 DEF Hands, Acquirable, Conflicts, Bound
    <2>2. Bound' = Bound
      BY <1>4, <2>1 DEF Bound
    <2> QED
      BY <1>6, <2>2, MappedStay
  <1> QED
    BY <1>7, <1>8

\* A claim that ends settles or seals its key, or leaves it open.
LEMMA EndsRefines ==
  ASSUME Shapes, NEW k \in Keys, NEW c \in Callers,
         Completes(k, c) \/ \E d \in Dispositions : Fails(k, c, d),
         UNCHANGED Replies
  PROVE  Promise!Next \/ UNCHANGED Promise!keyVars
  <1>1. /\ claims \in [Keys -> ToolClaim]
        /\ claims[k].state = "claimed" /\ claims[k].owner = c
    BY DEF Shapes, ClaimsTypeOK, Completes, Fails, Owns
  <1>2. claims[k] \in ToolClaim \ {Absent}
    BY <1>1 DEF Absent
  <1>3. Bound[k] = claims[k].request /\ Bound[k] \in Requests
    BY <1>2 DEF Bound, ToolClaim
  <1>4. Bound[k] # NoRequest
    BY <1>3, GatewayAssumption
  <1>5. Fate[k] = "open" /\ Product[k] = {}
    BY <1>1, FateFacts DEF Fate, Product, ProductOf
  <1>6. CASE Completes(k, c)
    <2> DEFINE done == [claims[k] EXCEPT !.state = "completed"]
    <2>1. claims' = [claims EXCEPT ![k] = done]
      BY <1>6 DEF Completes
    <2>2. /\ done.state = "completed" /\ done.owner = c
          /\ done.request = claims[k].request
      BY <1>1, <1>2 DEF ToolClaim
    <2> HIDE DEF done
    <2>3. /\ claims'[k] = done
          /\ \A i \in Keys : i # k => claims'[i] = claims[i]
      BY <1>1, <2>1
    <2>4. FateOf(k)' = "settled" /\ ProductOf(k)' = {c}
      BY <2>2, <2>3 DEF FateOf, ProductOf
    <2>5. /\ Bound' = [Bound EXCEPT ![k] = Bound[k]]
          /\ Fate' = [Fate EXCEPT ![k] = "settled"]
          /\ Product' = [Product EXCEPT ![k] = {c}]
      BY <1>3, <2>2, <2>3, <2>4, OneClaim
    <2>6. Bound' = Bound
      BY <2>5 DEF Bound
    <2> QED
      BY <1>4, <1>5, <2>5, <2>6, SettleStep
  <1>7. ASSUME NEW d \in Dispositions, Fails(k, c, d)
        PROVE  Promise!Next \/ UNCHANGED Promise!keyVars
    <2> DEFINE ended == [claims[k] EXCEPT !.state = "failed", !.disposition = d]
    <2>1. claims' = [claims EXCEPT ![k] = ended]
      BY <1>1, <1>7 DEF Fails
    <2>2. /\ ended.state = "failed" /\ ended.disposition = d
          /\ ended.request = claims[k].request
      BY <1>2 DEF ToolClaim
    <2> HIDE DEF ended
    <2>3. /\ claims'[k] = ended
          /\ \A i \in Keys : i # k => claims'[i] = claims[i]
      BY <1>1, <2>1
    <2>4. /\ FateOf(k)' = IF d = "retryable" THEN "open" ELSE "sealed"
          /\ ProductOf(k)' = {}
      BY <2>2, <2>3 DEF FateOf, ProductOf
    <2>5. /\ Bound' = [Bound EXCEPT ![k] = Bound[k]]
          /\ Fate' = [Fate EXCEPT ![k] = FateOf(k)']
          /\ Product' = [Product EXCEPT ![k] = {}]
      BY <1>3, <2>2, <2>3, <2>4, OneClaim
    <2>6. Bound' = Bound /\ Product' = Product
      BY <1>5, <2>5 DEF Bound, Product
    <2>7. CASE d = "retryable"
      <3>1. Fate' = Fate
        BY <1>5, <2>4, <2>5, <2>7 DEF Fate
      <3> QED
        BY <2>6, <3>1, MappedStay
    <2>8. CASE d # "retryable"
      BY <1>4, <1>5, <2>4, <2>5, <2>6, <2>8, SealStep
    <2> QED
      BY <2>7, <2>8
  <1> QED
    BY <1>6, <1>7

LEMMA StutterRefines ==
  ASSUME claims' = claims, UNCHANGED Replies
  PROVE  UNCHANGED Promise!keyVars
  BY ClaimsStay, MappedStay

LEMMA ExpiryRefines ==
  ASSUME Shapes, NEW k \in Keys, ClaimExpires(k), UNCHANGED Replies
  PROVE  UNCHANGED Promise!keyVars
  <1> DEFINE expired == [claims[k] EXCEPT !.live = FALSE]
  <1>1. /\ claims \in [Keys -> ToolClaim] /\ claims[k].state = "claimed"
        /\ claims' = [claims EXCEPT ![k] = expired]
    BY DEF Shapes, ClaimsTypeOK, ClaimExpires
  <1>2. claims[k] \in ToolClaim \ {Absent}
    BY <1>1 DEF Absent
  <1>3. expired.state = "claimed" /\ expired.request = claims[k].request
    BY <1>1, <1>2 DEF ToolClaim
  <1> HIDE DEF expired
  <1>4. /\ claims'[k] = expired
        /\ \A i \in Keys : i # k => claims'[i] = claims[i]
    BY <1>1
  <1>5. /\ FateOf(k)' = "open" /\ FateOf(k) = "open"
        /\ ProductOf(k)' = {} /\ ProductOf(k) = {}
    BY <1>1, <1>3, <1>4 DEF FateOf, ProductOf
  <1>6. /\ Bound' = [Bound EXCEPT ![k] = Bound[k]]
        /\ Fate' = [Fate EXCEPT ![k] = Fate[k]]
        /\ Product' = [Product EXCEPT ![k] = Product[k]]
    <2>1. /\ Bound[k] = claims'[k].request
          /\ Fate[k] = FateOf(k)' /\ Product[k] = ProductOf(k)'
      BY <1>3, <1>4, <1>5 DEF Bound, Fate, Product
    <2> QED
      BY <1>4, <2>1, OneClaim
  <1>7. UNCHANGED <<Bound, Fate, Product>>
    BY <1>6 DEF Bound, Fate, Product
  <1> QED
    BY <1>7, MappedStay

\* A step of a call that does not return refines by what it does to its claim.
LEMMA ActsRefine ==
  ASSUME IInv, NEW c \in Callers, UNCHANGED Replies,
         \/ UNCHANGED claims
         \/ /\ pc[c] \notin {"idle", "crashed"} /\ IsKeyed(c)
            /\ \/ Hands(Key(c), c, want[c].request)
               \/ Completes(Key(c), c)
               \/ \E d \in Dispositions : Fails(Key(c), c, d)
  PROVE  Promise!Next \/ UNCHANGED Promise!keyVars
  <1>1. CASE UNCHANGED claims
    BY <1>1, StutterRefines
  <1>2. CASE /\ pc[c] \notin {"idle", "crashed"} /\ IsKeyed(c)
             /\ \/ Hands(Key(c), c, want[c].request)
                \/ Completes(Key(c), c)
                \/ \E d \in Dispositions : Fails(Key(c), c, d)
    <2>1. Key(c) \in Keys /\ want[c].request \in Requests /\ Shapes
      BY <1>2, Begun DEF IInv
    <2>2. CASE Hands(Key(c), c, want[c].request)
      BY <2>1, <2>2, HandsRefines
    <2>3. CASE \/ Completes(Key(c), c)
               \/ \E d \in Dispositions : Fails(Key(c), c, d)
      BY <2>1, <2>3, EndsRefines
    <2> QED
      BY <1>2, <2>2, <2>3
  <1> QED
    BY <1>1, <1>2

LEMMA ReturnRefines ==
  ASSUME IInv, NEW c \in Callers, Return(c)
  PROVE  Promise!Next \/ UNCHANGED Promise!keyVars
  <1>1. /\ pc[c] = "reply" /\ pc' = [pc EXCEPT ![c] = "done"]
        /\ UNCHANGED <<claims, want, answer>>
        /\ pc \in [Callers -> Places] /\ CallOK(c)
        /\ answer[c].by \in Callers \cup {NoCaller}
    BY DEF Return, Goto, IInv, Shapes, Answer
  <1>2. /\ want[c].request \in Requests
        /\ IsKeyed(c) => Key(c) \in Keys
    BY <1>1, Begun
  <1>3. \A d \in Callers : pc'[d] = "done" <=> pc[d] = "done" \/ d = c
    BY <1>1
  <1>4. \A d \in Callers : Key(d)' = Key(d) /\ ReplyOf(d)' = ReplyOf(d)
    BY <1>1 DEF ReplyOf, Key
  <1>5. UNCHANGED <<Bound, Fate, Product>>
    BY <1>1, ClaimsStay
  <1>6. CASE ~IsKeyed(c)
    <2>1. Replied' = Replied
      BY <1>3, <1>4, <1>6 DEF Replied, IsKeyed
    <2>2. Replies' = Replies
      BY <1>4, <2>1 DEF Replies, Replied
    <2> QED
      BY <1>5, <2>2, MappedStay
  <1>7. CASE IsKeyed(c)
    <2>1. Replied' = Replied \cup {c}
      BY <1>3, <1>4, <1>7 DEF Replied, IsKeyed
    <2>2. Replies' = Replies \cup {ReplyOf(c)}
      BY <1>4, <2>1 DEF Replies, Replied
    <2>3. Key(c) \in Keys
      BY <1>2, <1>7
    <2>4. answer[c].by # NoCaller =>
            /\ Bound[Key(c)] = want[c].request
            /\ Product[Key(c)] = {answer[c].by}
      BY <1>1, <1>7, <2>3 DEF CallOK, AnswerOK, Bound, Product, ProductOf
    <2> QED
      BY <1>1, <1>2, <1>5, <2>2, <2>3, <2>4, ReplyStep
  <1> QED
    BY <1>6, <1>7

LEMMA StepRefines ==
  IInv /\ [Next]_vars => Promise!Next \/ UNCHANGED Promise!keyVars
  <1> DEFINE Refined == Promise!Next \/ UNCHANGED Promise!keyVars
  <1> SUFFICES ASSUME IInv, [Next]_vars PROVE Refined
    OBVIOUS
  <1> HIDE DEF Refined
  <1>1. pc \in [Callers -> Places] /\ \A d \in Callers : CallOK(d)
    BY DEF IInv, Shapes
  <1>3. ASSUME NEW c \in Callers, Acts(c), pc[c] # "done", pc'[c] # "done"
        PROVE  Replies' = Replies
    <2>1. \A d \in Callers : pc'[d] = "done" <=> pc[d] = "done"
      BY <1>3 DEF Acts
    <2>2. \A d \in Callers : pc[d] = "done" =>
            want'[d] = want[d] /\ answer'[d] = answer[d]
      BY <1>3 DEF Acts
    <2> QED
      BY <2>1, <2>2, RepliesStay
  <1>4. ASSUME NEW c \in Callers, NEW k \in Keys \cup {NoKey},
               NEW q \in Requests, Call(c, k, q)
        PROVE  Refined
    <2>1. UNCHANGED claims /\ pc[c] = "idle" /\ pc'[c] # "done"
      BY <1>1, <1>4 DEF Call, Finishing, Goto
    <2> QED
      BY <1>3, <1>4, <2>1, CallActs, StutterRefines DEF Refined
  <1>5. ASSUME NEW c \in Callers, ClaimKey(c)
        PROVE  Refined
    <2>1. pc[c] = "claim" /\ pc'[c] # "done"
      BY <1>1, <1>5 DEF ClaimKey, Finishing, Goto
    <2>2. /\ Key(c) \in Keys /\ want[c].request \in Requests /\ IsKeyed(c)
      BY <2>1, Begun
    <2>3. UNCHANGED claims \/ Hands(Key(c), c, want[c].request)
      BY <1>5, <2>2, ClaimMoves DEF ClaimKey
    <2>4. Replies' = Replies
      BY <1>3, <1>5, <2>1, ClaimKeyActs
    <2> QED
      BY <2>1, <2>2, <2>3, <2>4, ActsRefine DEF Refined
  <1>6. ASSUME NEW c \in Callers, StartAttempt(c)
        PROVE  Refined
    <2>1. pc[c] = "attempt" /\ pc'[c] # "done" /\ UNCHANGED claims
      BY <1>1, <1>6 DEF StartAttempt, AttemptFails, Goto
    <2> QED
      BY <1>3, <1>6, <2>1, StartAttemptActs, StutterRefines DEF Refined
  <1>7. ASSUME NEW c \in Callers, HandlerApplies(c)
        PROVE  Refined
    <2>1. pc[c] = "handler" /\ pc'[c] # "done" /\ UNCHANGED claims
      BY <1>1, <1>7 DEF HandlerApplies, Goto
    <2> QED
      BY <1>3, <1>7, <2>1, HandlerAppliesActs, StutterRefines DEF Refined
  <1>8. ASSUME NEW c \in Callers,
               \/ HandlerReturns(c) \/ Backoff(c)
               \/ \E kind \in {"transient", "permanent", "invalid"} :
                    HandlerFails(c, kind)
        PROVE  Refined
    <2>1. pc[c] # "done" /\ pc'[c] # "done" /\ UNCHANGED claims
      BY <1>1, <1>8 DEF HandlerReturns, Backoff, HandlerFails, AttemptFails, Goto
    <2> QED
      BY <1>3, <1>8, <2>1, HandlerEndsActs, StutterRefines DEF Refined
  <1>9. ASSUME NEW c \in Callers, NEW storable \in BOOLEAN, Persist(c, storable)
        PROVE  Refined
    <2>1. pc[c] = "persist" /\ pc'[c] # "done"
      BY <1>1, <1>9, PersistMoves DEF Persist
    <2>2. Replies' = Replies
      BY <1>3, <1>9, <2>1, PersistActs
    <2>3. \/ UNCHANGED claims
          \/ /\ IsKeyed(c)
             /\ \/ Completes(Key(c), c)
                \/ \E d \in Dispositions : Fails(Key(c), c, d)
      BY <1>9, PersistMoves
    <2> QED
      BY <2>1, <2>2, <2>3, ActsRefine DEF Refined
  <1>10. ASSUME NEW c \in Callers, Cancel(c)
         PROVE  Refined
    <2>1. pc[c] \in {"handler", "applied", "backoff"} /\ pc'[c] # "done"
      BY <1>1, <1>10 DEF Cancel, Goto
    <2>2. Replies' = Replies
      BY <1>3, <1>10, <2>1, LeavingActs
    <2>3. \/ UNCHANGED claims
          \/ IsKeyed(c) /\ Fails(Key(c), c, "retryable")
      BY <1>10 DEF Cancel, FailToolExecution, Fails
    <2> QED
      BY <2>1, <2>2, <2>3, ActsRefine DEF Refined, Dispositions
  <1>11. ASSUME NEW c \in Callers, Crash(c)
         PROVE  Refined
    <2>1. pc[c] # "done" /\ pc'[c] # "done" /\ UNCHANGED claims
      BY <1>1, <1>11 DEF Crash, Goto, Ended
    <2> QED
      BY <1>3, <1>11, <2>1, LeavingActs, StutterRefines DEF Refined
  <1>12. ASSUME NEW k \in Keys, Expire(k)
         PROVE  Refined
    <2>1. ClaimExpires(k) /\ Shapes /\ UNCHANGED <<pc, want, answer>>
      BY <1>12 DEF Expire, callVars, IInv
    <2> QED
      BY <2>1, RepliesStay, ExpiryRefines DEF Refined
  <1>13. CASE UNCHANGED vars
    <2>1. UNCHANGED <<claims, pc, want, answer>>
      BY <1>13 DEF vars, callVars
    <2> QED
      BY <2>1, RepliesStay, StutterRefines DEF Refined
  <1>14. ASSUME NEW c \in Callers, Return(c) PROVE Refined
    BY <1>14, ReturnRefines DEF Refined
  <1>15. ASSUME NEW c \in Callers, Advance(c) PROVE Refined
    BY <1>5, <1>6, <1>7, <1>8, <1>9, <1>14, <1>15 DEF Advance
  <1> QED
    BY <1>4, <1>10, <1>11, <1>12, <1>13, <1>15 DEF Next, Quiescent

LEMMA InitRefines == Init => Promise!Init
  <1> SUFFICES ASSUME Init PROVE Promise!Init
    OBVIOUS
  <1>1. /\ claims = [k \in Keys |-> Absent]
        /\ Absent.state = "absent" /\ Absent.request = NoRequest
    BY DEF Init, ClaimsInit, Absent
  <1>2. Bound = [k \in Keys |-> NoRequest]
    BY <1>1 DEF Bound
  <1>3. Fate = [k \in Keys |-> "open"] /\ Product = [k \in Keys |-> {}]
    BY <1>1 DEF Fate, FateOf, Product, ProductOf
  <1>4. Replies = {}
    BY DEF Init, Replies, Replied
  <1> QED
    BY <1>2, <1>3, <1>4, MappedInit

\* Claims, leases, takeovers, attempts and crashes of any number of calls
\* keep the promise of IdempotentKey.
THEOREM Refinement == Spec => ImplementsIdempotentKey
  <1>1. IInv /\ [Next]_vars => [Promise!Next]_(Promise!keyVars)
    BY StepRefines
  <1> QED
    BY <1>1, InitRefines, Invariance, PTL
    DEF Spec, ImplementsIdempotentKey, Promise!Spec

-----------------------------------------------------------------------------
(* The trace of a call *)

LastEnds(trace, n) == {i \in Ends(trace) : trace[i].attempt = n}

\* What the trace of a call, the number of its attempt, its place, its last
\* outcome and its answer have to do with each other.  A call about to try
\* again was promised a retry; one past its attempts was not.
Account(trace, n, place, outcome, a) ==
  /\ Tells(trace, n, IF place \in {"handler", "applied"} THEN n - 1 ELSE n)
  /\ place \in {"handler", "applied"} => n > 0
  /\ place \in {"idle", "claim"} => n = 0
  /\ place \in {"attempt", "backoff"} =>
       \A i \in LastEnds(trace, n) : MayRetry(trace[i])
  /\ place = "persist" =>
       \A i \in LastEnds(trace, n) :
         ~trace[i].retry /\ (outcome = "ok" => trace[i].type = "succeeded")
  /\ place = "reply" /\ a.attempts > 0 =>
       /\ a.attempts = n
       /\ \A i \in LastEnds(trace, n) :
            /\ ~trace[i].retry
            /\ a.status = "succeeded" => trace[i].type = "succeeded"

Told ==
  \A c \in Callers : Account(log[c], attempt[c], pc[c], last[c], answer[c])

\* An event at the end leaves the earlier ones where they are.
LEMMA Appended ==
  ASSUME NEW t \in Seq(Event), NEW e \in Event
  PROVE  LET t2 == Append(t, e)
         IN  /\ t2 \in Seq(Event) /\ Len(t) \in Nat
             /\ DOMAIN t = 1..Len(t) /\ DOMAIN t2 = 1..(Len(t) + 1)
             /\ \A i \in 1..Len(t) : t2[i] = t[i]
             /\ t2[Len(t) + 1] = e
  BY AppendProperties, LenProperties

LEMMA EventTypes ==
  ASSUME NEW e \in Event
  PROVE  e.attempt \in Nat /\ e.transient \in BOOLEAN /\ e.retry \in BOOLEAN
  BY DEF Event

LEMMA AppendedPlaces ==
  ASSUME NEW t \in Seq(Event), NEW e \in Event
  PROVE  LET t2 == Append(t, e)
             here == Len(t) + 1
             end == e.type \in {"succeeded", "failed", "cancelled"}
         IN  /\ Starts(t) \subseteq 1..Len(t) /\ Ends(t) \subseteq 1..Len(t)
             /\ Starts(t2) = IF e.type = "started" THEN Starts(t) \cup {here}
                                                   ELSE Starts(t)
             /\ Ends(t2) = IF end THEN Ends(t) \cup {here} ELSE Ends(t)
  <1> DEFINE t2 == Append(t, e)
             n == Len(t)
             here == n + 1
             end == e.type \in {"succeeded", "failed", "cancelled"}
  <1>1. /\ n \in Nat /\ DOMAIN t = 1..n /\ DOMAIN t2 = 1..here
        /\ \A i \in 1..n : t2[i] = t[i]
        /\ t2[here] = e
    BY Appended
  <1> HIDE DEF t2, n
  <1>2. 1..here = 1..n \cup {here} /\ here \notin 1..n
    BY <1>1
  <1> HIDE DEF here
  <1>3. Starts(t2) = IF e.type = "started" THEN Starts(t) \cup {here}
                                           ELSE Starts(t)
    BY <1>1, <1>2 DEF Starts
  <1>4. Ends(t2) = IF end THEN Ends(t) \cup {here} ELSE Ends(t)
    BY <1>1, <1>2 DEF Ends
  <1>5. Starts(t) \subseteq 1..n /\ Ends(t) \subseteq 1..n
    BY <1>1 DEF Starts, Ends
  <1> QED
    BY <1>3, <1>4, <1>5 DEF t2, n, here

\* The next number at the next place keeps the count.
LEMMA CountsOn ==
  ASSUME NEW t \in Seq(Event), NEW e \in Event, NEW places, NEW n \in Nat,
         places \subseteq 1..Len(t), Counts(t, places, n)
  PROVE  /\ Counts(Append(t, e), places, n)
         /\ e.attempt = n + 1 =>
              Counts(Append(t, e), places \cup {Len(t) + 1}, n + 1)
  <1> DEFINE t2 == Append(t, e)
             k == Len(t)
             more == places \cup {k + 1}
  <1>1. /\ k \in Nat /\ \A i \in 1..k : t2[i] = t[i]
        /\ t2[k + 1] = e
    BY Appended
  <1>2. \A i \in places : i \in 1..k /\ t2[i] = t[i]
    BY <1>1
  <1>3. \A i \in places : t2[i].attempt \in 1..n
    BY <1>2 DEF Counts
  <1> HIDE DEF t2, k
  <1>4. Counts(t2, places, n)
    BY <1>2 DEF Counts
  <1>5. ASSUME e.attempt = n + 1 PROVE Counts(t2, more, n + 1)
    <2>1. {t2[i].attempt : i \in more} = 1..n \cup {n + 1}
      BY <1>1, <1>4, <1>5 DEF Counts
    <2>2. 1..n \cup {n + 1} = 1..(n + 1)
      OBVIOUS
    <2>3. ASSUME NEW i \in more, NEW j \in more, i < j
          PROVE  t2[i].attempt < t2[j].attempt
      <3>1. CASE i \in places /\ j \in places
        BY <1>4, <2>3, <3>1 DEF Counts
      <3>2. CASE i \in places /\ j = k + 1
        BY <1>1, <1>3, <1>5, <3>2
      <3>3. CASE i = k + 1
        BY <1>1, <1>2, <2>3, <3>3
      <3> QED
        BY <3>1, <3>2, <3>3
    <2> QED
      BY <2>1, <2>2, <2>3 DEF Counts
  <1> QED
    BY <1>4, <1>5 DEF t2, k

\* What Tells says about the order of beginnings and ends.
Ordered(t) ==
  /\ \A i \in Ends(t) :
       \E j \in Starts(t) : j < i /\ t[j].attempt = t[i].attempt
  /\ \A i \in Starts(t) : t[i].attempt > 1 =>
       \E j \in Ends(t) :
         j < i /\ t[j].attempt + 1 = t[i].attempt /\ MayRetry(t[j])

LEMMA TellsParts ==
  ASSUME NEW t, NEW n, NEW m
  PROVE  Tells(t, n, m) <=>
           Counts(t, Starts(t), n) /\ Counts(t, Ends(t), m) /\ Ordered(t)
  BY DEF Tells, Ordered

\* The order survives an event at the end that has its own antecedent.
LEMMA OrderedOn ==
  ASSUME NEW t \in Seq(Event), NEW e \in Event, Ordered(t),
         e.type \in {"succeeded", "failed", "cancelled"} =>
           \E j \in Starts(t) : t[j].attempt = e.attempt,
         e.type = "started" /\ e.attempt > 1 =>
           \E j \in Ends(t) :
             t[j].attempt + 1 = e.attempt /\ MayRetry(t[j])
  PROVE  Ordered(Append(t, e))
  <1> DEFINE t2 == Append(t, e)
             k == Len(t)
             end == e.type \in {"succeeded", "failed", "cancelled"}
  <1>1. /\ k \in Nat /\ \A i \in 1..k : t2[i] = t[i]
        /\ t2[k + 1] = e
    BY Appended
  <1>2. /\ Starts(t) \subseteq 1..k /\ Ends(t) \subseteq 1..k
        /\ Starts(t2) = IF e.type = "started" THEN Starts(t) \cup {k + 1}
                                              ELSE Starts(t)
        /\ Ends(t2) = IF end THEN Ends(t) \cup {k + 1} ELSE Ends(t)
    BY AppendedPlaces
  <1> HIDE DEF t2, k
  <1>3. ASSUME NEW i \in Ends(t2)
        PROVE  \E j \in Starts(t2) : j < i /\ t2[j].attempt = t2[i].attempt
    <2>1. CASE i \in Ends(t)
      <3>1. PICK j \in Starts(t) : j < i /\ t[j].attempt = t[i].attempt
        BY <2>1 DEF Ordered
      <3>2. t2[i] = t[i] /\ t2[j] = t[j] /\ j \in Starts(t2)
        BY <1>1, <1>2, <2>1
      <3> QED
        BY <3>1, <3>2
    <2>2. CASE i = k + 1 /\ end
      <3>1. PICK j \in Starts(t) : t[j].attempt = e.attempt
        BY <2>2
      <3>2. t2[i] = e /\ t2[j] = t[j] /\ j \in Starts(t2) /\ j < i
        BY <1>1, <1>2, <2>2
      <3> QED
        BY <3>1, <3>2
    <2> QED
      BY <1>2, <2>1, <2>2
  <1>4. ASSUME NEW i \in Starts(t2), t2[i].attempt > 1
        PROVE  \E j \in Ends(t2) :
                 /\ j < i /\ t2[j].attempt + 1 = t2[i].attempt
                 /\ MayRetry(t2[j])
    <2>1. CASE i \in Starts(t)
      <3>1. t2[i] = t[i]
        BY <1>1, <1>2, <2>1
      <3>2. PICK j \in Ends(t) :
              j < i /\ t[j].attempt + 1 = t[i].attempt /\ MayRetry(t[j])
        BY <1>4, <2>1, <3>1 DEF Ordered
      <3>3. t2[j] = t[j] /\ j \in Ends(t2)
        BY <1>1, <1>2
      <3> QED
        BY <3>1, <3>2, <3>3
    <2>2. CASE i = k + 1 /\ e.type = "started"
      <3>1. t2[i] = e
        BY <1>1, <2>2
      <3>2. PICK j \in Ends(t) : t[j].attempt + 1 = e.attempt /\ MayRetry(t[j])
        BY <1>4, <2>2, <3>1
      <3>3. t2[j] = t[j] /\ j \in Ends(t2) /\ j < i
        BY <1>1, <1>2, <2>2
      <3> QED
        BY <3>1, <3>2, <3>3
    <2> QED
      BY <1>2, <2>1, <2>2
  <1> QED
    BY <1>3, <1>4 DEF Ordered, t2

\* One event more: an attempt begins, one ends, or neither.
LEMMA StartTold ==
  ASSUME NEW t \in Seq(Event), NEW e \in Event, NEW n \in Nat,
         Tells(t, n, n), \A i \in LastEnds(t, n) : MayRetry(t[i]),
         e.type = "started", e.attempt = n + 1
  PROVE  Tells(Append(t, e), n + 1, n)
  <1>1. Counts(t, Starts(t), n) /\ Counts(t, Ends(t), n) /\ Ordered(t)
    BY TellsParts
  <1>2. n > 0 => n \in {t[i].attempt : i \in Ends(t)}
    <2>1. n > 0 => n \in 1..n
      OBVIOUS
    <2> QED
      BY <1>1, <2>1 DEF Counts
  <1>3. n > 0 =>
          \E j \in Ends(t) : t[j].attempt + 1 = e.attempt /\ MayRetry(t[j])
    BY <1>2 DEF LastEnds
  <1>4. Ordered(Append(t, e))
    BY <1>1, <1>3, OrderedOn
  <1>5. /\ Starts(Append(t, e)) = Starts(t) \cup {Len(t) + 1}
        /\ Ends(Append(t, e)) = Ends(t)
        /\ Starts(t) \subseteq 1..Len(t) /\ Ends(t) \subseteq 1..Len(t)
    BY AppendedPlaces
  <1> QED
    BY <1>1, <1>4, <1>5, CountsOn, TellsParts

LEMMA EndTold ==
  ASSUME NEW t \in Seq(Event), NEW e \in Event, NEW n \in Nat, n > 0,
         Tells(t, n, n - 1),
         e.type \in {"succeeded", "failed", "cancelled"}, e.attempt = n
  PROVE  /\ Tells(Append(t, e), n, n)
         /\ \A i \in LastEnds(Append(t, e), n) : Append(t, e)[i] = e
  <1>1. Counts(t, Starts(t), n) /\ Counts(t, Ends(t), n - 1) /\ Ordered(t)
    BY TellsParts
  <1>2. n \in {t[i].attempt : i \in Starts(t)}
    <2>1. n \in 1..n
      OBVIOUS
    <2> QED
      BY <1>1, <2>1 DEF Counts
  <1>3. Ordered(Append(t, e))
    BY <1>1, <1>2, OrderedOn
  <1>4. /\ Starts(Append(t, e)) = Starts(t)
        /\ Ends(Append(t, e)) = Ends(t) \cup {Len(t) + 1}
        /\ Starts(t) \subseteq 1..Len(t) /\ Ends(t) \subseteq 1..Len(t)
    BY AppendedPlaces
  <1>5. n - 1 \in Nat /\ (n - 1) + 1 = n
    OBVIOUS
  <1>6. Counts(Append(t, e), Ends(t) \cup {Len(t) + 1}, n)
    BY <1>1, <1>4, <1>5, CountsOn
  <1>7. Counts(Append(t, e), Starts(t), n)
    BY <1>1, <1>4, CountsOn
  <1>8. ASSUME NEW i \in LastEnds(Append(t, e), n)
        PROVE  Append(t, e)[i] = e
    <2>1. \A j \in Ends(t) : t[j].attempt \in 1..(n - 1)
      BY <1>1 DEF Counts
    <2>2. \A j \in Ends(t) : Append(t, e)[j] = t[j]
      BY <1>4, Appended
    <2>3. i \notin Ends(t)
      <3>1. Append(t, e)[i].attempt = n
        BY DEF LastEnds
      <3>2. n \notin 1..(n - 1)
        OBVIOUS
      <3> QED
        BY <2>1, <2>2, <3>1, <3>2
    <2>4. i = Len(t) + 1
      BY <1>4, <2>3 DEF LastEnds
    <2> QED
      BY <2>4, Appended
  <1> QED
    BY <1>3, <1>4, <1>6, <1>7, <1>8, TellsParts

LEMMA OtherTold ==
  ASSUME NEW t \in Seq(Event), NEW e \in Event, NEW n \in Nat, NEW m \in Nat,
         Tells(t, n, m), e.type \in {"fault", "invalid", "retry_cancelled"}
  PROVE  Tells(Append(t, e), n, m)
  <1>1. Counts(t, Starts(t), n) /\ Counts(t, Ends(t), m) /\ Ordered(t)
    BY TellsParts
  <1>2. Ordered(Append(t, e))
    BY <1>1, OrderedOn
  <1>3. /\ Starts(Append(t, e)) = Starts(t) /\ Ends(Append(t, e)) = Ends(t)
        /\ Starts(t) \subseteq 1..Len(t) /\ Ends(t) \subseteq 1..Len(t)
    BY AppendedPlaces
  <1> QED
    BY <1>1, <1>2, <1>3, CountsOn, TellsParts

-----------------------------------------------------------------------------
(* The steps of a call *)

LEMMA OneEvent ==
  ASSUME NEW t \in Seq(Event), NEW e \in Event
  PROVE  t \o <<e>> = Append(t, e)
  BY AppendIsConcat

LEMMA TwoEvents ==
  ASSUME NEW t \in Seq(Event), NEW e \in Event, NEW f \in Event
  PROVE  t \o <<e, f>> = Append(Append(t, e), f)
  <1>1. <<e>> \in Seq(Event) /\ <<f>> \in Seq(Event) /\ <<e>> \o <<f>> = <<e, f>>
    <2> DEFINE a == <<e>>
               b == <<f>>
               ab == <<e, f>>
    <2>1. /\ a \in Seq(Event) /\ Len(a) = 1 /\ a[1] = e
          /\ b \in Seq(Event) /\ Len(b) = 1 /\ b[1] = f
          /\ ab \in Seq(Event) /\ Len(ab) = 2 /\ ab[1] = e /\ ab[2] = f
      OBVIOUS
    <2> HIDE DEF a, b, ab
    <2>2. /\ a \o b \in Seq(Event) /\ Len(a \o b) = 2
          /\ \A i \in 1..2 : (a \o b)[i] = IF i <= 1 THEN a[i] ELSE b[i - 1]
      <3>1. /\ a \o b \in Seq(Event) /\ Len(a \o b) = Len(a) + Len(b)
            /\ \A i \in 1..Len(a) + Len(b) :
                 (a \o b)[i] = IF i <= Len(a) THEN a[i] ELSE b[i - Len(a)]
        BY <2>1, ConcatProperties
      <3> QED
        BY <2>1, <3>1
    <2>3. \A i \in 1..2 : (a \o b)[i] = ab[i]
      <3>1. (a \o b)[1] = ab[1] /\ (a \o b)[2] = ab[2]
        BY <2>1, <2>2
      <3>2. \A i \in 1..2 : i = 1 \/ i = 2
        OBVIOUS
      <3> QED
        BY <3>1, <3>2
    <2>4. a \o b = ab
      BY <2>1, <2>2, <2>3, SeqEqual
    <2> QED
      BY <2>1, <2>4 DEF a, b, ab
  <1>2. (t \o <<e>>) \o <<f>> = t \o (<<e>> \o <<f>>)
    BY <1>1, ConcatAssociative
  <1>3. t \o <<e>> = Append(t, e) /\ Append(t, e) \in Seq(Event)
    BY OneEvent, Appended
  <1>4. Append(t, e) \o <<f>> = Append(Append(t, e), f)
    BY <1>3, OneEvent
  <1> QED
    BY <1>1, <1>2, <1>3, <1>4

\* A step of c leaves the account of every other call as it is.
LEMMA AccountsKept ==
  ASSUME Shapes, Limits, Told, NEW c \in Callers, NEW t, NEW n, NEW place,
         NEW outcome, NEW a,
         log' = [log EXCEPT ![c] = t],
         attempt' = [attempt EXCEPT ![c] = n],
         pc' = [pc EXCEPT ![c] = place],
         last' = [last EXCEPT ![c] = outcome],
         answer' = [answer EXCEPT ![c] = a],
         Account(t, n, place, outcome, a)
  PROVE  Told'
  <1>1. /\ log'[c] = t /\ attempt'[c] = n /\ pc'[c] = place
        /\ last'[c] = outcome /\ answer'[c] = a
    BY DEF Shapes, Limits
  <1>2. ASSUME NEW d \in Callers, d # c
        PROVE  /\ log'[d] = log[d] /\ attempt'[d] = attempt[d]
               /\ pc'[d] = pc[d] /\ last'[d] = last[d]
               /\ answer'[d] = answer[d]
    BY <1>2 DEF Shapes, Limits
  <1>3. ASSUME NEW d \in Callers
        PROVE  Account(log'[d], attempt'[d], pc'[d], last'[d], answer'[d])
    <2>1. CASE d = c
      BY <1>1, <2>1
    <2>2. CASE d # c
      BY <1>2, <2>2 DEF Told
    <2> QED
      BY <2>1, <2>2
  <1> QED
    BY <1>3 DEF Told

\* What a step of c starts from.
LEMMA Begins ==
  ASSUME Shapes, Limits, Told, NEW c \in Callers
  PROVE  /\ log[c] \in Seq(Event) /\ attempt[c] \in Nat
         /\ Account(log[c], attempt[c], pc[c], last[c], answer[c])
         /\ log = [log EXCEPT ![c] = log[c]]
         /\ attempt = [attempt EXCEPT ![c] = attempt[c]]
         /\ last = [last EXCEPT ![c] = last[c]]
         /\ answer = [answer EXCEPT ![c] = answer[c]]
  BY DEF Shapes, Limits, Told

\* The end of a failed attempt, whatever else was recorded of it.
LEMMA FailureTold ==
  ASSUME Shapes, Limits, Told, NEW c \in Callers, NEW n \in Nat, n > 0,
         attempt' = [attempt EXCEPT ![c] = n], answer' = answer,
         NEW events, NEW transient \in BOOLEAN,
         log[c] \o events \in Seq(Event), Tells(log[c] \o events, n, n - 1),
         AttemptFails(c, events, transient)
  PROVE  Told'
  <1> DEFINE r == Retries(c, transient)
             failure == [type |-> "failed", attempt |-> n,
                         transient |-> transient, retry |-> r]
             before == log[c] \o events
             t == Append(before, failure)
             place == IF r THEN "backoff" ELSE "persist"
             outcome == IF transient THEN "transient" ELSE "permanent"
  <1>1. attempt'[c] = n
    BY DEF Shapes
  <1>2. r \in BOOLEAN /\ (r => transient)
    BY DEF Retries
  <1>3. failure \in Event
    BY <1>2 DEF Event
  <1>4. /\ failure.type = "failed" /\ failure.attempt = n
        /\ failure.transient = transient /\ failure.retry = r
    OBVIOUS
  <1>5. /\ log' = [log EXCEPT ![c] = before \o <<failure>>]
        /\ last' = [last EXCEPT ![c] = outcome]
        /\ pc' = [pc EXCEPT ![c] = place]
    BY <1>1 DEF AttemptFails, Goto
  <1> HIDE DEF failure, before
  <1>6. before \in Seq(Event) /\ Tells(before, n, n - 1)
    BY DEF before
  <1>7. before \o <<failure>> = t
    BY <1>3, <1>6, OneEvent
  <1>8. Tells(t, n, n) /\ \A i \in LastEnds(t, n) : t[i] = failure
    BY <1>3, <1>4, <1>6, EndTold
  <1>9. (r => place = "backoff") /\ (~r => place = "persist")
    OBVIOUS
  <1>10. outcome # "ok"
    OBVIOUS
  <1>11. r => MayRetry(failure)
    BY <1>2, <1>4 DEF MayRetry
  <1> HIDE DEF t, place, outcome, r
  <1>12. Account(t, n, place, outcome, answer[c])
    BY <1>4, <1>8, <1>9, <1>10, <1>11 DEF Account
  <1>13. answer' = [answer EXCEPT ![c] = answer[c]]
    BY Begins
  <1> QED
    BY <1>5, <1>7, <1>12, <1>13, AccountsKept

LEMMA StartAttemptTold ==
  ASSUME Shapes, Limits, Told, NEW c \in Callers, StartAttempt(c)
  PROVE  Told'
  <1> DEFINE t == log[c]
             n == attempt[c] + 1
             started == Happened(c, "started")
             fault == Happened(c, "fault")
             invalid == Happened(c, "invalid")
             kind == FaultFor(want[c].request, n)
             t1 == Append(t, started)
             t2 == Append(t1, fault)
             t3 == Append(t2, invalid)
  <1>1. /\ t \in Seq(Event) /\ attempt[c] \in Nat
        /\ Tells(t, attempt[c], attempt[c])
        /\ \A i \in LastEnds(t, attempt[c]) : MayRetry(t[i])
    BY Begins DEF StartAttempt, Account
  <1>2. attempt' = [attempt EXCEPT ![c] = n] /\ answer' = answer
    BY DEF StartAttempt
  <1>3. attempt'[c] = n /\ n \in Nat /\ n > 0 /\ n - 1 = attempt[c]
    <2>1. attempt'[c] = n
      BY <1>2 DEF Shapes
    <2>2. n \in Nat /\ n > 0 /\ n - 1 = attempt[c]
      BY <1>1
    <2> QED
      BY <2>1, <2>2
  <1>4. started \in Event /\ fault \in Event /\ invalid \in Event
    BY <1>3, EventFacts
  <1>5. /\ started.type = "started" /\ started.attempt = n
        /\ fault.type = "fault" /\ invalid.type = "invalid"
    BY <1>3 DEF Happened
  <1>6. \/ /\ log' = [log EXCEPT ![c] = t \o <<started>>]
           /\ pc' = [pc EXCEPT ![c] = "handler"]
           /\ last' = last
        \/ AttemptFails(c, <<started>> \o <<fault, invalid>>, FALSE)
        \/ AttemptFails(c, <<started>> \o <<fault>>, TRUE)
    BY DEF StartAttempt, Goto
  <1> HIDE DEF t, n, started, fault, invalid
  <1>7. t1 \in Seq(Event) /\ t2 \in Seq(Event) /\ t3 \in Seq(Event)
    BY <1>1, <1>4, Appended
  <1>8. Tells(t1, n, n - 1)
    BY <1>1, <1>3, <1>4, <1>5, StartTold
  <1> HIDE DEF t1
  <1>9. n - 1 \in Nat
    BY <1>1, <1>3
  <1>10. Tells(t2, n, n - 1)
    BY <1>3, <1>4, <1>5, <1>7, <1>8, <1>9, OtherTold
  <1> HIDE DEF t2
  <1>11. Tells(t3, n, n - 1)
    BY <1>3, <1>4, <1>5, <1>7, <1>9, <1>10, OtherTold
  <1>12. t \o <<started>> = t1
    BY <1>1, <1>4, OneEvent DEF t1
  <1>13. /\ <<started>> \in Seq(Event) /\ <<fault>> \in Seq(Event)
         /\ <<fault, invalid>> \in Seq(Event)
    BY <1>4
  <1>14. t \o (<<started>> \o <<fault>>) = t2
    <2>1. t \o (<<started>> \o <<fault>>) = (t \o <<started>>) \o <<fault>>
      BY <1>1, <1>13, ConcatAssociative
    <2> QED
      BY <1>4, <1>7, <1>12, <2>1, OneEvent DEF t2
  <1>15. t \o (<<started>> \o <<fault, invalid>>) = t3
    <2>1. t \o (<<started>> \o <<fault, invalid>>) =
          (t \o <<started>>) \o <<fault, invalid>>
      BY <1>1, <1>13, ConcatAssociative
    <2> QED
      BY <1>4, <1>7, <1>12, <2>1, TwoEvents DEF t2
  <1> HIDE DEF t3
  <1>16. ASSUME log' = [log EXCEPT ![c] = t \o <<started>>],
                pc' = [pc EXCEPT ![c] = "handler"], last' = last
         PROVE  Told'
    <2>1. Account(t1, n, "handler", last[c], answer[c])
      BY <1>3, <1>8 DEF Account
    <2>2. /\ last' = [last EXCEPT ![c] = last[c]]
          /\ answer' = [answer EXCEPT ![c] = answer[c]]
      BY <1>2, <1>16, Begins
    <2>3. log' = [log EXCEPT ![c] = t1]
      BY <1>12, <1>16
    <2>4. attempt' = [attempt EXCEPT ![c] = n] /\ pc' = [pc EXCEPT ![c] = "handler"]
      BY <1>2, <1>16
    <2> QED
      BY <2>1, <2>2, <2>3, <2>4, AccountsKept
  <1>17. ASSUME AttemptFails(c, <<started>> \o <<fault, invalid>>, FALSE)
         PROVE  Told'
    <2> DEFINE events == <<started>> \o <<fault, invalid>>
    <2>1. log[c] \o events \in Seq(Event) /\ Tells(log[c] \o events, n, n - 1)
      BY <1>7, <1>11, <1>15 DEF t
    <2>2. AttemptFails(c, events, FALSE)
      BY <1>17
    <2> HIDE DEF events
    <2> QED
      BY <1>2, <1>3, <2>1, <2>2, FailureTold
  <1>18. ASSUME AttemptFails(c, <<started>> \o <<fault>>, TRUE)
         PROVE  Told'
    <2> DEFINE events == <<started>> \o <<fault>>
    <2>1. log[c] \o events \in Seq(Event) /\ Tells(log[c] \o events, n, n - 1)
      BY <1>7, <1>10, <1>14 DEF t
    <2>2. AttemptFails(c, events, TRUE)
      BY <1>18
    <2> HIDE DEF events
    <2> QED
      BY <1>2, <1>3, <2>1, <2>2, FailureTold
  <1> QED
    BY <1>6, <1>16, <1>17, <1>18

\* The handler ends, well or badly, or is cancelled.
LEMMA HandlerTold ==
  ASSUME Shapes, Limits, Told, NEW c \in Callers,
         \/ HandlerReturns(c) \/ Cancel(c)
         \/ \E kind \in {"transient", "permanent", "invalid"} :
              HandlerFails(c, kind)
  PROVE  Told'
  <1> DEFINE t == log[c]
             n == attempt[c]
  <1>1. /\ t \in Seq(Event) /\ n \in Nat
        /\ Account(t, n, pc[c], last[c], answer[c])
        /\ attempt = [attempt EXCEPT ![c] = n]
        /\ last = [last EXCEPT ![c] = last[c]]
        /\ answer = [answer EXCEPT ![c] = answer[c]]
    BY Begins
  <1>2. attempt' = attempt /\ answer' = answer
    BY DEF HandlerReturns, HandlerFails, Cancel
  <1>3. attempt'[c] = n /\ attempt'[c] \in Nat
    BY <1>1, <1>2
  <1>4. /\ attempt' = [attempt EXCEPT ![c] = n]
        /\ answer' = [answer EXCEPT ![c] = answer[c]]
    BY <1>1, <1>2
  <1>5. pc[c] \in {"handler", "applied"} => n > 0 /\ Tells(t, n, n - 1)
    BY <1>1 DEF Account
  <1> HIDE DEF t, n
  <1>6. CASE HandlerReturns(c)
    <2> DEFINE e == Happened(c, "succeeded")
               t2 == Append(t, e)
    <2>1. e \in Event /\ e.type = "succeeded" /\ e.attempt = n /\ ~e.retry
      BY <1>3, EventFacts DEF Happened
    <2>2. pc[c] \in {"handler", "applied"}
      BY <1>6 DEF HandlerReturns
    <2>3. /\ log' = [log EXCEPT ![c] = t2]
          /\ last' = [last EXCEPT ![c] = "ok"]
          /\ pc' = [pc EXCEPT ![c] = "persist"]
      BY <1>6 DEF HandlerReturns, Goto, t
    <2> HIDE DEF e
    <2>4. Tells(t2, n, n) /\ \A i \in LastEnds(t2, n) : t2[i] = e
      BY <1>1, <1>5, <2>1, <2>2, EndTold
    <2> HIDE DEF t2
    <2>5. Account(t2, n, "persist", "ok", answer[c])
      BY <1>5, <2>1, <2>2, <2>4 DEF Account
    <2> QED
      BY <1>4, <2>3, <2>5, AccountsKept
  <1>7. ASSUME NEW kind \in {"transient", "permanent", "invalid"},
               HandlerFails(c, kind)
        PROVE  Told'
    <2> DEFINE events == IF kind = "invalid" THEN <<Happened(c, "invalid")>>
                                             ELSE <<>>
    <2>1. /\ pc[c] \in {"handler", "applied"}
          /\ AttemptFails(c, events, kind = "transient")
      BY <1>7 DEF HandlerFails
    <2>2. log[c] \o events \in Seq(Event) /\ Tells(log[c] \o events, n, n - 1)
      <3>1. CASE kind = "invalid"
        <4> DEFINE e == Happened(c, "invalid")
        <4>1. e \in Event /\ e.type = "invalid"
          BY <1>3, EventFacts DEF Happened
        <4>2. events = <<e>>
          BY <3>1
        <4> HIDE DEF e
        <4>3. n - 1 \in Nat
          BY <1>1, <1>5, <2>1
        <4>4. Append(t, e) \in Seq(Event) /\ Tells(Append(t, e), n, n - 1)
          BY <1>1, <1>5, <2>1, <4>1, <4>3, OtherTold, Appended
        <4> QED
          BY <1>1, <4>1, <4>2, <4>4, OneEvent DEF t
      <3>2. CASE kind # "invalid"
        <4>1. events = <<>>
          BY <3>2
        <4>2. t \o <<>> = t
          BY <1>1, ConcatEmptySeq
        <4> QED
          BY <1>1, <1>5, <2>1, <4>1, <4>2 DEF t
      <3> QED
        BY <3>1, <3>2
    <2>3. (kind = "transient") \in BOOLEAN
      OBVIOUS
    <2> HIDE DEF events
    <2> QED
      BY <1>1, <1>2, <1>4, <1>5, <2>1, <2>2, <2>3, FailureTold
  <1>8. CASE Cancel(c)
    <2>1. /\ last' = [last EXCEPT ![c] = last[c]]
          /\ pc' = [pc EXCEPT ![c] = "raised"]
      BY <1>1, <1>8 DEF Cancel, Goto
    <2>2. ASSUME NEW e \in Event, Tells(Append(t, e), n, n),
                 log' = [log EXCEPT ![c] = Append(t, e)]
          PROVE  Told'
      <3>1. Account(Append(t, e), n, "raised", last[c], answer[c])
        BY <2>2 DEF Account
      <3> QED
        BY <1>4, <2>1, <2>2, <3>1, AccountsKept
    <2>3. CASE pc[c] = "backoff"
      <3> DEFINE e == Happened(c, "retry_cancelled")
      <3>1. e \in Event /\ e.type = "retry_cancelled"
        BY <1>3, EventFacts DEF Happened
      <3>2. log' = [log EXCEPT ![c] = Append(t, e)]
        BY <1>8, <2>3 DEF Cancel, t
      <3>3. Tells(t, n, n)
        BY <1>1, <2>3 DEF Account
      <3> HIDE DEF e
      <3> QED
        BY <1>1, <2>2, <3>1, <3>2, <3>3, OtherTold
    <2>4. CASE pc[c] \in {"handler", "applied"}
      <3> DEFINE e == Happened(c, "cancelled")
      <3>1. e \in Event /\ e.type = "cancelled" /\ e.attempt = n
        BY <1>3, EventFacts DEF Happened
      <3>2. log' = [log EXCEPT ![c] = Append(t, e)]
        BY <1>8, <2>4 DEF Cancel, t
      <3> HIDE DEF e
      <3> QED
        BY <1>1, <1>5, <2>2, <2>4, <3>1, <3>2, EndTold
    <2> QED
      BY <1>8, <2>3, <2>4 DEF Cancel
  <1> QED
    BY <1>6, <1>7, <1>8

\* Nothing has happened yet, or all of it is forgotten.
LEMMA NothingTold ==
  ASSUME NEW place \in {"idle", "claim", "attempt", "done", "crashed"}, NEW outcome, NEW a
  PROVE  Account(<<>>, 0, place, outcome, a)
  <1> DEFINE t == <<>>
  <1>1. DOMAIN t = {}
    OBVIOUS
  <1> HIDE DEF t
  <1>2. Starts(t) = {} /\ Ends(t) = {} /\ LastEnds(t, 0) = {} /\ 1..0 = {}
    BY <1>1 DEF Starts, Ends, LastEnds
  <1>3. Tells(t, 0, 0)
    BY <1>2 DEF Tells, Counts
  <1> QED
    BY <1>2, <1>3 DEF Account, t

\* A call goes on without an event.
LEMMA QuietTold ==
  ASSUME Shapes, Limits, Told, NEW c \in Callers, NEW place, NEW a,
         UNCHANGED <<log, attempt, last>>,
         pc' = [pc EXCEPT ![c] = place],
         answer' = [answer EXCEPT ![c] = a],
         Account(log[c], attempt[c], place, last[c], a)
  PROVE  Told'
  <1>1. /\ log' = [log EXCEPT ![c] = log[c]]
        /\ attempt' = [attempt EXCEPT ![c] = attempt[c]]
        /\ last' = [last EXCEPT ![c] = last[c]]
    BY Begins
  <1> QED
    BY <1>1, AccountsKept

LEMMA CallTold ==
  ASSUME Shapes, Limits, Told, NEW c \in Callers,
         \/ \E k \in Keys \cup {NoKey}, q \in Requests : Call(c, k, q)
         \/ ClaimKey(c)
  PROVE  Told'
  <1>1. pc[c] \in {"idle", "claim"} /\ UNCHANGED <<log, attempt, last>>
    BY DEF Call, ClaimKey
  <1>2. attempt[c] = 0 /\ Tells(log[c], 0, 0)
    BY <1>1, Begins DEF Account
  <1>3. LastEnds(log[c], 0) = {}
    <2>1. \A i \in Ends(log[c]) : log[c][i].attempt \in 1..0
      BY <1>2 DEF Tells, Counts
    <2>2. 0 \notin 1..0
      OBVIOUS
    <2> QED
      BY <2>1, <2>2 DEF LastEnds
  <1>4. ASSUME NEW a, Finishing(c, a), a.attempts = 0
        PROVE  Told'
    <2>1. /\ pc' = [pc EXCEPT ![c] = "reply"]
          /\ answer' = [answer EXCEPT ![c] = a]
      BY <1>4 DEF Finishing, Goto
    <2>2. ~(a.attempts > 0)
      BY <1>4
    <2>3. Account(log[c], attempt[c], "reply", last[c], a)
      BY <1>2, <1>3, <2>2 DEF Account
    <2> QED
      BY <1>1, <2>1, <2>3, QuietTold
  <1>5. ASSUME NEW place \in {"claim", "attempt"}, Goto(c, place),
               answer' = answer
        PROVE  Told'
    <2>1. Account(log[c], attempt[c], place, last[c], answer[c])
      BY <1>2, <1>3 DEF Account
    <2>2. answer' = [answer EXCEPT ![c] = answer[c]]
      BY <1>5, Begins
    <2>3. pc' = [pc EXCEPT ![c] = place]
      BY <1>5 DEF Goto
    <2> QED
      BY <1>1, <2>1, <2>2, <2>3, QuietTold
  <1>6. \A code : Failing(code, 0).attempts = 0
    BY DEF Failing, NoAnswer
  <1>7. ASSUME NEW k \in Keys \cup {NoKey}, NEW q \in Requests, Call(c, k, q)
        PROVE  Told'
    <2>1. \/ Finishing(c, Failing("preflight_failed", 0))
          \/ /\ Goto(c, IF k = NoKey THEN "attempt" ELSE "claim")
             /\ answer' = answer
      BY <1>7 DEF Call
    <2>2. CASE Finishing(c, Failing("preflight_failed", 0))
      BY <1>4, <1>6, <2>2
    <2>3. CASE /\ Goto(c, IF k = NoKey THEN "attempt" ELSE "claim")
               /\ answer' = answer
      BY <1>5, <2>3
    <2> QED
      BY <2>1, <2>2, <2>3
  <1>8. CASE ClaimKey(c)
    <2>1. \/ Goto(c, "attempt") /\ answer' = answer
          \/ \E a \in Refusals(c) : Finishing(c, a)
      BY <1>8 DEF ClaimKey
    <2>2. ASSUME NEW a \in Refusals(c) PROVE a.attempts = 0
      <3>1. \/ \E code : a = Failing(code, 0)
            \/ a = [NoAnswer EXCEPT !.status = "succeeded", !.cached = TRUE,
                                    !.by = claims[Key(c)].owner]
        BY <2>2 DEF Refusals
      <3> QED
        BY <1>6, <3>1 DEF NoAnswer
    <2>3. CASE Goto(c, "attempt") /\ answer' = answer
      BY <1>5, <2>3
    <2>4. ASSUME NEW a \in Refusals(c), Finishing(c, a) PROVE Told'
      BY <1>4, <2>2, <2>4
    <2> QED
      BY <2>1, <2>3, <2>4
  <1> QED
    BY <1>7, <1>8

\* The answer reports the attempts the trace has.
LEMMA PersistTold ==
  ASSUME Shapes, Limits, Told, NEW c \in Callers, NEW storable \in BOOLEAN,
         Persist(c, storable)
  PROVE  Told'
  <1>1. pc[c] = "persist" /\ UNCHANGED <<log, attempt, last>>
    BY DEF Persist
  <1>2. /\ Tells(log[c], attempt[c], attempt[c])
        /\ \A i \in LastEnds(log[c], attempt[c]) :
             /\ ~log[c][i].retry
             /\ last[c] = "ok" => log[c][i].type = "succeeded"
    BY <1>1, Begins DEF Account
  <1>3. ASSUME NEW a, Finishing(c, a), a.attempts = attempt[c],
               a.status = "succeeded" => last[c] = "ok"
        PROVE  Told'
    <2>1. /\ pc' = [pc EXCEPT ![c] = "reply"]
          /\ answer' = [answer EXCEPT ![c] = a]
      BY <1>3 DEF Finishing, Goto
    <2>2. Account(log[c], attempt[c], "reply", last[c], a)
      BY <1>2, <1>3 DEF Account
    <2> QED
      BY <1>1, <2>1, <2>2, QuietTold
  <1>4. \A code, n : /\ Failing(code, n).attempts = n
                     /\ Failing(code, n).status = "failed"
    BY DEF Failing, NoAnswer
  <1>5. CASE last[c] = "ok"
    <2>1. Finishing(c, AfterSuccess(c, storable))
      BY <1>5 DEF Persist
    <2>2. AfterSuccess(c, storable).attempts = attempt[c]
      BY <1>4 DEF AfterSuccess, NoAnswer
    <2> HIDE DEF AfterSuccess
    <2> QED
      BY <1>3, <1>5, <2>1, <2>2
  <1>6. CASE last[c] # "ok" /\ pc'[c] = "reply"
    <2>1. Finishing(c, Failing("tool_execution_failed", attempt[c]))
      BY <1>6 DEF Persist, Goto, Shapes
    <2> QED
      BY <1>3, <1>4, <2>1
  <1>7. CASE last[c] # "ok" /\ pc'[c] # "reply"
    <2>1. pc' = [pc EXCEPT ![c] = "raised"] /\ answer' = answer
      BY <1>7 DEF Persist, Finishing, Goto, Shapes
    <2>2. Account(log[c], attempt[c], "raised", last[c], answer[c])
      BY <1>2 DEF Account
    <2>3. answer' = [answer EXCEPT ![c] = answer[c]]
      BY <2>1, Begins
    <2>4. pc' = [pc EXCEPT ![c] = "raised"]
      BY <2>1
    <2> QED
      BY <1>1, <2>2, <2>3, <2>4, QuietTold
  <1> QED
    BY <1>5, <1>6, <1>7

LEMMA OthersTold ==
  ASSUME Shapes, Limits, Told, NEW c \in Callers,
         HandlerApplies(c) \/ Backoff(c) \/ Return(c) \/ Crash(c)
  PROVE  Told'
  <1>1. answer = [answer EXCEPT ![c] = answer[c]]
    BY Begins
  <1>2. CASE HandlerApplies(c)
    <2>1. Account(log[c], attempt[c], "applied", last[c], answer[c])
      BY <1>2, Begins DEF HandlerApplies, Account
    <2>2. /\ UNCHANGED <<log, attempt, last>>
          /\ pc' = [pc EXCEPT ![c] = "applied"]
          /\ answer' = [answer EXCEPT ![c] = answer[c]]
      BY <1>1, <1>2 DEF HandlerApplies, Goto
    <2> QED
      BY <2>1, <2>2, QuietTold
  <1>3. CASE Backoff(c)
    <2>1. Account(log[c], attempt[c], "attempt", last[c], answer[c])
      BY <1>3, Begins DEF Backoff, Account
    <2>2. /\ UNCHANGED <<log, attempt, last>>
          /\ pc' = [pc EXCEPT ![c] = "attempt"]
          /\ answer' = [answer EXCEPT ![c] = answer[c]]
      BY <1>1, <1>3 DEF Backoff, Goto
    <2> QED
      BY <2>1, <2>2, QuietTold
  <1>4. CASE Return(c) \/ Crash(c)
    <2>1. /\ log' = [log EXCEPT ![c] = <<>>]
          /\ attempt' = [attempt EXCEPT ![c] = 0]
          /\ last' = [last EXCEPT ![c] = "none"]
      BY <1>4 DEF Return, Crash, Forget
    <2>2. ASSUME NEW place \in {"done", "crashed"}, NEW a,
                 pc' = [pc EXCEPT ![c] = place],
                 answer' = [answer EXCEPT ![c] = a]
          PROVE  Told'
      <3>1. Account(<<>>, 0, place, "none", a)
        BY NothingTold
      <3> QED
        BY <2>1, <2>2, <3>1, AccountsKept
    <2>3. CASE Return(c)
      <3>1. pc' = [pc EXCEPT ![c] = "done"] /\ answer' = [answer EXCEPT ![c] = answer[c]]
        BY <1>1, <2>3 DEF Return, Goto
      <3> QED
        BY <2>2, <3>1
    <2>4. CASE Crash(c)
      <3>1. pc' = [pc EXCEPT ![c] = "crashed"] /\ answer' = [answer EXCEPT ![c] = NoAnswer]
        BY <2>4 DEF Crash, Goto
      <3> QED
        BY <2>2, <3>1
    <2> QED
      BY <1>4, <2>3, <2>4
  <1> QED
    BY <1>2, <1>3, <1>4

LEMMA ToldInit == Init => Told
  <1> SUFFICES ASSUME Init PROVE Told
    OBVIOUS
  <1>1. ASSUME NEW c \in Callers
        PROVE  /\ log[c] = <<>> /\ attempt[c] = 0 /\ pc[c] = "idle"
    BY DEF Init
  <1> QED
    BY <1>1, NothingTold DEF Told

LEMMA ToldStep == Told /\ Limits /\ Shapes /\ [Next]_vars => Told'
  <1> SUFFICES ASSUME Told, Limits, Shapes, [Next]_vars PROVE Told'
    OBVIOUS
  <1>1. ASSUME NEW c \in Callers, Advance(c) PROVE Told'
    BY <1>1, CallTold, StartAttemptTold, HandlerTold, PersistTold, OthersTold
    DEF Advance
  <1>2. CASE \/ \E k \in Keys : Expire(k)
             \/ UNCHANGED vars
    <2>1. UNCHANGED <<log, attempt, pc, last, answer>>
      BY <1>2 DEF Expire, vars, callVars
    <2> QED
      BY <2>1 DEF Told
  <1>3. ASSUME NEW c \in Callers, Cancel(c) \/ Crash(c) PROVE Told'
    BY <1>3, HandlerTold, OthersTold
  <1>4. ASSUME NEW c \in Callers, NEW k \in Keys \cup {NoKey},
               NEW q \in Requests, Call(c, k, q)
        PROVE  Told'
    BY <1>4, CallTold
  <1> QED
    BY <1>1, <1>2, <1>3, <1>4 DEF Next, Quiescent

\* Fragile runs do not make a second attempt.
Within == \A c \in Callers : attempt[c] <= AttemptLimit

LEMMA WithinStep == Within /\ Limits /\ Shapes /\ [Next]_vars => Within'
  <1> SUFFICES ASSUME Within, Limits, Shapes, [Next]_vars PROVE Within'
    OBVIOUS
  <1>1. AttemptLimit' = AttemptLimit /\ AttemptLimit \in Nat
    <2>1. mode' = mode
      BY DEF Next, Advance, Call, ClaimKey, StartAttempt, HandlerApplies,
             HandlerReturns, HandlerFails, Persist, Backoff, Return, Cancel,
             Crash, Expire, Quiescent, vars, runVars
    <2> QED
      BY <2>1, LimitFacts DEF AttemptLimit
  <1>2. attempt \in [Callers -> Nat]
    BY DEF Shapes
  <1>3. \/ attempt' = attempt
        \/ \E c \in Callers : attempt' = [attempt EXCEPT ![c] = 0]
        \/ \E c \in Callers :
             pc[c] = "attempt" /\ attempt' = [attempt EXCEPT ![c] = @ + 1]
    BY DEF Next, Advance, Call, ClaimKey, StartAttempt, HandlerApplies,
           HandlerReturns, HandlerFails, Persist, Backoff, Return, Cancel,
           Crash, Expire, Quiescent, vars, callVars, Forget
  <1> HIDE DEF AttemptLimit
  <1>4. ASSUME NEW c \in Callers, NEW d \in Callers,
               attempt' = [attempt EXCEPT ![c] = 0]
        PROVE  attempt'[d] <= AttemptLimit
    BY <1>1, <1>2, <1>4 DEF Within
  <1>5. ASSUME NEW c \in Callers, NEW d \in Callers, pc[c] = "attempt",
               attempt' = [attempt EXCEPT ![c] = @ + 1]
        PROVE  attempt'[d] <= AttemptLimit
    <2>1. attempt[c] < AttemptLimit
      BY <1>5 DEF Limits, Unspent
    <2> QED
      BY <1>1, <1>2, <1>5, <2>1 DEF Within
  <1> QED
    BY <1>1, <1>3, <1>4, <1>5 DEF Within

LEMMA WithinInit == Init => Within
  <1> SUFFICES ASSUME Init, NEW c \in Callers PROVE attempt[c] <= AttemptLimit
    BY DEF Within
  <1>1. attempt[c] = 0
    BY DEF Init
  <1>2. AttemptLimit \in Nat
    BY GatewayAssumption DEF AttemptLimit
  <1> QED
    BY <1>1, <1>2

\* For every number of calls, every fault plan and limit on attempts, and
\* whatever is retried, cancelled, crashed or taken over: the trace of a call
\* explains the number of attempts and the outcome that it answers.
THEOREM TraceExplainsAnswer == Spec => []TraceTellsAnswer
  <1>1. IInv => Shapes
    BY DEF IInv
  <1>2. Shapes /\ Limits /\ Within /\ Told => TraceTellsAnswer
    <2> SUFFICES ASSUME Shapes, Limits, Within, Told, NEW c \in Callers
                 PROVE  \E n \in 0..AttemptLimit, m \in 0..AttemptLimit :
                   /\ m \in {n - 1, n}
                   /\ Tells(log[c], n, m)
                   /\ pc[c] = "reply" /\ answer[c].attempts > 0 =>
                        /\ answer[c].attempts = n /\ m = n
                        /\ \A i \in Ends(log[c]) : log[c][i].attempt = n =>
                             /\ ~log[c][i].retry
                             /\ answer[c].status = "succeeded" =>
                                  log[c][i].type = "succeeded"
      BY DEF TraceTellsAnswer
    <2> DEFINE n == attempt[c]
               m == IF pc[c] \in {"handler", "applied"} THEN n - 1 ELSE n
    <2>1. Account(log[c], n, pc[c], last[c], answer[c])
      BY Begins
    <2>2. n \in 0..AttemptLimit
      <3>1. n \in Nat /\ n <= AttemptLimit
        BY Begins DEF Within
      <3>2. AttemptLimit \in Nat
        BY LimitFacts, GatewayAssumption
      <3> QED
        BY <3>1, <3>2
    <2>3. m \in {n - 1, n} /\ m \in 0..AttemptLimit
      <3>1. AttemptLimit \in Nat
        BY LimitFacts, GatewayAssumption
      <3>2. pc[c] \in {"handler", "applied"} => n > 0
        BY <2>1 DEF Account
      <3> HIDE DEF n, AttemptLimit
      <3> QED
        BY <2>2, <3>1, <3>2
    <2>4. Tells(log[c], n, m)
      BY <2>1 DEF Account
    <2>5. pc[c] = "reply" /\ answer[c].attempts > 0 =>
            /\ answer[c].attempts = n /\ m = n
            /\ \A i \in Ends(log[c]) : log[c][i].attempt = n =>
                 /\ ~log[c][i].retry
                 /\ answer[c].status = "succeeded" =>
                      log[c][i].type = "succeeded"
      BY <2>1 DEF Account, LastEnds
    <2> HIDE DEF n, m
    <2> QED
      BY <2>2, <2>3, <2>4, <2>5
  <1> QED
    BY <1>1, <1>2, LimitsInit, LimitsStep, ToldInit, ToldStep, WithinInit,
       WithinStep, Invariance, PTL
    DEF Spec

=============================================================================
