------------------------- MODULE CopilotClient_proofs -------------------------
(***************************************************************************)
(* Proofs about CopilotClient: its types, when it asks again               *)
(* (RetriesJustified) and what it answers for an error (StatusTellsWhose,  *)
(* ErrorKeepsItsMeaning), for any statuses, bodies and number of retries;  *)
(* and about the stream parser it drives: what it yields does not depend   *)
(* on where the network cuts the body (CutIndependent), for any bodies.    *)
(***************************************************************************)
EXTENDS CopilotClient, FiniteSetTheorems, WellFoundedInduction, TLAPS

Retrying == {"backoff", "send", "await"}

\* How many attempts there have been, and how they ended, at each place.
AttemptInv ==
    /\ Len(answers) <= attempt + 1
    /\ pc \in Retrying => Len(answers) = attempt
    /\ pc \in {"read", "streaming"} => Len(answers) = attempt + 1 /\ IsSuccess(Latest)
    /\ pc = "done" => Len(answers) = attempt + 1
    /\ served <= Len(answers)
    /\ pc \in Retrying => served <= Cardinality(Lost)

Inv ==
    TypeOK /\ AttemptInv /\ RetriesJustified /\ StatusTellsWhose /\ ErrorKeepsItsMeaning

-----------------------------------------------------------------------------
(***************************************************************************)
(* The end of an attempt.                                                  *)
(***************************************************************************)
LEMMA LatestAppended ==
  ASSUME answers \in Seq(Answers), NEW a \in Answers, answers' = Append(answers, a)
  PROVE  /\ answers' \in Seq(Answers) /\ Len(answers') = Len(answers) + 1
         /\ answers' # <<>> /\ Latest' = a
         /\ \A i \in 1 .. Len(answers) : answers'[i] = answers[i]
         /\ answers'[Len(answers) + 1] = a
  BY DEF Latest, Last

LEMMA LostAppended ==
  ASSUME answers \in Seq(Answers), NEW a \in Answers, answers' = Append(answers, a)
  PROVE  /\ Cardinality(Lost) \in Nat /\ Cardinality(Lost') \in Nat
         /\ Cardinality(Lost) <= Cardinality(Lost')
         /\ Transient(a) /\ a.net # "connect" =>
               Cardinality(Lost') = Cardinality(Lost) + 1
<1>1. Lost \subseteq 1 .. Len(answers) /\ IsFiniteSet(1 .. Len(answers))
  BY FS_Interval DEF Lost
<1>2. IsFiniteSet(Lost) /\ Cardinality(Lost) \in Nat
  BY <1>1, FS_Subset, FS_CardinalityType
<1>3. Len(answers) + 1 \notin Lost
  BY <1>1
<1>4. Lost' = Lost \cup (IF Transient(a) /\ a.net # "connect"
                         THEN {Len(answers) + 1} ELSE {})
  <2>1. Lost' = {i \in 1 .. Len(answers) + 1 :
                   Transient(answers'[i]) /\ answers'[i].net # "connect"}
    BY LatestAppended DEF Lost
  <2> QED
    BY <2>1, LatestAppended DEF Lost
<1>5. CASE Transient(a) /\ a.net # "connect"
  <2>1. Lost' = Lost \cup {Len(answers) + 1}
    BY <1>4, <1>5
  <2>2. Cardinality(Lost') = Cardinality(Lost) + 1
    BY <1>2, <1>3, <2>1, FS_AddElement
  <2> QED
    BY <1>2, <2>2
<1>6. CASE ~(Transient(a) /\ a.net # "connect")
  <2>1. Lost' = Lost
    BY <1>4, <1>6
  <2> QED
    BY <1>2, <1>6, <2>1
<1> QED
  BY <1>5, <1>6
\* An attempt that ends with a keeps what is said about attempts, if it is
\* repeated (a failure that may pass), or has failed or succeeded for good.
LEMMA AttemptKeeps ==
  ASSUME TypeOK, AttemptInv, RetriesJustified, NEW a \in Answers, NEW worked \in BOOLEAN,
         AttemptEnds(a, worked), worked => a.net # "connect",
         \/ Retries(a) /\ pc' = "backoff" /\ attempt' = attempt + 1
         \/ pc' = "done" /\ attempt' = attempt
         \/ pc' \in {"read", "streaming"} /\ attempt' = attempt /\ IsSuccess(a)
  PROVE  /\ AttemptInv' /\ RetriesJustified'
         /\ answers' \in Seq(Answers) /\ Len(answers') <= MaxRetries + 1
         /\ served' \in 0 .. MaxRetries + 1
         /\ attempt' \in 0 .. MaxRetries
         /\ Latest' = a /\ answers' # <<>>
<1> USE ClientAssumption
<1>1. /\ pc = "await" /\ answers' = Append(answers, a)
      /\ served' = served + (IF worked THEN 1 ELSE 0)
  BY DEF AttemptEnds
<1>2. /\ Len(answers) = attempt /\ served <= Len(answers) /\ served \in Nat
      /\ served <= Cardinality(Lost) /\ attempt \in 0 .. MaxRetries
      /\ answers \in Seq(Answers)
  BY <1>1 DEF AttemptInv, TypeOK, Retrying
<1>3. /\ answers' \in Seq(Answers) /\ Len(answers') = attempt + 1
      /\ answers' # <<>> /\ Latest' = a
      /\ \A i \in 1 .. Len(answers) : answers'[i] = answers[i]
  BY <1>1, <1>2, LatestAppended
<1>4. /\ Cardinality(Lost) \in Nat /\ Cardinality(Lost') \in Nat
      /\ Cardinality(Lost) <= Cardinality(Lost')
      /\ Transient(a) /\ a.net # "connect" =>
            Cardinality(Lost') = Cardinality(Lost) + 1
  BY <1>1, <1>2, LostAppended
<1>5. attempt' \in 0 .. MaxRetries /\ (pc' = "backoff" => Transient(a))
  BY <1>2 DEF Retries
<1>6. served' <= 1 + Cardinality(Lost')
  BY <1>1, <1>2, <1>4
<1>7. pc' = "backoff" => served' <= Cardinality(Lost')
  <2>1. CASE worked
    BY <1>1, <1>2, <1>4, <1>5, <2>1
  <2>2. CASE ~worked
    BY <1>1, <1>2, <1>4, <2>2
  <2> QED BY <2>1, <2>2
<1>8. served' <= Len(answers') /\ served' \in Nat
  BY <1>1, <1>2, <1>3
<1>9. \A i \in 1 .. Len(answers') - 1 : Transient(answers'[i])
  <2> TAKE i \in 1 .. Len(answers') - 1
  <2>1. i \in 1 .. Len(answers) /\ answers'[i] = answers[i]
    BY <1>2, <1>3
  <2>2. CASE i = Len(answers)
    BY <1>1, <2>1, <2>2 DEF RetriesJustified, Latest, Last
  <2>3. CASE i # Len(answers)
    BY <1>2, <2>1, <2>3 DEF RetriesJustified
  <2> QED BY <2>2, <2>3
<1>10. AttemptInv'
  <2>1. pc' \in {"read", "streaming"} => IsSuccess(Latest')
    BY <1>3
  <2>2. IsSuccess(Latest') <=> IsSuccess(Latest)'
    BY DEF IsSuccess, Success
  <2> QED
    BY <1>2, <1>3, <1>6, <1>7, <1>8, <2>1, <2>2 DEF AttemptInv, Retrying
<1>11. RetriesJustified'
  <2>1. pc' \in {"backoff", "send", "await"} => Transient(Latest')
    BY <1>3, <1>5
  <2>2. Transient(Latest') <=> Transient(Latest)'
    BY DEF Transient, ServerError
  <2>3. Len(answers') <= MaxRetries + 1
    BY <1>2, <1>3
  <2> QED
    BY <1>6, <1>9, <2>1, <2>2, <2>3 DEF RetriesJustified, Transient, ServerError
<1> QED
  BY <1>2, <1>3, <1>5, <1>8, <1>10, <1>11
-----------------------------------------------------------------------------
(***************************************************************************)
(* The answer for an error.                                                *)
(***************************************************************************)
\* What StatusTellsWhose and ErrorKeepsItsMeaning say of result e after a.
Fits(e, a) ==
    /\ IsSuccess(a) => ResponseStatus(e) \in {200, 500}
    /\ a.net # "no" => ResponseStatus(e) = 502
    /\ a.net = "no" /\ ClientError(a.status) => ResponseStatus(e) = a.status
    /\ a.net = "no" /\ ~ClientError(a.status) /\ ~IsSuccess(a) =>
          ResponseStatus(e) = 502
    /\ a.net = "no" /\ a.status = 429 =>
          /\ e.err = "RateLimited"
          /\ e.after = IF a.after = None THEN 60 ELSE a.after
    /\ a.net = "no" /\ a.status = 400 /\ a.shape.phrase /\ a.shape.fits =>
          e.err = "PromptTooLong"

LEMMA FitsSuffices ==
  ASSUME pc' = "done" => answers' # <<>> /\ Fits(result', Latest')
  PROVE  StatusTellsWhose' /\ ErrorKeepsItsMeaning'
  BY DEF StatusTellsWhose, ErrorKeepsItsMeaning, Fits, IsSuccess, Success,
         ClientError, ResponseStatus

LEMMA NetworkErrorFits ==
  ASSUME NEW kind \in NetworkFailures
  PROVE  LET a == Answer(kind, 0, NoBody, None)
             e == Error("CopilotError", 502, None)
         IN  a \in Answers /\ e \in Errors /\ Fits(e, a)
  BY DEF Answer, Error, Answers, Errors, BodyShapes, NoBody, NetworkFailures, Fits,
         IsSuccess, ResponseStatus

LEMMA ErrorStatusFits ==
  ASSUME NEW a \in Answers, a.net = "no", ~Success(a.status)
  PROVE  HandleErrorResponse(a) \in Errors /\ Fits(HandleErrorResponse(a), a)
<1> USE ClientAssumption DEF Fits, IsSuccess, Success, ClientError, Error, Errors, Answers
<1>1. CASE a.status = 429
  BY <1>1 DEF HandleErrorResponse, ResponseStatus
<1>2. CASE TooLong(a)
  BY <1>2 DEF HandleErrorResponse, ResponseStatus, TooLong
<1>3. CASE a.status # 429 /\ ~TooLong(a) /\ ClientError(a.status)
  BY <1>3 DEF HandleErrorResponse, ResponseStatus, TooLong, ParsePromptTooLongRegex
<1>4. CASE a.status # 429 /\ ~TooLong(a) /\ ~ClientError(a.status)
  BY <1>4 DEF HandleErrorResponse, ResponseStatus
<1> QED BY <1>1, <1>2, <1>3, <1>4

LEMMA SuccessFits ==
  ASSUME NEW a, IsSuccess(a),
         NEW e \in {NoError, Error("Internal", 500, None)}
  PROVE  e \in Errors /\ Fits(e, a)
  BY DEF Fits, IsSuccess, Success, ClientError, NoError, Error, Errors, ResponseStatus
-----------------------------------------------------------------------------
(***************************************************************************)
(* The steps.                                                              *)
(***************************************************************************)
LEMMA Initially == Init => Inv
<1> SUFFICES ASSUME Init PROVE Inv
  OBVIOUS
<1> USE ClientAssumption, BodiesAssumption DEF Init, SseInit
<1>1. Lost = {} /\ Cardinality(Lost) = 0
  BY FS_EmptySet DEF Lost
<1>2. TypeOK
  BY DEF TypeOK, NoError, Errors
<1>3. AttemptInv
  BY <1>1 DEF AttemptInv, Retrying
<1>4. RetriesJustified
  BY <1>1 DEF RetriesJustified
<1> QED
  BY <1>2, <1>3, <1>4 DEF Inv, StatusTellsWhose, ErrorKeepsItsMeaning

LEMMA NetworkFailsKeeps ==
  ASSUME Inv, NEW kind \in NetworkFailures, NEW worked \in BOOLEAN,
         NetworkFails(kind, worked)
  PROVE  Inv'
<1> DEFINE a == Answer(kind, 0, NoBody, None)
           e == Error("CopilotError", 502, None)
<1>1. a \in Answers /\ e \in Errors /\ Fits(e, a) /\ a.net = kind
  BY NetworkErrorFits DEF Answer
<1>2. AttemptEnds(a, worked) /\ (worked => a.net # "connect")
  BY <1>1 DEF NetworkFails
<1>3. \/ Retries(a) /\ pc' = "backoff" /\ attempt' = attempt + 1 /\ UNCHANGED result
      \/ pc' = "done" /\ attempt' = attempt /\ result' = e
  BY DEF NetworkFails, Return
<1> HIDE DEF a, e
<1>4. /\ AttemptInv' /\ RetriesJustified'
      /\ answers' \in Seq(Answers) /\ Len(answers') <= MaxRetries + 1
      /\ served' \in 0 .. MaxRetries + 1
      /\ attempt' \in 0 .. MaxRetries
      /\ Latest' = a /\ answers' # <<>>
  BY <1>1, <1>2, <1>3, AttemptKeeps DEF Inv
<1>5. TypeOK'
  BY <1>1, <1>2, <1>3, <1>4 DEF TypeOK, Inv, AttemptEnds, sseVars
<1>6. StatusTellsWhose' /\ ErrorKeepsItsMeaning'
  BY <1>1, <1>3, <1>4, FitsSuffices
<1> QED
  BY <1>4, <1>5, <1>6 DEF Inv

LEMMA ErrorStatusKeeps ==
  ASSUME Inv, NEW status \in Statuses, NEW shape \in ErrorBodies \cup {NoBody},
         NEW after \in RetryAfter \cup {None}, NEW worked \in BOOLEAN,
         ErrorStatus(status, shape, after, worked)
  PROVE  Inv'
<1> USE ClientAssumption
<1> DEFINE a == Answer("no", status, shape, after)
           e == HandleErrorResponse(a)
<1>1. a \in Answers /\ a.net = "no" /\ ~Success(a.status)
  <2>1. shape \in BodyShapes
    <3>1. NoBody \in BodyShapes
      BY DEF NoBody, BodyShapes
    <3> QED
      BY <3>1
  <2>2. ~Success(status)
    BY DEF ErrorStatus
  <2> QED
    BY <2>1, <2>2 DEF Answer, Answers
<1>2. e \in Errors /\ Fits(e, a)
  BY <1>1, ErrorStatusFits
<1>3. AttemptEnds(a, worked) /\ (worked => a.net # "connect")
  BY <1>1 DEF ErrorStatus
<1>4. \/ Retries(a) /\ pc' = "backoff" /\ attempt' = attempt + 1 /\ UNCHANGED result
      \/ pc' = "done" /\ attempt' = attempt /\ result' = e
  BY DEF ErrorStatus, Return
<1> HIDE DEF a, e
<1>5. /\ AttemptInv' /\ RetriesJustified'
      /\ answers' \in Seq(Answers) /\ Len(answers') <= MaxRetries + 1
      /\ served' \in 0 .. MaxRetries + 1
      /\ attempt' \in 0 .. MaxRetries
      /\ Latest' = a /\ answers' # <<>>
  BY <1>1, <1>3, <1>4, AttemptKeeps DEF Inv
<1>6. TypeOK'
  BY <1>2, <1>3, <1>4, <1>5 DEF TypeOK, Inv, AttemptEnds, sseVars
<1>7. StatusTellsWhose' /\ ErrorKeepsItsMeaning'
  BY <1>2, <1>4, <1>5, FitsSuffices
<1> QED
  BY <1>5, <1>6, <1>7 DEF Inv

LEMMA SuccessStatusKeeps ==
  ASSUME Inv, SuccessStatus PROVE Inv'
<1> DEFINE a == Answer("no", 200, NoBody, None)
<1>1. a \in Answers /\ a.net = "no" /\ IsSuccess(a)
  BY DEF Answer, Answers, BodyShapes, NoBody, IsSuccess, Success
<1>2. AttemptEnds(a, TRUE) /\ a.net # "connect"
  BY <1>1 DEF SuccessStatus
<1>3. pc' \in {"read", "streaming"} /\ attempt' = attempt /\ UNCHANGED result
  BY DEF SuccessStatus
<1> HIDE DEF a
<1>4. /\ AttemptInv' /\ RetriesJustified'
      /\ answers' \in Seq(Answers) /\ Len(answers') <= MaxRetries + 1
      /\ served' \in 0 .. MaxRetries + 1
      /\ attempt' \in 0 .. MaxRetries
      /\ Latest' = a /\ answers' # <<>>
  BY <1>1, <1>2, <1>3, AttemptKeeps DEF Inv
<1>5. TypeOK'
  BY <1>2, <1>3, <1>4 DEF TypeOK, Inv, AttemptEnds, sseVars
<1>6. StatusTellsWhose' /\ ErrorKeepsItsMeaning'
  BY <1>3, FitsSuffices
<1> QED
  BY <1>4, <1>5, <1>6 DEF Inv

\* A step that leaves the attempts alone and does not return an error for
\* another one than a success keeps everything but the types.
LEMMA OtherKeeps ==
  ASSUME Inv, UNCHANGED <<attempt, answers, served>>,
         \/ pc \in Retrying /\ pc' \in Retrying
         \/ pc \notin {"done", "dropped"} /\ pc' = "dropped"
         \/ pc' = pc /\ UNCHANGED result
         \/ /\ pc \in {"read", "streaming"} /\ pc' = "done"
            /\ result' \in {NoError, Error("Internal", 500, None)}
  PROVE  AttemptInv' /\ RetriesJustified' /\ StatusTellsWhose' /\ ErrorKeepsItsMeaning'
<1>1. Latest' = Latest /\ Lost' = Lost
  BY DEF Latest, Lost, Last, Transient, ServerError
<1>2. IsSuccess(Latest') <=> IsSuccess(Latest)'
  BY DEF IsSuccess, Success
<1>3. AttemptInv'
  BY <1>1, <1>2 DEF Inv, AttemptInv, Retrying
<1>4. RetriesJustified'
  <2>1. RetriesJustified
    BY DEF Inv
  <2>2. Transient(Latest)' <=> Transient(Latest)
    BY <1>1 DEF Transient, ServerError
  <2>3. \A i \in 1 .. Len(answers') - 1 : Transient(answers'[i])
    BY <2>1 DEF RetriesJustified
  <2>4. pc' \in Retrying /\ answers' # <<>> => Transient(Latest')
    BY <1>1, <2>1, <2>2 DEF RetriesJustified, Retrying
  <2>5. served' <= 1 + Cardinality(Lost') /\ Len(answers') <= MaxRetries + 1
    BY <1>1, <2>1 DEF RetriesJustified
  <2> QED
    BY <2>3, <2>4, <2>5 DEF RetriesJustified, Retrying, Transient, ServerError
<1>5. StatusTellsWhose' /\ ErrorKeepsItsMeaning'
  <2>1. CASE pc' # "done"
    BY <2>1, FitsSuffices
  <2>2. CASE pc' = "done" /\ pc = "done" /\ UNCHANGED result
    <3>1. answers # <<>> /\ Fits(result, Latest)
      BY <2>2 DEF Inv, StatusTellsWhose, ErrorKeepsItsMeaning, Fits
    <3>2. answers' # <<>> /\ Fits(result', Latest')
      BY <1>1, <2>2, <3>1
    <3> QED
      BY <3>2, FitsSuffices
  <2>3. CASE /\ pc \in {"read", "streaming"} /\ pc' = "done"
             /\ result' \in {NoError, Error("Internal", 500, None)}
    <3>1. IsSuccess(Latest) /\ Len(answers) = attempt + 1
      BY <2>3 DEF Inv, AttemptInv
    <3>2. Fits(result', Latest')
      BY <1>1, <2>3, <3>1, SuccessFits
    <3>3. answers' # <<>>
      BY <3>1 DEF Inv, TypeOK
    <3> QED
      BY <3>2, <3>3, FitsSuffices
  <2> QED
    BY <2>1, <2>2, <2>3 DEF Retrying
<1> QED
  BY <1>3, <1>4, <1>5

LEMMA Elsewhere ==
  ASSUME Inv,
         \/ Backoff \/ Send \/ ReadBody \/ Stream \/ StreamBreaks \/ StreamDone
         \/ Drop \/ UNCHANGED vars
  PROVE  Inv'
<1>1. UNCHANGED <<attempt, answers, served, call>>
  BY DEF Backoff, Send, ReadBody, Stream, StreamBreaks, StreamDone, Drop, vars, callVars
<1>2. \/ pc \in Retrying /\ pc' \in Retrying
      \/ pc \notin {"done", "dropped"} /\ pc' = "dropped"
      \/ pc' = pc /\ UNCHANGED result
      \/ /\ pc \in {"read", "streaming"} /\ pc' = "done"
         /\ result' \in {NoError, Error("Internal", 500, None)}
  BY DEF Backoff, Send, ReadBody, Stream, StreamBreaks, StreamDone, Drop, vars, callVars,
         Return, Retrying
<1>3. AttemptInv' /\ RetriesJustified' /\ StatusTellsWhose' /\ ErrorKeepsItsMeaning'
  BY <1>1, <1>2, OtherKeeps
<1>4. pc' \in {"backoff", "send", "await", "read", "streaming", "done", "dropped"}
  BY <1>2 DEF Inv, TypeOK, Retrying
<1>5. result' \in Errors
  <2>1. result' = result \/ result' \in {NoError, Error("Internal", 500, None)}
    BY DEF Backoff, Send, ReadBody, Stream, StreamBreaks, StreamDone, Drop, vars, callVars,
           Return
  <2> QED
    BY <2>1 DEF Inv, TypeOK, NoError, Error, Errors
<1>6. /\ body' \in Seq(Units) /\ wire' \in Seq(Units)
      /\ phase' \in {"pull", "lines", "ended", "failed"}
  <2>1. CASE UNCHANGED sseVars
    BY <2>1 DEF Inv, TypeOK, sseVars
  <2>2. CASE SseStep \/ ReadFails
    <3>1. body' = body /\ phase' \in {"pull", "lines", "ended", "failed"}
      BY <2>2 DEF SseStep, Pull, CutFrame, ProcessLine, FrameDone, BodyEnds, ReadFails,
                  Inv, TypeOK
    <3>2. wire' = wire \/ \E n \in 1 .. Len(wire) : wire' = SubSeq(wire, n + 1, Len(wire))
      BY <2>2 DEF SseStep, Pull, CutFrame, ProcessLine, FrameDone, BodyEnds, ReadFails
    <3>3. wire' \in Seq(Units)
      <4>1. wire \in Seq(Units)
        BY DEF Inv, TypeOK
      <4>2. CASE wire' = wire
        BY <4>1, <4>2
      <4>3. CASE \E n \in 1 .. Len(wire) : wire' = SubSeq(wire, n + 1, Len(wire))
        <5>1. PICK n \in 1 .. Len(wire) : wire' = SubSeq(wire, n + 1, Len(wire))
          BY <4>3
        <5> QED
          BY <4>1, <5>1
      <4> QED
        BY <3>2, <4>2, <4>3
    <3> QED
      BY <3>1, <3>3 DEF Inv, TypeOK
  <2> QED
    BY <2>1, <2>2 DEF Backoff, Send, ReadBody, Stream, StreamBreaks, StreamDone, Drop, vars
<1>7. TypeOK'
  BY <1>1, <1>4, <1>5, <1>6 DEF Inv, TypeOK
<1> QED
  BY <1>3, <1>7 DEF Inv

LEMMA Invariance == Spec => []Inv
<1>1. Inv /\ [Next]_vars => Inv'
  <2> SUFFICES ASSUME Inv, [Next]_vars PROVE Inv'
    OBVIOUS
  <2>1. CASE \E kind \in NetworkFailures, worked \in BOOLEAN : NetworkFails(kind, worked)
    BY <2>1, NetworkFailsKeeps
  <2>2. CASE \E status \in Statuses, shape \in ErrorBodies \cup {NoBody},
               after \in RetryAfter \cup {None}, worked \in BOOLEAN :
               ErrorStatus(status, shape, after, worked)
    BY <2>2, ErrorStatusKeeps
  <2>3. CASE SuccessStatus
    BY <2>3, SuccessStatusKeeps
  <2>4. CASE \/ Backoff \/ Send \/ ReadBody \/ Stream \/ StreamBreaks \/ StreamDone
             \/ Drop \/ UNCHANGED vars
    BY <2>4, Elsewhere
  <2> QED
    BY <2>1, <2>2, <2>3, <2>4 DEF Next, Progress, AttemptDone, Finished
<1> QED
  BY Initially, <1>1, PTL DEF Spec
-----------------------------------------------------------------------------
(***************************************************************************)
(* The parser.  An invariant relates what is left of the body, the buffer  *)
(* and the frame to places of the body, and the chunks yielded to the data *)
(* lines in front of the place that has been reached.                      *)
(***************************************************************************)
\* What is in the buffer stands for a unit of the body.
Decoded == [k : UnitKinds \cup {"replacement"}, n : Nat]
Same(u, v) ==
    /\ u.n = v.n
    /\ u.k = v.k \/ (u.k = "replacement" /\ v.k \in {"hi", "lo"})
Stands(s, after) ==
    /\ after + Len(s) <= Len(body)
    /\ \A i \in 1 .. Len(s) : Same(s[i], body[after + i])

\* How much of the body has left the buffer, and has been processed.
Taken == Len(body) - Len(wire) - Len(buf)
Done == Taken - (IF phase = "lines" THEN Len(frame) + 2 ELSE 0)

Located ==
    /\ Done \in Nat
    /\ \A i \in 1 .. Len(wire) : wire[i] = body[Taken + Len(buf) + i]
    /\ Stands(buf, Taken)
    /\ phase = "lines" =>
         /\ Stands(frame, Done)
         /\ body[Done + Len(frame) + 1].k = "nl"
         /\ body[Done + Len(frame) + 2].k = "nl"
    /\ \A i \in 1 .. Done : ~Stops(i)
    /\ Len(yielded) = Cardinality(Upto(Done))

ParseInv ==
    /\ body \in Bodies /\ wire \in Seq(Units)
    /\ buf \in Seq(Decoded) /\ frame \in Seq(Decoded)
    /\ yielded \in Seq(Seq(Decoded))
    /\ CutIndependent
    /\ phase \in {"pull", "lines"} => Located

\* The order of the natural numbers is well-founded, so First is defined.
Below == {p \in Nat \X Nat : p[1] < p[2]}

LEMMA FirstIsLeast ==
  ASSUME NEW S \in SUBSET Nat, S # {}
  PROVE  First(S) \in S /\ \A i \in S : First(S) <= i
<1>1. IsWellFoundedOn(Below, Nat)
  <2>1. Below = OpToRel(<, Nat)
    BY Zenon DEF Below, OpToRel
  <2> QED
    BY <2>1, NatLessThanWellFounded, Zenon
<1>2. PICK x \in S : \A y \in S : ~(<<y, x>> \in Below)
  BY <1>1, WFMin, Zenon
<1>3. ASSUME NEW y \in S PROVE x <= y
  <2> DEFINE p == <<y, x>>
  <2>1. p \in Nat \X Nat /\ p[1] = y /\ p[2] = x
    OBVIOUS
  <2>2. p \notin Below
    BY <1>2
  <2> HIDE DEF p
  <2> QED
    BY <2>1, <2>2 DEF Below
<1> QED
  BY <1>3 DEF First

LEMMA BlankFound ==
  ASSUME NEW s \in Seq(Decoded), Blanks(s) # {}
  PROVE  LET f == First(Blanks(s))
         IN  f \in 1 .. Len(s) - 1 /\ s[f].k = "nl" /\ s[f + 1].k = "nl"
<1>1. Blanks(s) \in SUBSET Nat
  BY DEF Blanks
<1> DEFINE f == First(Blanks(s))
<1>2. f \in Blanks(s)
  BY <1>1, FirstIsLeast
<1> HIDE DEF f
<1>3. /\ f \in 1 .. Len(s) /\ f + 1 \in 1 .. Len(s)
      /\ s[f].k = "nl" /\ s[f + 1].k = "nl"
  BY <1>2 DEF Blanks, Is
<1>4. f \in 1 .. Len(s) - 1
  BY <1>3
<1> QED
  BY <1>3, <1>4 DEF f

LEMMA DecodeKeeps ==
  ASSUME NEW s \in Seq(Units)
  PROVE  /\ Decode(s) \in Seq(Decoded) /\ Len(Decode(s)) = Len(s)
         /\ \A i \in 1 .. Len(s) : Same(Decode(s)[i], s[i])
<1>1. ASSUME NEW i \in 1 .. Len(s)
      PROVE  Decode(s)[i] \in Decoded /\ Same(Decode(s)[i], s[i])
  <2>1. s[i] \in Units
    OBVIOUS
  <2>2. \/ Decode(s)[i] = s[i]
        \/ /\ s[i].k \in {"hi", "lo"}
           /\ Decode(s)[i] = [s[i] EXCEPT !.k = "replacement"]
    BY DEF Decode, Is
  <2> QED
    BY <2>1, <2>2 DEF Units, Decoded, Same
<1>2. Decode(s) \in [1 .. Len(s) -> Decoded]
  BY <1>1 DEF Decode
<1> QED
  BY <1>1, <1>2

\* The data lines up to a place.
LEMMA UptoFacts ==
  ASSUME body \in Seq(Units)
  PROVE  /\ IsFiniteSet(Expected) /\ Cardinality(Expected) \in Nat
         /\ Expected \subseteq 1 .. Len(body)
         /\ \A d : /\ IsFiniteSet(Upto(d)) /\ Cardinality(Upto(d)) \in Nat
                   /\ Cardinality(Upto(d)) <= Cardinality(Expected)
<1>1. Expected \subseteq 1 .. Len(body) /\ IsFiniteSet(1 .. Len(body))
  BY FS_Interval DEF Expected
<1>2. IsFiniteSet(Expected) /\ Cardinality(Expected) \in Nat
  BY <1>1, FS_Subset, FS_CardinalityType
<1>3. ASSUME NEW d
      PROVE  /\ IsFiniteSet(Upto(d)) /\ Cardinality(Upto(d)) \in Nat
             /\ Cardinality(Upto(d)) <= Cardinality(Expected)
  <2>1. Upto(d) \subseteq Expected
    BY DEF Upto
  <2> QED
    BY <1>2, <2>1, FS_Subset, FS_CardinalityType
<1> QED
  BY <1>1, <1>2, <1>3

LEMMA UptoSame ==
  ASSUME body \in Seq(Units), NEW d \in Nat, NEW e \in Nat, d <= e,
         \A i \in Expected : i <= e => i <= d
  PROVE  Upto(e) = Upto(d)
  BY UptoFacts DEF Upto

LEMMA UptoNext ==
  ASSUME body \in Seq(Units), NEW d \in Nat, NEW e \in Nat, d < e,
         d + 1 \in Expected,
         \A i \in Expected : i <= e => i <= d + 1
  PROVE  /\ Cardinality(Upto(e)) = Cardinality(Upto(d)) + 1
         /\ Rank(d + 1) = Cardinality(Upto(d)) + 1
         /\ \A i \in Expected : i <= d => Rank(i) <= Cardinality(Upto(d))
         /\ \A i \in Expected : i > d + 1 => Rank(i) > Cardinality(Upto(d)) + 1
<1>1. Upto(e) = Upto(d) \cup {d + 1} /\ Upto(d + 1) = Upto(d) \cup {d + 1}
  BY UptoFacts DEF Upto
<1>2. d + 1 \notin Upto(d)
  BY DEF Upto
<1>3. Cardinality(Upto(d) \cup {d + 1}) = Cardinality(Upto(d)) + 1
  BY <1>2, UptoFacts, FS_AddElement
<1>4. ASSUME NEW i \in Expected, i <= d PROVE Rank(i) <= Cardinality(Upto(d))
  <2>1. Upto(i) \subseteq Upto(d)
    BY <1>4, UptoFacts DEF Upto
  <2> QED
    BY <2>1, UptoFacts, FS_Subset DEF Rank
<1>5. ASSUME NEW i \in Expected, i > d + 1
      PROVE  Rank(i) > Cardinality(Upto(d)) + 1
  <2>1. i \notin Upto(d + 1) /\ Upto(d + 1) \cup {i} \subseteq Upto(i)
    BY <1>5, UptoFacts DEF Upto
  <2>2. Cardinality(Upto(d + 1) \cup {i}) = Cardinality(Upto(d + 1)) + 1
    BY <2>1, UptoFacts, FS_AddElement
  <2>3. Cardinality(Upto(d + 1) \cup {i}) <= Cardinality(Upto(i))
    BY <2>1, UptoFacts, FS_Subset
  <2>4. Cardinality(Upto(i)) \in Nat /\ Cardinality(Upto(d)) \in Nat
    BY UptoFacts
  <2>5. Cardinality(Upto(d + 1)) = Cardinality(Upto(d)) + 1
    BY <1>1, <1>3
  <2>6. Cardinality(Upto(d)) + 2 <= Cardinality(Upto(i))
    BY <2>2, <2>3, <2>4, <2>5
  <2> QED
    BY <2>4, <2>6 DEF Rank
<1> QED
  BY <1>1, <1>3, <1>4, <1>5 DEF Rank

\* A step leaves the reference alone, so what it has to show is about the
\* chunks yielded now.
LEMMA AgreesAfter ==
  ASSUME body' = body,
         Len(yielded') <= Cardinality(Expected),
         \A i \in Expected :
           Rank(i) <= Len(yielded') => yielded'[Rank(i)][1].n = body[i].n,
         phase' = "ended" => Len(yielded') = Cardinality(Expected)
  PROVE  CutIndependent'
<1>1. Expected' = Expected
  BY DEF Expected, Blanks, Is, Stops
<1>2. \A i \in Expected : Rank(i)' = Rank(i)
  BY <1>1 DEF Rank, Upto
<1> QED
  BY <1>1, <1>2 DEF CutIndependent

LEMMA NothingYielded ==
  ASSUME CutIndependent, body' = body, yielded' = yielded,
         phase' = "ended" => Len(yielded) = Cardinality(Expected)
  PROVE  CutIndependent'
  BY AgreesAfter DEF CutIndependent

\* What has to be shown of the places after a step.
LEMMA LocatedAfter ==
  ASSUME body' = body, NEW d, Done' = d, d \in Nat,
         \A i \in 1 .. Len(wire') : wire'[i] = body[Len(body) - Len(wire') + i],
         Len(wire') \in Nat, Len(buf') \in Nat, Len(body) \in Nat,
         Len(buf') + Len(wire') <= Len(body),
         \A i \in 1 .. Len(buf') :
           Same(buf'[i], body[Len(body) - Len(wire') - Len(buf') + i]),
         phase' = "lines" =>
           /\ d + Len(frame') <= Len(body)
           /\ \A i \in 1 .. Len(frame') : Same(frame'[i], body[d + i])
           /\ body[d + Len(frame') + 1].k = "nl"
           /\ body[d + Len(frame') + 2].k = "nl",
         \A i \in 1 .. d : ~Stops(i),
         Len(yielded') = Cardinality(Upto(d))
  PROVE  Located'
<1>1. Taken' = Len(body) - Len(wire') - Len(buf')
  BY DEF Taken
<1>2. Stands(buf, Taken)'
  BY <1>1 DEF Stands, Same
<1>3. (phase = "lines" => Stands(frame, Done))'
  BY DEF Stands, Same
<1>4. \A i \in 1 .. Len(wire') : wire'[i] = body'[Taken' + Len(buf') + i]
  <2>1. Taken' + Len(buf') = Len(body) - Len(wire')
    BY <1>1
  <2> QED
    BY <2>1
<1>5. (\A i \in 1 .. Done : ~Stops(i))'
  BY DEF Stops
<1>6. Expected' = Expected
  BY DEF Expected, Blanks, Is, Stops
<1>7. Upto(Done)' = Upto(d)
  BY <1>6 DEF Upto
<1> QED
  BY <1>2, <1>3, <1>4, <1>5, <1>7 DEF Located

LEMMA BodyTyped ==
  ASSUME ParseInv
  PROVE  /\ body \in Seq(Units) /\ Len(body) \in Nat /\ Len(wire) \in Nat
         /\ Len(buf) \in Nat /\ Len(frame) \in Nat /\ Len(yielded) \in Nat
  BY BodiesAssumption DEF ParseInv

LEMMA Between ==
  ASSUME ParseInv, phase = "pull"
  PROVE  /\ Taken \in Nat /\ Len(body) = Taken + Len(buf) + Len(wire) /\ Done = Taken
         /\ \A i \in 1 .. Len(wire) : wire[i] = body[Taken + Len(buf) + i]
         /\ \A i \in 1 .. Len(buf) : Same(buf[i], body[Taken + i])
         /\ \A i \in 1 .. Taken : ~Stops(i)
         /\ Len(yielded) = Cardinality(Upto(Taken))
<1>1. Located
  BY DEF ParseInv
<1>2. Done = Taken
  BY BodyTyped DEF Done, Taken
<1>3. Taken \in Nat
  BY <1>1, <1>2 DEF Located
<1>4. Len(body) = Taken + Len(buf) + Len(wire)
  BY BodyTyped DEF Taken
<1> QED
  BY <1>1, <1>2, <1>3, <1>4 DEF Located, Stands

LEMMA PullKeeps ==
  ASSUME ParseInv, Pull PROVE ParseInv'
<1>0. /\ body \in Seq(Units) /\ Len(body) \in Nat /\ Len(wire) \in Nat
      /\ Len(buf) \in Nat /\ Len(frame) \in Nat /\ Len(yielded) \in Nat
  BY BodyTyped
<1> USE <1>0
<1>1. PICK n \in 1 .. Len(wire) :
         /\ buf' = buf \o Decode(SubSeq(wire, 1, n))
         /\ wire' = SubSeq(wire, n + 1, Len(wire))
  BY DEF Pull
<1>2. /\ phase = "pull" /\ phase' = "pull"
      /\ body' = body /\ frame' = frame /\ yielded' = yielded
  BY DEF Pull
<1> DEFINE c == SubSeq(wire, 1, n)
           s == Decode(c)
<1>3. /\ wire \in Seq(Units) /\ buf \in Seq(Decoded) /\ Located /\ CutIndependent
      /\ body \in Bodies /\ frame \in Seq(Decoded) /\ yielded \in Seq(Seq(Decoded))
  BY <1>2 DEF ParseInv
<1>4. c \in Seq(Units) /\ Len(c) = n /\ \A i \in 1 .. n : c[i] = wire[i]
  BY <1>3
<1>5. /\ wire' \in Seq(Units) /\ Len(wire') = Len(wire) - n
      /\ \A i \in 1 .. Len(wire') : wire'[i] = wire[n + i]
  BY <1>1, <1>3
<1>6. s \in Seq(Decoded) /\ Len(s) = n /\ \A i \in 1 .. n : Same(s[i], c[i])
  BY <1>4, DecodeKeeps
<1> HIDE DEF s, c
<1>7. /\ buf' \in Seq(Decoded) /\ Len(buf') = Len(buf) + n
      /\ \A i \in 1 .. Len(buf) : buf'[i] = buf[i]
      /\ \A i \in 1 .. n : buf'[Len(buf) + i] = s[i]
  <2>1. buf' = buf \o s
    BY <1>1 DEF s, c
  <2>2. buf \in Seq(Decoded) /\ s \in Seq(Decoded) /\ Len(s) = n
    BY <1>3, <1>6
  <2>3. buf \o s \in Seq(Decoded) /\ Len(buf \o s) = Len(buf) + n
    BY <2>2
  <2>4. \A i \in 1 .. Len(buf) : (buf \o s)[i] = buf[i]
    BY <2>2
  <2>5. ASSUME NEW i \in 1 .. n PROVE (buf \o s)[Len(buf) + i] = s[i]
    BY <2>2, <2>3
  <2> QED
    BY <2>1, <2>3, <2>4, <2>5
<1>8. /\ Taken \in Nat /\ Len(body) = Taken + Len(buf) + Len(wire)
      /\ \A i \in 1 .. Len(wire) : wire[i] = body[Taken + Len(buf) + i]
      /\ \A i \in 1 .. Len(buf) : Same(buf[i], body[Taken + i])
      /\ Done = Taken
  BY <1>2, Between
<1>9. Taken = Len(body) - Len(wire') - Len(buf') /\ Done' = Taken
  BY <1>2, <1>5, <1>7, <1>8 DEF Done, Taken
<1>10. \A i \in 1 .. Len(buf') : Same(buf'[i], body[Taken + i])
  <2> SUFFICES ASSUME NEW i \in 1 .. Len(buf')
               PROVE  Same(buf'[i], body[Taken + i])
    OBVIOUS
  <2>1. CASE i <= Len(buf)
    <3>1. i \in 1 .. Len(buf)
      BY <1>7, <2>1
    <3> QED
      BY <1>7, <1>8, <3>1
  <2>2. CASE i > Len(buf)
    <3> DEFINE j == i - Len(buf)
    <3>1. j \in 1 .. n /\ i = Len(buf) + j /\ j \in 1 .. Len(wire)
      BY <1>7, <2>2
    <3>2. buf'[i] = s[j]
      BY <1>7, <3>1
    <3>3. Same(s[j], wire[j])
      BY <1>4, <1>6, <3>1
    <3>4. wire[j] = body[Taken + i]
      <4>1. Taken + Len(buf) + j = Taken + i
        BY <1>8, <3>1
      <4> QED
        BY <1>8, <3>1, <4>1
    <3> QED
      BY <3>2, <3>3, <3>4
  <2> QED
    BY <1>7, <2>1, <2>2
<1>11. \A i \in 1 .. Len(wire') : wire'[i] = body[Len(body) - Len(wire') + i]
  <2> SUFFICES ASSUME NEW i \in 1 .. Len(wire')
               PROVE  wire'[i] = body[Len(body) - Len(wire') + i]
    OBVIOUS
  <2>1. n + i \in 1 .. Len(wire) /\ wire'[i] = wire[n + i]
    BY <1>5
  <2>2. Taken + Len(buf) + (n + i) = Len(body) - Len(wire') + i
    BY <1>5, <1>8
  <2> QED
    BY <1>8, <2>1, <2>2
<1>12. (\A i \in 1 .. Taken : ~Stops(i)) /\ Len(yielded) = Cardinality(Upto(Taken))
  BY <1>3, <1>8 DEF Located
<1>13. Len(buf') + Len(wire') <= Len(body) /\ Len(buf') \in Nat /\ Len(wire') \in Nat
  BY <1>5, <1>7, <1>8
<1>14. Located'
  BY <1>2, <1>8, <1>9, <1>10, <1>11, <1>12, <1>13, LocatedAfter
<1>15. CutIndependent'
  BY <1>2, <1>3, NothingYielded
<1> QED
  BY <1>2, <1>3, <1>5, <1>7, <1>14, <1>15 DEF ParseInv

LEMMA CutFrameKeeps ==
  ASSUME ParseInv, CutFrame PROVE ParseInv'
<1>0. /\ body \in Seq(Units) /\ Len(body) \in Nat /\ Len(wire) \in Nat
      /\ Len(buf) \in Nat /\ Len(frame) \in Nat /\ Len(yielded) \in Nat
  BY BodyTyped
<1> USE <1>0
<1> DEFINE f == First(Blanks(buf))
<1>1. /\ phase = "pull" /\ phase' = "lines" /\ Blanks(buf) # {}
      /\ body' = body /\ wire' = wire /\ yielded' = yielded
      /\ frame' = SubSeq(buf, 1, f - 1)
      /\ buf' = SubSeq(buf, f + 2, Len(buf))
  BY DEF CutFrame
<1>2. /\ wire \in Seq(Units) /\ buf \in Seq(Decoded) /\ Located /\ CutIndependent
      /\ body \in Bodies /\ yielded \in Seq(Seq(Decoded))
  BY <1>1 DEF ParseInv
<1>3. f \in 1 .. Len(buf) - 1 /\ buf[f].k = "nl" /\ buf[f + 1].k = "nl"
  BY <1>1, <1>2, BlankFound
<1> HIDE DEF f
<1>4. /\ frame' \in Seq(Decoded) /\ Len(frame') = f - 1
      /\ \A i \in 1 .. Len(frame') : frame'[i] = buf[i]
  BY <1>1, <1>2, <1>3
<1>5. /\ buf' \in Seq(Decoded) /\ Len(buf') = Len(buf) - f - 1
      /\ \A i \in 1 .. Len(buf') : buf'[i] = buf[f + 1 + i]
  BY <1>1, <1>2, <1>3
<1>6. /\ Taken \in Nat /\ Len(body) = Taken + Len(buf) + Len(wire)
      /\ \A i \in 1 .. Len(wire) : wire[i] = body[Taken + Len(buf) + i]
      /\ \A i \in 1 .. Len(buf) : Same(buf[i], body[Taken + i])
      /\ Done = Taken
  BY <1>1, Between
<1>7. Done' = Taken /\ Len(body) - Len(wire') - Len(buf') = Taken + f + 1
  <2>1. /\ Len(wire') = Len(wire) /\ Len(buf') = Len(buf) - f - 1 /\ f \in Nat
        /\ Taken \in Nat /\ Len(body) = Taken + Len(buf) + Len(wire)
    BY <1>1, <1>3, <1>5, <1>6
  <2>2. Len(body) - Len(wire') - Len(buf') = Taken + f + 1
    BY <2>1
  <2>3. Done' = Len(body) - Len(wire') - Len(buf') - (Len(frame') + 2)
    BY <1>1 DEF Done, Taken
  <2>4. Taken \in Nat /\ f \in Nat /\ Len(frame') = f - 1
    BY <1>3, <1>4, <1>6
  <2> HIDE DEF Taken, Done
  <2> QED
    BY <2>2, <2>3, <2>4
<1>8. \A i \in 1 .. Len(frame') : Same(frame'[i], body[Taken + i])
  <2> SUFFICES ASSUME NEW i \in 1 .. Len(frame')
               PROVE  Same(frame'[i], body[Taken + i])
    OBVIOUS
  <2>1. i \in 1 .. Len(buf)
    BY <1>3, <1>4
  <2> QED
    BY <1>4, <1>6, <2>1
<1>9. body[Taken + f].k = "nl" /\ body[Taken + f + 1].k = "nl"
  <2>1. f \in 1 .. Len(buf) /\ f + 1 \in 1 .. Len(buf)
    BY <1>3
  <2>2. Same(buf[f], body[Taken + f]) /\ Same(buf[f + 1], body[Taken + (f + 1)])
    BY <1>6, <2>1
  <2>3. Taken + (f + 1) = Taken + f + 1
    BY <1>3, <1>6
  <2> QED
    BY <1>3, <2>2, <2>3 DEF Same
<1>10. \A i \in 1 .. Len(buf') : Same(buf'[i], body[Taken + f + 1 + i])
  <2> SUFFICES ASSUME NEW i \in 1 .. Len(buf')
               PROVE  Same(buf'[i], body[Taken + f + 1 + i])
    OBVIOUS
  <2>1. f + 1 + i \in 1 .. Len(buf) /\ Taken + (f + 1 + i) = Taken + f + 1 + i
    BY <1>3, <1>5, <1>6
  <2> QED
    BY <1>5, <1>6, <2>1
<1>11. (\A i \in 1 .. Taken : ~Stops(i)) /\ Len(yielded) = Cardinality(Upto(Taken))
  BY <1>2, <1>6 DEF Located
<1>12. \A i \in 1 .. Len(wire') : wire'[i] = body[Len(body) - Len(wire') + i]
  BY <1>1, <1>6
<1>13. /\ Taken + Len(frame') <= Len(body)
       /\ Taken + Len(frame') + 1 = Taken + f /\ Taken + Len(frame') + 2 = Taken + f + 1
       /\ Len(buf') + Len(wire') <= Len(body) /\ Len(buf') \in Nat /\ Len(wire') \in Nat
  BY <1>1, <1>3, <1>4, <1>5, <1>6
<1>14. Located'
  BY <1>1, <1>6, <1>7, <1>8, <1>9, <1>10, <1>11, <1>12, <1>13, LocatedAfter
<1>15. CutIndependent'
  BY <1>1, <1>2, NothingYielded
<1> QED
  BY <1>1, <1>2, <1>4, <1>5, <1>14, <1>15 DEF ParseInv

\* In the body, only what comes first in a line is data or ends the stream.
LEMMA FirstInLine ==
  ASSUME ParseInv, NEW i \in 2 .. Len(body), body[i].k = "data" \/ Stops(i)
  PROVE  body[i - 1].k = "nl"
  BY BodiesAssumption DEF ParseInv, Stops

\* Inside of a frame: the line taken next, and what it stands for.
LEMMA InFrame ==
  ASSUME ParseInv, phase = "lines"
  PROVE  /\ Done \in Nat /\ Len(body) = Done + Len(frame) + 2 + Len(buf) + Len(wire)
         /\ Taken = Done + Len(frame) + 2
         /\ \A i \in 1 .. Len(wire) : wire[i] = body[Taken + Len(buf) + i]
         /\ \A i \in 1 .. Len(buf) : Same(buf[i], body[Taken + i])
         /\ \A i \in 1 .. Len(frame) : Same(frame[i], body[Done + i])
         /\ body[Done + Len(frame) + 1].k = "nl"
         /\ body[Done + Len(frame) + 2].k = "nl"
         /\ \A i \in 1 .. Done : ~Stops(i)
         /\ Len(yielded) = Cardinality(Upto(Done))
<1>1. Located
  BY DEF ParseInv
<1>2. Done = Taken - (Len(frame) + 2)
  BY DEF Done
<1>3. Done \in Nat
  BY <1>1 DEF Located
<1>4. Taken = Len(body) - Len(wire) - Len(buf)
  BY DEF Taken
<1>5. /\ Len(body) = Done + Len(frame) + 2 + Len(buf) + Len(wire)
      /\ Taken = Done + Len(frame) + 2
  BY <1>2, <1>3, <1>4, BodyTyped
<1> QED
  BY <1>1, <1>3, <1>5 DEF Located, Stands

\* What follows a place of a sequence, which may be just after its end.
LEMMA Following ==
  ASSUME NEW S, NEW s \in Seq(S), NEW m \in 1 .. Len(s) + 1
  PROVE  LET t == SubSeq(s, m + 1, Len(s))
         IN  /\ t \in Seq(S)
             /\ m <= Len(s) => Len(t) = Len(s) - m
             /\ m > Len(s) => Len(t) = 0
             /\ \A i \in 1 .. Len(t) : t[i] = s[m + i]
<1> DEFINE t == SubSeq(s, m + 1, Len(s))
<1>1. CASE m <= Len(s)
  BY <1>1
<1>2. CASE m > Len(s)
  BY <1>2
<1> QED
  BY <1>1, <1>2

LEMMA ProcessLineKeeps ==
  ASSUME ParseInv, ProcessLine PROVE ParseInv'
<1>0. /\ body \in Seq(Units) /\ Len(body) \in Nat /\ Len(wire) \in Nat
      /\ Len(buf) \in Nat /\ Len(frame) \in Nat /\ Len(yielded) \in Nat
  BY BodyTyped
<1> USE <1>0
<1> DEFINE ends == {i \in 1 .. Len(frame) : Is(frame, i, "nl")}
           end  == IF ends = {} THEN Len(frame) + 1 ELSE First(ends)
           line == SubSeq(frame, 1, end - 1)
<1>1. /\ phase = "lines" /\ frame # <<>>
      /\ body' = body /\ wire' = wire /\ buf' = buf
      /\ frame' = SubSeq(frame, end + 1, Len(frame))
      /\ yielded' = IF Is(line, 1, "data") THEN Append(yielded, line) ELSE yielded
      /\ phase' = CASE Is(line, 1, "done") -> "ended"
                    [] Is(line, 1, "bad") -> "failed"
                    [] OTHER -> "lines"
  BY DEF ProcessLine
<1>2. /\ wire \in Seq(Units) /\ buf \in Seq(Decoded) /\ frame \in Seq(Decoded)
      /\ CutIndependent /\ body \in Bodies /\ yielded \in Seq(Seq(Decoded))
  BY DEF ParseInv
<1>3. /\ end \in 1 .. Len(frame) + 1
      /\ end <= Len(frame) => frame[end].k = "nl"
      /\ \A i \in 1 .. end - 1 : frame[i].k # "nl"
  <2>1. ends \in SUBSET Nat
    OBVIOUS
  <2>2. ends # {} => First(ends) \in ends /\ \A i \in ends : First(ends) <= i
    BY <2>1, FirstIsLeast
  <2>3. \A i \in 1 .. Len(frame) : i \in ends <=> frame[i].k = "nl"
    BY DEF Is
  <2>4. CASE ends = {}
    BY <2>3, <2>4
  <2>5. CASE ends # {}
    <3>1. end \in 1 .. Len(frame) /\ frame[end].k = "nl"
      BY <2>2, <2>3, <2>5
    <3>2. ASSUME NEW i \in 1 .. end - 1 PROVE frame[i].k # "nl"
      BY <2>2, <2>3, <2>5, <3>1
    <3> QED
      BY <3>1, <3>2
  <2> QED
    BY <2>4, <2>5
<1> HIDE DEF ends, end
<1>4. line \in Seq(Decoded) /\ Len(line) = end - 1 /\ \A i \in 1 .. end - 1 : line[i] = frame[i]
  BY <1>2, <1>3
<1>5. /\ frame' \in Seq(Decoded)
      /\ end <= Len(frame) => Len(frame') = Len(frame) - end
      /\ end > Len(frame) => Len(frame') = 0
      /\ \A i \in 1 .. Len(frame') : frame'[i] = frame[end + i]
  <2>1. frame' = SubSeq(frame, end + 1, Len(frame))
    BY <1>1
  <2> QED
    BY <1>2, <1>3, <2>1, Following
<1> HIDE DEF line
<1>6. Len(frame) > 0
  BY <1>1, <1>2
<1> DEFINE d == Done + (Len(frame) - Len(frame'))
\* What of the body the line takes; of it only the first unit counts.
<1>7. /\ Done \in Nat /\ d \in Nat /\ Done < d
      /\ d + Len(frame') = Done + Len(frame) /\ d <= Done + Len(frame)
      /\ Len(frame') \in Nat
      /\ Len(body) = Done + Len(frame) + 2 + Len(buf) + Len(wire)
  <2>1. Len(frame') \in Nat /\ Len(frame') < Len(frame)
    BY <1>3, <1>5, <1>6
  <2>2. /\ Done \in Nat
        /\ Len(body) = Done + Len(frame) + 2 + Len(buf) + Len(wire)
    BY <1>1, InFrame
  <2> QED
    BY <2>1, <2>2
<1>8. d - Done <= end /\ d - Done = Len(frame) - Len(frame')
  <2>1. Len(frame) - Len(frame') <= end
    BY <1>3, <1>5
  <2>2. d - Done = Len(frame) - Len(frame')
    BY <1>7
  <2> QED
    BY <2>1, <2>2
<1> HIDE DEF d
<1>9. ASSUME NEW i \in Nat, Done + 1 < i, i <= d
      PROVE  i \in 2 .. Len(body) /\ body[i].k # "data" /\ ~Stops(i)
  <2> DEFINE j == i - Done
  <2>1. j \in 2 .. Len(frame) /\ i = Done + j /\ i \in 2 .. Len(body) /\ j <= end
    <3>1. j \in Nat /\ 1 < j /\ i = Done + j /\ j <= d - Done
      BY <1>7, <1>9
    <3>2. j <= end /\ j <= Len(frame)
      BY <1>3, <1>7, <1>8, <3>1
    <3> HIDE DEF j
    <3>3. i \in 2 .. Len(body)
      BY <1>7, <3>1, <3>2
    <3> QED
      BY <3>1, <3>2, <3>3
  <2>2. /\ j - 1 \in 1 .. Len(frame) /\ j - 1 \in 1 .. end - 1
        /\ Done + (j - 1) = i - 1
    BY <1>3, <1>7, <2>1
  <2>3. Same(frame[j - 1], body[i - 1])
    BY <1>1, <2>2, InFrame
  <2>4. body[i - 1].k # "nl"
    BY <1>3, <2>2, <2>3 DEF Same
  <2> QED
    BY <2>1, <2>4, FirstInLine
<1>10. Done + 1 \in 1 .. Len(body) /\ Same(frame[1], body[Done + 1])
  <2>1. \A i \in 1 .. Len(frame) : Same(frame[i], body[Done + i])
    BY <1>1, InFrame
  <2>2. 1 \in 1 .. Len(frame) /\ Done + 1 \in 1 .. Len(body)
    BY <1>6, <1>7
  <2> QED
    BY <2>1, <2>2
\* What the first unit of the line is, in the frame and in the body.
<1>11. ASSUME NEW kind \in {"data", "done", "bad"}
       PROVE  Is(line, 1, kind) <=> body[Done + 1].k = kind
  <2>1. frame[1].k = kind <=> body[Done + 1].k = kind
    BY <1>10 DEF Same
  <2>2. Is(line, 1, kind) => frame[1].k = kind
    BY <1>3, <1>4 DEF Is
  <2>3. ASSUME frame[1].k = kind PROVE Is(line, 1, kind)
    <3>1. end # 1
      BY <1>3, <1>6, <2>3
    <3> QED
      BY <1>3, <1>4, <2>3, <3>1 DEF Is
  <2> QED
    BY <2>1, <2>2, <2>3
<1>12. /\ \A i \in 1 .. Done : ~Stops(i)
       /\ Len(yielded) = Cardinality(Upto(Done))
  BY <1>1, InFrame
<1>13. body[Done + 1].k = "data" <=> Done + 1 \in Expected
  <2>1. Done + Len(frame) + 1 \in Blanks(body)
    <3>1. body[Done + Len(frame) + 1].k = "nl" /\ body[Done + Len(frame) + 2].k = "nl"
      BY <1>1, InFrame
    <3>2. Done + Len(frame) + 1 + 1 = Done + Len(frame) + 2
      BY <1>7
    <3>3. /\ Done + Len(frame) + 1 \in 1 .. Len(body)
          /\ Done + Len(frame) + 2 \in 1 .. Len(body)
      BY <1>7
    <3> QED
      BY <3>1, <3>2, <3>3 DEF Blanks, Is
  <2>2. Done + 1 < Done + Len(frame) + 1
    BY <1>6, <1>7
  <2>3. 1 .. (Done + 1) - 1 = 1 .. Done
    BY <1>7
  <2> QED
    BY <1>10, <1>12, <2>1, <2>2, <2>3 DEF Expected
<1>14. \A i \in Expected : i <= d => i <= Done + 1
  BY <1>7, <1>9, UptoFacts DEF Expected
<1>15. \A i \in 1 .. Len(wire') : wire'[i] = body[Len(body) - Len(wire') + i]
  <2>1. Taken + Len(buf) = Len(body) - Len(wire)
    BY <1>1, <1>7, InFrame
  <2> QED
    BY <1>1, <2>1, InFrame
<1>16. \A i \in 1 .. Len(buf') :
          Same(buf'[i], body[Len(body) - Len(wire') - Len(buf') + i])
  <2>1. Taken = Len(body) - Len(wire) - Len(buf)
    BY <1>1, <1>7, InFrame
  <2> QED
    BY <1>1, <2>1, InFrame
<1>17. ASSUME phase' = "lines"
       PROVE  /\ Done' = d
              /\ d + Len(frame') <= Len(body)
              /\ \A i \in 1 .. Len(frame') : Same(frame'[i], body[d + i])
              /\ body[d + Len(frame') + 1].k = "nl"
              /\ body[d + Len(frame') + 2].k = "nl"
  <2>1. Done' = Len(body) - Len(wire) - Len(buf) - (Len(frame') + 2)
    BY <1>1, <1>17 DEF Done, Taken
  <2>2. Done' = d /\ d + Len(frame') <= Len(body)
    BY <1>7, <2>1
  <2>3. ASSUME NEW i \in 1 .. Len(frame') PROVE Same(frame'[i], body[d + i])
    <3>1. end + i \in 1 .. Len(frame) /\ Done + (end + i) = d + i
      BY <1>3, <1>5, <1>7
    <3>2. Same(frame[end + i], body[d + i])
      BY <1>1, <3>1, InFrame
    <3> QED
      BY <1>5, <3>2
  <2>4. body[d + Len(frame') + 1].k = "nl" /\ body[d + Len(frame') + 2].k = "nl"
    BY <1>1, <1>7, InFrame
  <2> QED
    BY <2>2, <2>3, <2>4
<1>18. Len(buf') + Len(wire') <= Len(body) /\ Len(buf') \in Nat /\ Len(wire') \in Nat
  BY <1>1, <1>7
\* A line of data: the chunk is the next one.
<1>19. CASE body[Done + 1].k = "data"
  <2>1. /\ yielded' = Append(yielded, line)
        /\ phase' = "lines"
    BY <1>1, <1>11, <1>19
  <2>2. /\ yielded' \in Seq(Seq(Decoded)) /\ Len(yielded') = Len(yielded) + 1
        /\ \A i \in 1 .. Len(yielded) : yielded'[i] = yielded[i]
        /\ yielded'[Len(yielded) + 1] = line
    BY <1>2, <1>4, <2>1
  <2>3. /\ Cardinality(Upto(d)) = Cardinality(Upto(Done)) + 1
        /\ Rank(Done + 1) = Cardinality(Upto(Done)) + 1
        /\ \A i \in Expected : i <= Done => Rank(i) <= Cardinality(Upto(Done))
        /\ \A i \in Expected : i > Done + 1 => Rank(i) > Cardinality(Upto(Done)) + 1
    BY <1>7, <1>13, <1>14, <1>19, UptoNext
  <2>4. line[1].n = body[Done + 1].n
    <3>1. Is(line, 1, "data")
      BY <1>11, <1>19
    <3>2. line[1] = frame[1]
      BY <1>3, <1>4, <3>1 DEF Is
    <3> QED
      BY <1>10, <3>2 DEF Same
  <2>5. ASSUME NEW i \in Expected, Rank(i) <= Len(yielded')
        PROVE  yielded'[Rank(i)][1].n = body[i].n
    <3>1. i \in Nat /\ i >= 1
      BY UptoFacts
    <3>2. CASE i <= Done
      <4>1. Rank(i) \in 1 .. Len(yielded)
        <5>1. IsFiniteSet(Upto(i)) /\ Cardinality(Upto(i)) \in Nat
          BY UptoFacts
        <5>2. i \in Upto(i)
          BY <3>1 DEF Upto
        <5>3. Cardinality(Upto(i)) # 0
          BY <5>1, <5>2, FS_EmptySet
        <5> QED
          BY <1>12, <2>3, <3>2, <5>1, <5>3 DEF Rank
      <4>2. yielded[Rank(i)][1].n = body[i].n
        BY <1>2, <4>1 DEF CutIndependent
      <4>3. yielded'[Rank(i)] = yielded[Rank(i)]
        BY <2>2, <4>1
      <4> QED
        BY <4>2, <4>3
    <3>3. CASE i = Done + 1
      BY <1>12, <2>2, <2>3, <2>4, <3>3
    <3>4. CASE i > Done + 1
      BY <1>12, <2>2, <2>3, <2>5, <3>4, UptoFacts DEF Rank
    <3> QED
      BY <1>7, <3>1, <3>2, <3>3, <3>4
  <2>6. /\ Len(yielded') = Cardinality(Upto(d))
        /\ Len(yielded') <= Cardinality(Expected)
    BY <1>12, <2>2, <2>3, UptoFacts
  <2>7. CutIndependent'
    BY <1>1, <2>1, <2>5, <2>6, AgreesAfter
  <2>8. \A i \in 1 .. d : ~Stops(i)
    <3> SUFFICES ASSUME NEW i \in 1 .. d PROVE ~Stops(i)
      OBVIOUS
    <3>1. i \in 1 .. Done \/ i = Done + 1 \/ (i \in Nat /\ Done + 1 < i /\ i <= d)
      BY <1>7
    <3> QED
      BY <1>9, <1>12, <1>19, <3>1 DEF Stops
  <2>9. Located'
    BY <1>1, <1>7, <1>15, <1>16, <1>17, <1>18, <2>1, <2>6, <2>8, LocatedAfter
  <2> QED
    BY <1>1, <1>2, <1>5, <2>2, <2>7, <2>9 DEF ParseInv
\* Any other line: nothing is yielded, and the marker is the end of the data.
<1>20. CASE body[Done + 1].k # "data"
  <2>1. yielded' = yielded
    BY <1>1, <1>11, <1>20
  <2>2. \A i \in Expected : i <= d => i <= Done
    <3> SUFFICES ASSUME NEW i \in Expected, i <= d PROVE i <= Done
      OBVIOUS
    <3>1. i <= Done + 1 /\ i # Done + 1
      BY <1>13, <1>14, <1>20
    <3> QED
      BY <1>7, <3>1, UptoFacts
  <2>3. Upto(d) = Upto(Done)
    BY <1>7, <2>2, UptoSame
  <2>4. CASE Stops(Done + 1)
    <3>1. phase' \in {"ended", "failed"}
      BY <1>1, <1>11, <2>4 DEF Stops
    <3>2. Expected = Upto(Done)
      <4>1. ASSUME NEW i \in Expected PROVE i <= Done
        <5>1. Done + 1 \notin 1 .. i - 1
          BY <2>4 DEF Expected
        <5>2. i # Done + 1
          BY <1>13, <1>20
        <5> QED
          BY <1>7, <5>1, <5>2, UptoFacts
      <4> QED
        BY <4>1 DEF Upto
    <3>3. CutIndependent'
      BY <1>1, <1>2, <1>12, <2>1, <3>2, NothingYielded
    <3> QED
      BY <1>1, <1>2, <1>5, <2>1, <3>1, <3>3 DEF ParseInv
  <2>5. CASE ~Stops(Done + 1)
    <3>1. phase' = "lines"
      BY <1>1, <1>11, <2>5 DEF Stops
    <3>2. \A i \in 1 .. d : ~Stops(i)
      <4> SUFFICES ASSUME NEW i \in 1 .. d PROVE ~Stops(i)
        OBVIOUS
      <4>1. i \in 1 .. Done \/ i = Done + 1 \/ (i \in Nat /\ Done + 1 < i /\ i <= d)
        BY <1>7
      <4> QED
        BY <1>9, <1>12, <2>5, <4>1
    <3>3. Len(yielded') = Cardinality(Upto(d))
      BY <1>12, <2>1, <2>3
    <3>4. Located'
      BY <1>1, <1>7, <1>15, <1>16, <1>17, <1>18, <3>1, <3>2, <3>3, LocatedAfter
    <3>5. CutIndependent'
      BY <1>1, <1>2, <2>1, <3>1, NothingYielded
    <3> QED
      BY <1>1, <1>2, <1>5, <2>1, <3>4, <3>5 DEF ParseInv
  <2> QED
    BY <2>4, <2>5
<1> QED
  BY <1>19, <1>20

LEMMA FrameDoneKeeps ==
  ASSUME ParseInv, FrameDone PROVE ParseInv'
<1>0. /\ body \in Seq(Units) /\ Len(body) \in Nat /\ Len(wire) \in Nat
      /\ Len(buf) \in Nat /\ Len(frame) \in Nat /\ Len(yielded) \in Nat
  BY BodyTyped
<1> USE <1>0
<1>1. /\ phase = "lines" /\ phase' = "pull" /\ frame = <<>>
      /\ UNCHANGED <<body, wire, buf, frame, yielded>>
  BY DEF FrameDone
<1>2. /\ wire \in Seq(Units) /\ buf \in Seq(Decoded) /\ frame \in Seq(Decoded)
      /\ CutIndependent /\ body \in Bodies /\ yielded \in Seq(Seq(Decoded))
  BY DEF ParseInv
<1>3. Len(frame) = 0
  BY <1>1
<1>4. /\ Done \in Nat /\ Taken = Done + 2
      /\ Len(body) = Done + 2 + Len(buf) + Len(wire)
      /\ body[Done + 1].k = "nl" /\ body[Done + 2].k = "nl"
  <2>1. /\ Done \in Nat /\ Taken = Done + Len(frame) + 2
        /\ Len(body) = Done + Len(frame) + 2 + Len(buf) + Len(wire)
        /\ body[Done + Len(frame) + 1].k = "nl" /\ body[Done + Len(frame) + 2].k = "nl"
    BY <1>1, InFrame
  <2> QED
    BY <1>3, <2>1
<1>5. /\ \A i \in 1 .. Len(wire) : wire[i] = body[Taken + Len(buf) + i]
      /\ \A i \in 1 .. Len(buf) : Same(buf[i], body[Taken + i])
      /\ \A i \in 1 .. Done : ~Stops(i)
      /\ Len(yielded) = Cardinality(Upto(Done))
  BY <1>1, InFrame
<1> DEFINE d == Done + 2
<1>6. Done' = d /\ d \in Nat /\ Done <= d
  BY <1>1, <1>4 DEF Done, Taken
<1>7. \A i \in 1 .. d : i > Done => body[i].k = "nl"
  <2> SUFFICES ASSUME NEW i \in 1 .. d, i > Done PROVE body[i].k = "nl"
    OBVIOUS
  <2>1. i = Done + 1 \/ i = Done + 2
    BY <1>4
  <2> QED
    BY <1>4, <2>1
<1> HIDE DEF d
<1>8. \A i \in 1 .. d : ~Stops(i)
  <2> SUFFICES ASSUME NEW i \in 1 .. d PROVE ~Stops(i)
    OBVIOUS
  <2>1. i \in 1 .. Done \/ i > Done
    BY <1>4
  <2> QED
    BY <1>5, <1>7, <2>1 DEF Stops
<1>9. \A i \in Expected : i <= d => i <= Done
  <2> SUFFICES ASSUME NEW i \in Expected, i <= d PROVE i <= Done
    OBVIOUS
  <2>1. i \in Nat /\ i \in 1 .. d /\ body[i].k = "data"
    BY <1>6 DEF Expected
  <2> QED
    BY <1>4, <1>7, <2>1
<1>10. Len(yielded') = Cardinality(Upto(d))
  BY <1>1, <1>4, <1>5, <1>6, <1>9, UptoSame
<1>11. \A i \in 1 .. Len(wire') : wire'[i] = body[Len(body) - Len(wire') + i]
  <2>1. Taken + Len(buf) = Len(body) - Len(wire)
    BY <1>4
  <2> QED
    BY <1>1, <1>5, <2>1
<1>12. \A i \in 1 .. Len(buf') :
          Same(buf'[i], body[Len(body) - Len(wire') - Len(buf') + i])
  <2>1. Taken = Len(body) - Len(wire) - Len(buf)
    BY <1>4
  <2> QED
    BY <1>1, <1>5, <2>1
<1>13. Len(buf') + Len(wire') <= Len(body) /\ Len(buf') \in Nat /\ Len(wire') \in Nat
  BY <1>1, <1>4
<1>14. Located'
  BY <1>1, <1>6, <1>8, <1>10, <1>11, <1>12, <1>13, LocatedAfter
<1>15. CutIndependent'
  BY <1>1, <1>2, NothingYielded
<1> QED
  BY <1>1, <1>2, <1>14, <1>15 DEF ParseInv

\* Without a blank line in the buffer no frame is complete behind Taken.
LEMMA BodyEndsKeeps ==
  ASSUME ParseInv, BodyEnds PROVE ParseInv'
<1>0. /\ body \in Seq(Units) /\ Len(body) \in Nat /\ Len(wire) \in Nat
      /\ Len(buf) \in Nat /\ Len(frame) \in Nat /\ Len(yielded) \in Nat
  BY BodyTyped
<1> USE <1>0
<1>1. /\ phase = "pull" /\ phase' = "ended" /\ Blanks(buf) = {} /\ wire = <<>>
      /\ UNCHANGED <<body, wire, buf, frame, yielded>>
  BY DEF BodyEnds
<1>2. /\ Taken \in Nat /\ Len(body) = Taken + Len(buf) + Len(wire)
      /\ \A i \in 1 .. Len(buf) : Same(buf[i], body[Taken + i])
      /\ Len(yielded) = Cardinality(Upto(Taken))
  BY <1>1, Between
<1>3. Len(body) = Taken + Len(buf)
  BY <1>1, <1>2
<1>4. ASSUME NEW i \in Expected PROVE i <= Taken
  <2>1. i \in Nat
    BY UptoFacts
  <2> SUFFICES ASSUME i > Taken PROVE FALSE
    BY <1>2, <2>1
  <2>2. PICK j \in Blanks(body) : i < j
    BY DEF Expected
  <2>3. /\ j \in 1 .. Len(body) /\ j + 1 \in 1 .. Len(body)
        /\ body[j].k = "nl" /\ body[j + 1].k = "nl"
    BY DEF Blanks, Is
  <2> DEFINE k == j - Taken
  <2>4. k \in 1 .. Len(buf) /\ k + 1 \in 1 .. Len(buf)
    BY <1>2, <1>3, <2>1, <2>2, <2>3
  <2>5. Taken + k = j /\ Taken + (k + 1) = j + 1
    BY <1>2, <2>3
  <2> HIDE DEF k
  <2>6. Same(buf[k], body[j]) /\ Same(buf[k + 1], body[j + 1])
    BY <1>2, <2>4, <2>5
  <2>7. buf[k].k = "nl" /\ buf[k + 1].k = "nl"
    BY <2>3, <2>6 DEF Same
  <2>8. k \in Blanks(buf)
    BY <2>4, <2>7 DEF Blanks, Is
  <2> QED
    BY <1>1, <2>8
<1>5. Expected = Upto(Taken)
  BY <1>4 DEF Upto
<1>6. CutIndependent'
  BY <1>1, <1>2, <1>5, NothingYielded DEF ParseInv
<1> QED
  BY <1>1, <1>6 DEF ParseInv

LEMMA ParserStarts == SseInit => ParseInv
<1> SUFFICES ASSUME SseInit PROVE ParseInv
  OBVIOUS
<1>1. /\ body \in Bodies /\ wire = body /\ phase = "pull"
      /\ buf = <<>> /\ frame = <<>> /\ yielded = <<>>
  BY DEF SseInit
<1>2. body \in Seq(Units) /\ Len(body) \in Nat
  BY <1>1, BodiesAssumption
<1>3. Taken = 0 /\ Done = 0
  <2>1. Len(wire) = Len(body) /\ Len(buf) = 0
    BY <1>1
  <2>2. Taken = 0
    BY <1>2, <2>1 DEF Taken
  <2> QED
    BY <1>1, <2>2 DEF Done
<1>4. Upto(0) = {} /\ Cardinality(Upto(0)) = 0
  BY <1>2, UptoFacts, FS_EmptySet DEF Upto
<1>5. Located
  BY <1>1, <1>2, <1>3, <1>4 DEF Located, Stands
<1>6. \A i \in Expected : Rank(i) # 0
  <2> SUFFICES ASSUME NEW i \in Expected PROVE Rank(i) # 0
    OBVIOUS
  <2>1. i \in Upto(i)
    BY <1>2, UptoFacts DEF Upto
  <2> QED
    BY <1>2, <2>1, UptoFacts, FS_EmptySet DEF Rank
<1>7. \A i \in Expected : Rank(i) \in Nat
  BY <1>2, UptoFacts DEF Rank
<1>8. CutIndependent
  BY <1>1, <1>2, <1>6, <1>7, UptoFacts DEF CutIndependent
<1> QED
  BY <1>1, <1>2, <1>5, <1>8 DEF ParseInv

LEMMA ParserSteps ==
  ASSUME ParseInv, SseStep \/ ReadFails \/ UNCHANGED sseVars
  PROVE  ParseInv'
<1>1. CASE ReadFails
  <2>1. phase' = "failed" /\ UNCHANGED <<body, wire, buf, frame, yielded>>
    BY <1>1 DEF ReadFails
  <2>2. CutIndependent'
    BY <2>1, NothingYielded DEF ParseInv
  <2> QED
    BY <2>1, <2>2 DEF ParseInv
<1>2. CASE UNCHANGED sseVars
  <2>1. UNCHANGED <<body, wire, buf, frame, phase, yielded>>
    BY <1>2 DEF sseVars
  <2>2. CutIndependent'
    BY <2>1, NothingYielded DEF ParseInv, CutIndependent
  <2>3. Taken' = Taken /\ Done' = Done
    BY <2>1 DEF Taken, Done
  <2>4. Expected' = Expected
    BY <2>1 DEF Expected, Blanks, Is, Stops
  <2>5. Upto(Done)' = Upto(Done)
    BY <2>3, <2>4 DEF Upto
  <2>6. Stands(buf, Taken)' <=> Stands(buf, Taken)
    BY <2>1, <2>3 DEF Stands, Same
  <2>7. Stands(frame, Done)' <=> Stands(frame, Done)
    BY <2>1, <2>3 DEF Stands, Same
  <2>8. (\A i \in 1 .. Done : ~Stops(i))' <=> (\A i \in 1 .. Done : ~Stops(i))
    BY <2>1, <2>3 DEF Stops
  <2>9. Located => Located'
    BY <2>1, <2>3, <2>5, <2>6, <2>7, <2>8 DEF Located
  <2> QED
    BY <2>1, <2>2, <2>9 DEF ParseInv
<1> QED
  BY <1>1, <1>2, PullKeeps, CutFrameKeeps, ProcessLineKeeps, FrameDoneKeeps,
     BodyEndsKeeps DEF SseStep

LEMMA ParserInvariance == Spec => []ParseInv
<1>1. Init => ParseInv
  BY ParserStarts DEF Init
<1>2. ParseInv /\ [Next]_vars => ParseInv'
  <2> SUFFICES ASSUME ParseInv, [Next]_vars PROVE ParseInv'
    OBVIOUS
  <2>1. SseStep \/ ReadFails \/ UNCHANGED sseVars
    BY DEF Next, Progress, AttemptDone, Backoff, Send, NetworkFails, ErrorStatus,
           SuccessStatus, AttemptEnds, ReadBody, Stream, StreamBreaks, StreamDone,
           Drop, Finished, vars
  <2> QED
    BY <2>1, ParserSteps
<1> QED
  BY <1>1, <1>2, PTL DEF Spec
-----------------------------------------------------------------------------
(***************************************************************************)
(* The theorems.                                                           *)
(***************************************************************************)
\* The types of CopilotClient and of the stream parser it drives.
THEOREM TypeCorrect == Spec => []TypeOK
<1>1. Inv => TypeOK
  BY DEF Inv
<1> QED
  BY Invariance, <1>1, PTL

\* The retry loops of send_chat_completion and stream_chat_completion: only
\* after a failure that may pass, at most MAX_RETRIES times, and what the
\* upstream API produced twice had been lost.
THEOREM RetriesAreJustified == Spec => []RetriesJustified
<1>1. Inv => RetriesJustified
  BY DEF Inv
<1> QED
  BY Invariance, <1>1, PTL

\* handle_error_response with into_response: whose error it was shows in the
\* status the client of the adapter is answered with.
THEOREM StatusesTellWhose == Spec => []StatusTellsWhose
<1>1. Inv => StatusTellsWhose
  BY DEF Inv
<1> QED
  BY Invariance, <1>1, PTL

\* handle_error_response: a rate limit keeps its delay, a prompt that is too
\* long is recognised.
THEOREM ErrorsKeepMeaning == Spec => []ErrorKeepsItsMeaning
<1>1. Inv => ErrorKeepsItsMeaning
  BY DEF Inv
<1> QED
  BY Invariance, <1>1, PTL

\* parse_sse_stream: whatever the body and wherever the network cuts it, the
\* chunks are those of the data lines of complete frames, in order; when the
\* stream ends without an error, all of them.
THEOREM CutsDoNotMatter == Spec => []CutIndependent
<1>1. ParseInv => CutIndependent
  BY DEF ParseInv
<1> QED
  BY ParserInvariance, <1>1, PTL
=============================================================================
