------------------------ MODULE HelperServer_proofs ------------------------
(***************************************************************************)
(* HelperServer, proved for any ids, any number of requests and any pipe   *)
(* size: IInv is inductive, and with it the type of every variable, the    *)
(* exactness of the cancellation map, the order of the lines of a request  *)
(* and what a nil error of Serve promises.  First the facts about one line *)
(* taken from stdin or written to stdout, then one lemma per action.       *)
(***************************************************************************)
EXTENDS HelperServer, TLAPS

(* A line taken from stdin is a line. *)
LEMMA HeadOfStdin ==
  ASSUME TypeOK, stdin # << >>
  PROVE  Head(stdin) \in Line /\ Tail(stdin) \in Seq(Line)
BY DEF TypeOK

(* Appending an element keeps the others where they were. *)
LEMMA Appended ==
  ASSUME NEW S, NEW s \in Seq(S), NEW e \in S
  PROVE  /\ Append(s, e) \in Seq(S)
         /\ Len(Append(s, e)) = Len(s) + 1
         /\ Len(s) \in Nat
         /\ \A k \in 1..Len(s) : Append(s, e)[k] = s[k]
         /\ Append(s, e)[Len(s) + 1] = e
OBVIOUS

(* A line written to the sink is a well-formed line, or the sink has failed. *)
LEMMA WriteEffect ==
  ASSUME TypeOK, NEW id \in AnyId, NEW kind \in Kinds, Write(id, kind)
  PROVE  /\ stdout' \in Seq([id : AnyId, kind : Kinds])
         /\ writer' \in {"sound", "broken", "failed"}
         /\ writer' = IF writer = "sound" THEN "sound" ELSE "failed"
<1> DEFINE S == [id : AnyId, kind : Kinds]
<1>1. Message(id, kind) \in S
  BY DEF Message
<1>2. stdout \in Seq(S) /\ writer \in {"sound", "broken", "failed"}
  BY DEF TypeOK
<1> HIDE DEF S
<1>3. Append(stdout, Message(id, kind)) \in Seq(S)
  BY <1>1, <1>2, Appended
<1>4. /\ stdout' \in Seq(S)
      /\ writer' = IF writer = "sound" THEN "sound" ELSE "failed"
  BY <1>2, <1>3 DEF Write
<1> QED
  BY <1>4 DEF S

(* A line written for a request is the last of its lines; it touches no other *)
(* request's, and once the sink has failed nothing is written. *)
LEMMA WriteForEffect ==
  ASSUME TypeOK, NEW id \in AnyId, NEW kind \in Kinds, NEW w \in Requests,
         WriteFor(w, id, kind)
  PROVE  /\ stdout' \in Seq([id : AnyId, kind : Kinds])
         /\ writer' \in {"sound", "broken", "failed"}
         /\ writer' = IF writer = "sound" THEN "sound" ELSE "failed"
         /\ sent' \in [Requests -> Seq(Kinds)]
         /\ Len(sent[w]) \in Nat
         /\ \A v \in Requests : v # w => sent'[v] = sent[v]
         /\ writer # "sound" => sent' = sent
         /\ writer = "sound" =>
              /\ Len(sent'[w]) = Len(sent[w]) + 1
              /\ \A k \in 1..Len(sent[w]) : sent'[w][k] = sent[w][k]
              /\ sent'[w][Len(sent[w]) + 1] = kind
<1>1. Write(id, kind)
  BY DEF WriteFor
<1>2. sent[w] \in Seq(Kinds) /\ sent \in [Requests -> Seq(Kinds)]
  BY DEF TypeOK
<1>3. CASE writer = "sound"
  <2>1. sent' = [sent EXCEPT ![w] = Append(@, kind)]
    BY <1>3 DEF WriteFor
  <2>2. sent'[w] = Append(sent[w], kind)
    BY <2>1, <1>2
  <2>3. /\ Len(sent[w]) \in Nat
        /\ Len(sent'[w]) = Len(sent[w]) + 1
        /\ \A k \in 1..Len(sent[w]) : sent'[w][k] = sent[w][k]
        /\ sent'[w][Len(sent[w]) + 1] = kind
        /\ Append(sent[w], kind) \in Seq(Kinds)
    BY <2>2, <1>2, Appended
  <2>4. sent' \in [Requests -> Seq(Kinds)] /\ \A v \in Requests : v # w => sent'[v] = sent[v]
    BY <2>1, <2>3, <1>2
  <2>5. /\ stdout' \in Seq([id : AnyId, kind : Kinds])
        /\ writer' = IF writer = "sound" THEN "sound" ELSE "failed"
    BY <1>1, WriteEffect
  <2> QED
    BY <2>3, <2>4, <2>5, <1>3
<1>4. CASE writer # "sound"
  <2>1. sent' = sent
    BY <1>4 DEF WriteFor
  <2>2. /\ stdout' \in Seq([id : AnyId, kind : Kinds])
        /\ writer' = IF writer = "sound" THEN "sound" ELSE "failed"
    BY <1>1, WriteEffect
  <2> QED
    BY <2>1, <2>2, <1>2, <1>4
<1> QED
  BY <1>3, <1>4

(* What is known of the lines of a request stays known while nothing is written *)
(* for it and its goroutine does not move. *)
LEMMA Untouched ==
  ASSUME NEW v \in Requests,
         sent'[v] = sent[v], stage'[v] = stage[v], call'[v] = call[v],
         writer = "failed" => writer' = "failed",
         LinesAtStage(v), LinesOf(v), AnsweredAtStage(v)
  PROVE  LinesAtStage(v)' /\ LinesOf(v)' /\ AnsweredAtStage(v)'
BY DEF LinesAtStage, LinesOf, AnsweredAtStage, Answered, WantsResponse

(* The initial state satisfies the invariant. *)
LEMMA InitIInv == Init => IInv
<1> SUFFICES ASSUME Init PROVE IInv
  OBVIOUS
<1>1. TypeOK
  BY IdsAssumption, BoundsAssumption DEF Init, TypeOK, Line, Request, AnyId, Requests
<1>2. Numbered /\ CancellationsExact /\ LinesByStage /\ LinesInOrder
  BY DEF Init, Numbered, CancellationsExact, LinesByStage, LinesAtStage, LinesInOrder, LinesOf,
         InFlight, Requests
<1>3. AnsweredByStage /\ AnswersHeld /\ ReturnedIsQuiet
  BY DEF Init, AnsweredByStage, AnsweredAtStage, AnswersHeld, ReturnedIsQuiet, InFlight
<1> QED
  BY <1>1, <1>2, <1>3 DEF IInv
(* A line that does not decode changes nothing but the sink. *)
LEMMA ReadJunkKeeps ==
  ASSUME IInv, ReadJunk
  PROVE  IInv'
<1>a. Head(stdin) \in Line /\ Tail(stdin) \in Seq(Line)
  BY HeadOfStdin DEF IInv, Reading, ReadJunk
<1>b. /\ stdout' \in Seq([id : AnyId, kind : Kinds])
      /\ writer' = IF writer = "sound" THEN "sound" ELSE "failed"
  BY WriteEffect DEF IInv, ReadJunk, AnyId, Kinds
<1>1. TypeOK'
  BY <1>a, <1>b DEF IInv, TypeOK, Requests, ReadJunk, Reading
<1>2. Numbered'
  BY <1>a, <1>b DEF IInv, TypeOK, Numbered, Requests, ReadJunk, Reading
<1>3. CancellationsExact'
  BY <1>a, <1>b DEF IInv, TypeOK, CancellationsExact, InFlight, ReadJunk, Reading
<1>4. LinesByStage'
  BY <1>a, <1>b DEF IInv, TypeOK, LinesByStage, LinesAtStage, WantsResponse, ReadJunk,
        Reading
<1>5. LinesInOrder'
  BY <1>a, <1>b DEF IInv, TypeOK, LinesInOrder, LinesOf, WantsResponse, IsAnswer, Answers,
        ReadJunk, Reading
<1>6. AnsweredByStage'
  BY <1>a, <1>b DEF IInv, TypeOK, AnsweredByStage, AnsweredAtStage, Answered,
        WantsResponse, ReadJunk, Reading
<1>7. AnswersHeld'
  BY <1>a, <1>b DEF IInv, TypeOK, AnswersHeld, ReadJunk, Reading
<1>8. ReturnedIsQuiet'
  BY <1>a, <1>b DEF IInv, TypeOK, ReturnedIsQuiet, InFlight, ReadJunk, Reading
<1> QED
  BY <1>1, <1>2, <1>3, <1>4, <1>5, <1>6, <1>7, <1>8 DEF IInv

(* A cancellation changes only the set of cancelled requests. *)
LEMMA ReadCancelKeeps ==
  ASSUME IInv, ReadCancel
  PROVE  IInv'
<1>a. Head(stdin) \in Line /\ Tail(stdin) \in Seq(Line)
  BY HeadOfStdin DEF IInv, Reading, ReadCancel
<1>1. TypeOK'
  BY <1>a DEF IInv, TypeOK, Requests, ReadCancel, Reading, HasKey, sinkVars
<1>2. Numbered'
  BY <1>a DEF IInv, TypeOK, Numbered, Requests, ReadCancel, Reading, HasKey, sinkVars
<1>3. CancellationsExact'
  BY <1>a DEF IInv, TypeOK, CancellationsExact, InFlight, ReadCancel, Reading, HasKey,
        sinkVars
<1>4. LinesByStage'
  BY <1>a DEF IInv, TypeOK, LinesByStage, LinesAtStage, WantsResponse, ReadCancel,
        Reading, HasKey, sinkVars
<1>5. LinesInOrder'
  BY <1>a DEF IInv, TypeOK, LinesInOrder, LinesOf, WantsResponse, IsAnswer, Answers,
        ReadCancel, Reading, HasKey, sinkVars
<1>6. AnsweredByStage'
  BY <1>a DEF IInv, TypeOK, AnsweredByStage, AnsweredAtStage, Answered, WantsResponse,
        ReadCancel, Reading, HasKey, sinkVars
<1>7. AnswersHeld'
  BY <1>a DEF IInv, TypeOK, AnswersHeld, ReadCancel, Reading, HasKey, sinkVars
<1>8. ReturnedIsQuiet'
  BY <1>a DEF IInv, TypeOK, ReturnedIsQuiet, InFlight, ReadCancel, Reading, HasKey, sinkVars
<1> QED
  BY <1>1, <1>2, <1>3, <1>4, <1>5, <1>6, <1>7, <1>8 DEF IInv

(* A request that is accepted takes a free key. *)
LEMMA ReadRequestKeeps ==
  ASSUME IInv, ReadRequest
  PROVE  IInv'
<1>a. Head(stdin) \in Line /\ Tail(stdin) \in Seq(Line)
  BY HeadOfStdin DEF IInv, Reading, ReadRequest
<1>b. Next1 \in Requests
  BY BoundsAssumption DEF IInv, TypeOK, ReadRequest, TakeRequest, Next1, Requests
<1> PICK n \in Requests : n = Next1
  BY <1>b
<1>n. /\ n = count + 1 /\ count' = n
      /\ stage[n] = "none" /\ sent[n] = << >>
      /\ stage' = [stage EXCEPT ![n] = "running"]
      /\ call' = [call EXCEPT ![n] = Head(stdin)]
      /\ stdin' = Tail(stdin)
  BY BoundsAssumption
  DEF IInv, TypeOK, Numbered, LinesByStage, LinesAtStage, ReadRequest, TakeRequest, Next1, Requests
<1>d. stage'[n] = "running" /\ call'[n] = Head(stdin)
  BY <1>n DEF IInv, TypeOK
<1>2. Numbered'
  BY <1>n DEF IInv, TypeOK, Numbered, Requests
<1>u. /\ ~InUse(Head(stdin).id) /\ Register(Head(stdin).id, n)
      /\ UNCHANGED <<stdinOpen, answer, cancelled, stdout, writer, sent, serve, returned>>
      /\ serve = "reading"
  BY DEF ReadRequest, Reading, sinkVars
<1>c. cancellations' \in [Ids -> Requests \cup {0}]
  BY <1>u DEF Register, HasKey, IInv, TypeOK
<1>1. TypeOK'
  <2>1. stage' \in [Requests -> {"none", "running", "returned", "reported",
                                 "answered", "done", "rejected"}]
    BY <1>n DEF IInv, TypeOK
  <2>2. call' \in [Requests -> Line] /\ count' \in 0..MaxRequests
    BY <1>a, <1>n DEF IInv, TypeOK, Requests
  <2> QED
    BY <1>a, <1>n, <1>u, <1>c, <2>1, <2>2 DEF IInv, TypeOK
<1>3. CancellationsExact'
  <2> SUFFICES ASSUME NEW i \in Ids, NEW r \in Requests
               PROVE  cancellations'[i] = r <=> r \in InFlight' /\ call'[r].id = i
    BY DEF CancellationsExact
  <2>0. /\ cancellations[i] = n <=> n \in InFlight /\ call[n].id = i
        /\ cancellations[i] = r <=> r \in InFlight /\ call[r].id = i
        /\ n \notin InFlight
    BY <1>n DEF IInv, CancellationsExact, InFlight
  <2>1. cancellations'[i] = IF i = Head(stdin).id THEN n ELSE cancellations[i]
    BY <1>u DEF Register, HasKey, IInv, TypeOK
  <2>2. i = Head(stdin).id => cancellations[i] = 0
    BY <1>u DEF InUse, HasKey
  <2>3. CASE r = n
    BY <2>0, <2>1, <2>3, <1>d DEF InFlight
  <2>4. CASE r # n
    <3>1. (r \in InFlight' <=> r \in InFlight) /\ call'[r] = call[r]
      BY <2>4, <1>n DEF IInv, TypeOK, InFlight
    <3>2. r # 0
      BY DEF Requests
    <3> QED
      BY <3>1, <3>2, <2>0, <2>1, <2>2, <2>4
  <2> QED
    BY <2>3, <2>4
<1>o. ASSUME NEW v \in Requests, v # n
      PROVE  LinesAtStage(v)' /\ LinesOf(v)' /\ AnsweredAtStage(v)'
  <2>1. sent'[v] = sent[v] /\ stage'[v] = stage[v] /\ call'[v] = call[v]
    BY <1>o, <1>n, <1>u DEF IInv, TypeOK
  <2>2. LinesAtStage(v) /\ LinesOf(v) /\ AnsweredAtStage(v)
    BY DEF IInv, LinesByStage, LinesInOrder, AnsweredByStage
  <2> QED
    BY <2>1, <2>2, <1>n, <1>u, Untouched
<1>q. LinesAtStage(n)' /\ LinesOf(n)' /\ AnsweredAtStage(n)'
  <2>1. sent'[n] = << >> /\ Len(<< >>) = 0
    BY <1>n, <1>u
  <2> QED
    BY <2>1, <1>d DEF LinesAtStage, LinesOf, AnsweredAtStage
<1>4. LinesByStage'
  BY <1>o, <1>q DEF LinesByStage
<1>5. LinesInOrder'
  BY <1>o, <1>q DEF LinesInOrder
<1>6. AnsweredByStage'
  BY <1>o, <1>q DEF AnsweredByStage
<1>7. AnswersHeld'
  BY <1>n, <1>u DEF IInv, TypeOK, AnswersHeld
<1>8. ReturnedIsQuiet'
  BY <1>u DEF IInv, ReturnedIsQuiet
<1> QED
  BY <1>1, <1>2, <1>3, <1>4, <1>5, <1>6, <1>7, <1>8 DEF IInv

(* A request that is refused gets one line, the refusal. *)
LEMMA ReadDuplicateKeeps ==
  ASSUME IInv, ReadDuplicate
  PROVE  IInv'
<1>a. Head(stdin) \in Line /\ Tail(stdin) \in Seq(Line)
  BY HeadOfStdin DEF IInv, Reading, ReadDuplicate
<1>b. Next1 \in Requests
  BY BoundsAssumption DEF IInv, TypeOK, ReadDuplicate, TakeRequest, Next1, Requests
<1> PICK n \in Requests : n = Next1
  BY <1>b
<1>n. /\ n = count + 1 /\ count' = n
      /\ stage[n] = "none" /\ sent[n] = << >>
      /\ stage' = [stage EXCEPT ![n] = "rejected"]
      /\ call' = [call EXCEPT ![n] = Head(stdin)]
      /\ stdin' = Tail(stdin)
  BY BoundsAssumption
  DEF IInv, TypeOK, Numbered, LinesByStage, LinesAtStage, ReadDuplicate, TakeRequest, Next1, Requests
<1>d. stage'[n] = "rejected" /\ call'[n] = Head(stdin)
  BY <1>n DEF IInv, TypeOK
<1>2. Numbered'
  BY <1>n DEF IInv, TypeOK, Numbered, Requests
<1>i. Head(stdin).id \in Ids /\ Head(stdin).id # NoId
  BY IdsAssumption DEF ReadDuplicate, InUse, HasKey
<1>u. /\ WriteFor(n, Head(stdin).id, "error")
      /\ UNCHANGED <<stdinOpen, answer, cancelled, cancellations, serve, returned>>
      /\ serve = "reading"
  BY DEF ReadDuplicate, Reading
<1>s. "error" \in Kinds /\ Head(stdin).id \in AnyId
  BY <1>i DEF Kinds, AnyId
<1>e. /\ stdout' \in Seq([id : AnyId, kind : Kinds])
      /\ writer' \in {"sound", "broken", "failed"}
      /\ writer = "failed" => writer' = "failed"
      /\ writer # "sound" => writer' = "failed" /\ sent' = sent
      /\ sent' \in [Requests -> Seq(Kinds)]
      /\ Len(sent[n]) \in Nat
      /\ \A v \in Requests : v # n => sent'[v] = sent[v]
      /\ writer = "sound" =>
           /\ Len(sent'[n]) = Len(sent[n]) + 1
           /\ \A k \in 1..Len(sent[n]) : sent'[n][k] = sent[n][k]
           /\ sent'[n][Len(sent[n]) + 1] = "error"
  <2>1. TypeOK /\ WriteFor(n, Head(stdin).id, "error")
    BY <1>u DEF IInv
  <2>2. writer \in {"sound", "broken", "failed"}
    BY DEF IInv, TypeOK
  <2>3. PICK id \in AnyId : id = Head(stdin).id
    BY <1>s
  <2>4. WriteFor(n, id, "error") /\ "error" \in Kinds /\ TypeOK
    BY <2>1, <2>3, <1>s
  <2>5. /\ stdout' \in Seq([id : AnyId, kind : Kinds])
        /\ writer' = IF writer = "sound" THEN "sound" ELSE "failed"
    BY <2>4, WriteForEffect
  <2>7. /\ sent' \in [Requests -> Seq(Kinds)]
        /\ \A v \in Requests : v # n => sent'[v] = sent[v]
    BY <2>4, WriteForEffect
  <2>6. /\ Len(sent[n]) \in Nat
        /\ writer # "sound" => sent' = sent
        /\ writer = "sound" =>
             /\ Len(sent'[n]) = Len(sent[n]) + 1
             /\ \A k \in 1..Len(sent[n]) : sent'[n][k] = sent[n][k]
             /\ sent'[n][Len(sent[n]) + 1] = "error"
    BY <2>4, WriteForEffect
  <2> QED
    BY <2>2, <2>5, <2>6, <2>7
<1>1. TypeOK'
  <2>1. stage' \in [Requests -> {"none", "running", "returned", "reported",
                                 "answered", "done", "rejected"}]
    BY <1>n DEF IInv, TypeOK
  <2>2. call' \in [Requests -> Line] /\ count' \in 0..MaxRequests
    BY <1>a, <1>n DEF IInv, TypeOK, Requests
  <2> QED
    BY <1>a, <1>n, <1>u, <1>e, <2>1, <2>2 DEF IInv, TypeOK
<1>3. CancellationsExact'
  <2> SUFFICES ASSUME NEW i \in Ids, NEW r \in Requests
               PROVE  cancellations'[i] = r <=> r \in InFlight' /\ call'[r].id = i
    BY DEF CancellationsExact
  <2>1. cancellations[i] = r <=> r \in InFlight /\ call[r].id = i
    BY DEF IInv, CancellationsExact
  <2>2. CASE r = n
    BY <2>1, <2>2, <1>d, <1>n, <1>u DEF InFlight
  <2>3. CASE r # n
    <3>1. (r \in InFlight' <=> r \in InFlight) /\ call'[r] = call[r]
      BY <2>3, <1>n DEF IInv, TypeOK, InFlight
    <3> QED
      BY <3>1, <2>1, <1>u
  <2> QED
    BY <2>2, <2>3
<1>o. ASSUME NEW v \in Requests, v # n
      PROVE  LinesAtStage(v)' /\ LinesOf(v)' /\ AnsweredAtStage(v)'
  <2>1. sent'[v] = sent[v] /\ stage'[v] = stage[v] /\ call'[v] = call[v]
    BY <1>o, <1>n, <1>e DEF IInv, TypeOK
  <2>2. LinesAtStage(v) /\ LinesOf(v) /\ AnsweredAtStage(v)
    BY DEF IInv, LinesByStage, LinesInOrder, AnsweredByStage
  <2> QED
    BY <2>1, <2>2, <1>n, <1>e, Untouched
<1>q. LinesAtStage(n)' /\ LinesOf(n)' /\ AnsweredAtStage(n)'
  <2>1. writer = "sound" => Len(sent'[n]) = 1 /\ sent'[n][1] = "error"
    BY <1>n, <1>e
  <2>2. writer # "sound" => writer' = "failed" /\ Len(sent'[n]) = 0
    <3>1. Len(<< >>) = 0
      OBVIOUS
    <3> QED
      BY <3>1, <1>n, <1>e
  <2>3. LinesAtStage(n)'
    BY <1>d DEF LinesAtStage
  <2>4. LinesOf(n)'
    <3>1. \A k \in 1..Len(sent'[n]) : k = Len(sent'[n]) /\ sent'[n][k] = "error"
      <4>1. CASE writer = "sound"
        <5>1. Len(sent'[n]) = 1 /\ sent'[n][1] = "error"
          BY <4>1, <2>1
        <5> QED
          BY <5>1
      <4>2. CASE writer # "sound"
        BY <4>2, <2>2
      <4> QED
        BY <4>1, <4>2
    <3>2. WantsResponse(n)'
      BY <1>d, <1>i DEF WantsResponse
    <3> QED
      BY <3>1, <3>2 DEF LinesOf, IsAnswer, Answers
  <2>5. AnsweredAtStage(n)'
    <3>1. writer = "sound" => Answered(n)'
      <4>1. writer = "sound" => 1 \in 1..Len(sent'[n]) /\ sent'[n][1] \in Answers
        BY <2>1 DEF Answers
      <4> QED
        BY <4>1 DEF Answered, IsAnswer
    <3> QED
      BY <3>1, <2>2 DEF AnsweredAtStage
  <2> QED
    BY <2>3, <2>4, <2>5
<1>4. LinesByStage'
  BY <1>o, <1>q DEF LinesByStage
<1>5. LinesInOrder'
  BY <1>o, <1>q DEF LinesInOrder
<1>6. AnsweredByStage'
  BY <1>o, <1>q DEF AnsweredByStage
<1>7. AnswersHeld'
  BY <1>n, <1>u DEF IInv, TypeOK, AnswersHeld
<1>8. ReturnedIsQuiet'
  BY <1>u DEF IInv, ReturnedIsQuiet
<1> QED
  BY <1>1, <1>2, <1>3, <1>4, <1>5, <1>6, <1>7, <1>8 DEF IInv

(* The end of input changes only where Serve stands. *)
LEMMA ReadEndKeeps ==
  ASSUME IInv, ReadEnd
  PROVE  IInv'
<1>1. TypeOK'
  BY DEF IInv, TypeOK, Requests, ReadEnd, sinkVars
<1>2. Numbered'
  BY DEF IInv, TypeOK, Numbered, Requests, ReadEnd, sinkVars
<1>3. CancellationsExact'
  BY DEF IInv, TypeOK, CancellationsExact, InFlight, ReadEnd, sinkVars
<1>4. LinesByStage'
  BY DEF IInv, TypeOK, LinesByStage, LinesAtStage, WantsResponse, ReadEnd, sinkVars
<1>5. LinesInOrder'
  BY DEF IInv, TypeOK, LinesInOrder, LinesOf, WantsResponse, IsAnswer, Answers, ReadEnd,
        sinkVars
<1>6. AnsweredByStage'
  BY DEF IInv, TypeOK, AnsweredByStage, AnsweredAtStage, Answered, WantsResponse, ReadEnd,
        sinkVars
<1>7. AnswersHeld'
  BY DEF IInv, TypeOK, AnswersHeld, ReadEnd, sinkVars
<1>8. ReturnedIsQuiet'
  BY DEF IInv, TypeOK, ReturnedIsQuiet, InFlight, ReadEnd, sinkVars
<1> QED
  BY <1>1, <1>2, <1>3, <1>4, <1>5, <1>6, <1>7, <1>8 DEF IInv

(* A scanner error cancels requests that are registered. *)
LEMMA ReadOversizedKeeps ==
  ASSUME IInv, ReadOversized
  PROVE  IInv'
<1>1. TypeOK'
  BY DEF IInv, TypeOK, Requests, ReadOversized, Reading, sinkVars
<1>2. Numbered'
  BY DEF IInv, TypeOK, Numbered, Requests, ReadOversized, Reading, sinkVars
<1>3. CancellationsExact'
  BY DEF IInv, TypeOK, CancellationsExact, InFlight, ReadOversized, Reading, sinkVars
<1>4. LinesByStage'
  BY DEF IInv, TypeOK, LinesByStage, LinesAtStage, WantsResponse, ReadOversized, Reading,
        sinkVars
<1>5. LinesInOrder'
  BY DEF IInv, TypeOK, LinesInOrder, LinesOf, WantsResponse, IsAnswer, Answers,
        ReadOversized, Reading, sinkVars
<1>6. AnsweredByStage'
  BY DEF IInv, TypeOK, AnsweredByStage, AnsweredAtStage, Answered, WantsResponse,
        ReadOversized, Reading, sinkVars
<1>7. AnswersHeld'
  BY DEF IInv, TypeOK, AnswersHeld, ReadOversized, Reading, sinkVars
<1>8. ReturnedIsQuiet'
  BY DEF IInv, TypeOK, ReturnedIsQuiet, InFlight, ReadOversized, Reading, sinkVars
<1> QED
  BY <1>1, <1>2, <1>3, <1>4, <1>5, <1>6, <1>7, <1>8 DEF IInv

(* Serve returns when no request is in flight. *)
LEMMA ReturnKeeps ==
  ASSUME IInv, Return
  PROVE  IInv'
<1>1. TypeOK'
  BY DEF IInv, TypeOK, Requests, Return, sinkVars
<1>2. Numbered'
  BY DEF IInv, TypeOK, Numbered, Requests, Return, sinkVars
<1>3. CancellationsExact'
  BY DEF IInv, TypeOK, CancellationsExact, InFlight, Return, sinkVars
<1>4. LinesByStage'
  BY DEF IInv, TypeOK, LinesByStage, LinesAtStage, WantsResponse, Return, sinkVars
<1>5. LinesInOrder'
  BY DEF IInv, TypeOK, LinesInOrder, LinesOf, WantsResponse, IsAnswer, Answers, Return,
        sinkVars
<1>6. AnsweredByStage'
  BY DEF IInv, TypeOK, AnsweredByStage, AnsweredAtStage, Answered, WantsResponse, Return,
        sinkVars
<1>7. AnswersHeld'
  BY DEF IInv, TypeOK, AnswersHeld, Return, sinkVars
<1>8. ReturnedIsQuiet'
  BY DEF IInv, TypeOK, ReturnedIsQuiet, InFlight, Return, sinkVars
<1> QED
  BY <1>1, <1>2, <1>3, <1>4, <1>5, <1>6, <1>7, <1>8 DEF IInv

(* Progress is written while the search runs. *)
LEMMA ReportKeeps ==
  ASSUME NEW q \in Requests, IInv, Report(q)
  PROVE  IInv'
<1>u. /\ UNCHANGED <<stdin, stdinOpen, count, call, cancelled, cancellations, serve, returned>>
      /\ UNCHANGED <<stage, answer>>
      /\ stage[q] = "running" /\ WantsResponse(q)
      /\ WriteFor(q, call[q].id, "progress")
  BY DEF Report, handlerVars
<1>k. "progress" \in Kinds /\ call[q].id \in AnyId
  BY DEF Kinds, IInv, TypeOK, Line
<1>e. /\ stdout' \in Seq([id : AnyId, kind : Kinds])
      /\ writer' \in {"sound", "broken", "failed"}
      /\ writer = "failed" => writer' = "failed"
      /\ writer # "sound" => writer' = "failed" /\ sent' = sent
      /\ sent' \in [Requests -> Seq(Kinds)]
      /\ Len(sent[q]) \in Nat
      /\ \A v \in Requests : v # q => sent'[v] = sent[v]
      /\ writer = "sound" =>
           /\ Len(sent'[q]) = Len(sent[q]) + 1
           /\ \A k \in 1..Len(sent[q]) : sent'[q][k] = sent[q][k]
           /\ sent'[q][Len(sent[q]) + 1] = "progress"
  <2>1. TypeOK
    BY DEF IInv
  <2>2. writer \in {"sound", "broken", "failed"}
    BY DEF IInv, TypeOK
  <2> QED
    BY <2>1, <2>2, <1>u, <1>k, WriteForEffect
<1>1. TypeOK'
  BY <1>u, <1>e DEF IInv, TypeOK
<1>2. Numbered'
  BY <1>u DEF IInv, Numbered
<1>3. CancellationsExact'
  BY <1>u DEF IInv, CancellationsExact, InFlight
<1>o. ASSUME NEW v \in Requests, v # q
      PROVE  LinesAtStage(v)' /\ LinesOf(v)' /\ AnsweredAtStage(v)'
  <2>1. sent'[v] = sent[v] /\ stage'[v] = stage[v] /\ call'[v] = call[v]
    BY <1>o, <1>u, <1>e DEF IInv, TypeOK
  <2>2. LinesAtStage(v) /\ LinesOf(v) /\ AnsweredAtStage(v)
    BY DEF IInv, LinesByStage, LinesInOrder, AnsweredByStage
  <2> QED
    BY <2>1, <2>2, <1>u, <1>e, Untouched
<1>q. LinesAtStage(q)' /\ LinesOf(q)' /\ AnsweredAtStage(q)'
  <2>1. \A k \in 1..Len(sent[q]) : sent[q][k] = "progress"
    BY <1>u DEF IInv, LinesByStage, LinesAtStage
  <2>2. \A k \in 1..Len(sent'[q]) : sent'[q][k] = "progress"
    BY <2>1, <1>e
  <2> QED
    BY <2>2, <1>u
    DEF LinesAtStage, LinesOf, AnsweredAtStage, WantsResponse, IsAnswer, Answers
<1>4. LinesByStage'
  BY <1>o, <1>q DEF LinesByStage
<1>5. LinesInOrder'
  BY <1>o, <1>q DEF LinesInOrder
<1>6. AnsweredByStage'
  BY <1>o, <1>q DEF AnsweredByStage
<1>7. AnswersHeld'
  BY <1>u DEF IInv, AnswersHeld
<1>8. ReturnedIsQuiet'
  BY <1>u, <1>e DEF IInv, ReturnedIsQuiet, InFlight
<1> QED
  BY <1>1, <1>2, <1>3, <1>4, <1>5, <1>6, <1>7, <1>8 DEF IInv

(* A handler that returns holds its answer. *)
LEMMA HandlerReturnsKeeps ==
  ASSUME NEW q \in Requests, IInv, HandlerReturns(q)
  PROVE  IInv'
<1>1. TypeOK'
  BY DEF IInv, TypeOK, Requests, HandlerReturns, handlerVars, sinkVars
<1>2. Numbered'
  BY DEF IInv, TypeOK, Numbered, Requests, HandlerReturns, handlerVars, sinkVars
<1>3. CancellationsExact'
  BY DEF IInv, TypeOK, CancellationsExact, InFlight, HandlerReturns, handlerVars, sinkVars
<1>4. LinesByStage'
  BY DEF IInv, TypeOK, LinesByStage, LinesAtStage, WantsResponse, HandlerReturns,
        handlerVars, sinkVars
<1>5. LinesInOrder'
  BY DEF IInv, TypeOK, LinesInOrder, LinesOf, WantsResponse, IsAnswer, Answers,
        HandlerReturns, handlerVars, sinkVars
<1>6. AnsweredByStage'
  BY DEF IInv, TypeOK, AnsweredByStage, AnsweredAtStage, Answered, WantsResponse,
        HandlerReturns, handlerVars, sinkVars
<1>7. AnswersHeld'
  BY DEF IInv, TypeOK, AnswersHeld, HandlerReturns, handlerVars, sinkVars
<1>8. ReturnedIsQuiet'
  BY DEF IInv, TypeOK, ReturnedIsQuiet, InFlight, HandlerReturns, handlerVars, sinkVars
<1> QED
  BY <1>1, <1>2, <1>3, <1>4, <1>5, <1>6, <1>7, <1>8 DEF IInv

(* The final progress of a search. *)
LEMMA ReportDoneKeeps ==
  ASSUME NEW q \in Requests, IInv, ReportDone(q)
  PROVE  IInv'
<1>u. /\ UNCHANGED <<stdin, stdinOpen, count, call, cancelled, cancellations, serve, returned>>
      /\ stage' = [stage EXCEPT ![q] = "reported"]
      /\ UNCHANGED answer
      /\ stage[q] = "returned" /\ call[q].search
  BY DEF ReportDone, handlerVars
<1>d. /\ stage'[q] = "reported"
      /\ stage' \in [Requests -> {"none", "running", "returned", "reported",
                                 "answered", "done", "rejected"}]
      /\ InFlight' = InFlight /\ q \in InFlight
  BY <1>u DEF IInv, TypeOK, InFlight
<1>k. "done" \in Kinds /\ call[q].id \in AnyId
  BY DEF Kinds, IInv, TypeOK, Line
<1>x. WantsResponse(q) => WriteFor(q, call[q].id, "done")
  BY DEF ReportDone
<1>y. ~WantsResponse(q) => UNCHANGED <<stdout, writer, sent>>
  BY DEF ReportDone, sinkVars
<1>t. /\ TypeOK
      /\ writer \in {"sound", "broken", "failed"}
      /\ sent \in [Requests -> Seq(Kinds)]
      /\ stdout \in Seq([id : AnyId, kind : Kinds])
      /\ Len(sent[q]) \in Nat
  BY DEF IInv, TypeOK
<1>e. /\ stdout' \in Seq([id : AnyId, kind : Kinds])
      /\ writer' \in {"sound", "broken", "failed"}
      /\ writer = "failed" => writer' = "failed"
      /\ sent' \in [Requests -> Seq(Kinds)]
      /\ \A v \in Requests : v # q => sent'[v] = sent[v]
  <2>1. CASE WantsResponse(q)
    BY <1>x, <1>k, <1>t, <2>1, WriteForEffect
  <2>2. CASE ~WantsResponse(q)
    BY <1>y, <1>t, <2>2
  <2> QED
    BY <2>1, <2>2
<1>f. /\ WantsResponse(q) /\ writer # "sound" => writer' = "failed" /\ sent' = sent
      /\ WantsResponse(q) /\ writer = "sound" =>
           /\ Len(sent'[q]) = Len(sent[q]) + 1
           /\ \A k \in 1..Len(sent[q]) : sent'[q][k] = sent[q][k]
           /\ sent'[q][Len(sent[q]) + 1] = "done"
  BY <1>x, <1>k, <1>t, WriteForEffect
<1>1. TypeOK'
  BY <1>u, <1>d, <1>e, <1>t DEF TypeOK
<1>2. Numbered'
  BY <1>u, <1>d, <1>t DEF IInv, TypeOK, Numbered, InFlight
<1>3. CancellationsExact'
  BY <1>u, <1>d DEF IInv, CancellationsExact
<1>o. ASSUME NEW v \in Requests, v # q
      PROVE  LinesAtStage(v)' /\ LinesOf(v)' /\ AnsweredAtStage(v)'
  <2>1. sent'[v] = sent[v] /\ stage'[v] = stage[v] /\ call'[v] = call[v]
    BY <1>o, <1>u, <1>e DEF IInv, TypeOK
  <2>2. LinesAtStage(v) /\ LinesOf(v) /\ AnsweredAtStage(v)
    BY DEF IInv, LinesByStage, LinesInOrder, AnsweredByStage
  <2> QED
    BY <2>1, <2>2, <1>u, <1>e, Untouched
<1>q. LinesAtStage(q)' /\ LinesOf(q)' /\ AnsweredAtStage(q)'
  <2>1. \A k \in 1..Len(sent[q]) : sent[q][k] = "progress"
    BY <1>u DEF IInv, LinesByStage, LinesAtStage
  <2>2. CASE WantsResponse(q) /\ writer = "sound"
    <3>1. /\ Len(sent'[q]) = Len(sent[q]) + 1
          /\ \A k \in 1..Len(sent[q]) : sent'[q][k] = "progress"
          /\ sent'[q][Len(sent'[q])] = "done"
          /\ sent'[q] # << >>
      BY <2>1, <2>2, <1>f, <1>t
    <3>2. LinesAtStage(q)'
      BY <3>1, <1>d, <1>t DEF LinesAtStage
    <3>3. LinesOf(q)'
      BY <3>1, <2>2, <1>u, <1>t DEF LinesOf, WantsResponse, IsAnswer, Answers
    <3>4. AnsweredAtStage(q)'
      BY <1>d DEF AnsweredAtStage
    <3> QED
      BY <3>2, <3>3, <3>4
  <2>3. CASE WantsResponse(q) /\ writer # "sound"
    BY <2>1, <2>3, <1>f, <1>d, <1>u
    DEF LinesAtStage, LinesOf, AnsweredAtStage, WantsResponse, IsAnswer, Answers
  <2>9. CASE ~WantsResponse(q)
    <3>1. Len(sent[q]) = 0 /\ sent' = sent
      <4>1. \A k \in 1..Len(sent[q]) : WantsResponse(q)
        BY DEF IInv, LinesInOrder, LinesOf
      <4> QED
        BY <4>1, <2>9, <1>y, <1>t
    <3> QED
      BY <3>1, <2>9, <1>d, <1>u
      DEF LinesAtStage, LinesOf, AnsweredAtStage, WantsResponse
  <2> QED
    BY <2>2, <2>3, <2>9
<1>4. LinesByStage'
  BY <1>o, <1>q DEF LinesByStage
<1>5. LinesInOrder'
  BY <1>o, <1>q DEF LinesInOrder
<1>6. AnsweredByStage'
  BY <1>o, <1>q DEF AnsweredByStage
<1>7. AnswersHeld'
  BY <1>u, <1>d DEF IInv, TypeOK, AnswersHeld
<1>8. ReturnedIsQuiet'
  BY <1>u, <1>d DEF IInv, ReturnedIsQuiet
<1> QED
  BY <1>1, <1>2, <1>3, <1>4, <1>5, <1>6, <1>7, <1>8 DEF IInv

(* The answer is the last line of its request. *)
LEMMA RespondKeeps ==
  ASSUME NEW q \in Requests, IInv, Respond(q)
  PROVE  IInv'
<1>u. /\ UNCHANGED <<stdin, stdinOpen, count, call, cancelled, cancellations, serve, returned>>
      /\ stage' = [stage EXCEPT ![q] = "answered"]
      /\ answer' = [answer EXCEPT ![q] = "none"]
      /\ stage[q] = IF call[q].search THEN "reported" ELSE "returned"
  BY DEF Respond, handlerVars
<1>d. /\ stage'[q] = "answered"
      /\ stage' \in [Requests -> {"none", "running", "returned", "reported",
                                 "answered", "done", "rejected"}]
      /\ InFlight' = InFlight /\ q \in InFlight
  BY <1>u DEF IInv, TypeOK, InFlight
<1>k. answer[q] \in Kinds /\ call[q].id \in AnyId
  BY <1>u DEF Kinds, Answers, IInv, AnswersHeld, TypeOK, Line
<1>x. WantsResponse(q) => WriteFor(q, call[q].id, answer[q])
  BY DEF Respond
<1>y. ~WantsResponse(q) => UNCHANGED <<stdout, writer, sent>>
  BY DEF Respond, sinkVars
<1>t. /\ TypeOK
      /\ writer \in {"sound", "broken", "failed"}
      /\ sent \in [Requests -> Seq(Kinds)]
      /\ stdout \in Seq([id : AnyId, kind : Kinds])
      /\ Len(sent[q]) \in Nat
  BY DEF IInv, TypeOK
<1>e. /\ stdout' \in Seq([id : AnyId, kind : Kinds])
      /\ writer' \in {"sound", "broken", "failed"}
      /\ writer = "failed" => writer' = "failed"
      /\ sent' \in [Requests -> Seq(Kinds)]
      /\ \A v \in Requests : v # q => sent'[v] = sent[v]
  <2>1. CASE WantsResponse(q)
    BY <1>x, <1>k, <1>t, <2>1, WriteForEffect
  <2>2. CASE ~WantsResponse(q)
    BY <1>y, <1>t, <2>2
  <2> QED
    BY <2>1, <2>2
<1>f. /\ WantsResponse(q) /\ writer # "sound" => writer' = "failed" /\ sent' = sent
      /\ WantsResponse(q) /\ writer = "sound" =>
           /\ Len(sent'[q]) = Len(sent[q]) + 1
           /\ \A k \in 1..Len(sent[q]) : sent'[q][k] = sent[q][k]
           /\ sent'[q][Len(sent[q]) + 1] = answer[q]
  BY <1>x, <1>k, <1>t, WriteForEffect
<1>1. TypeOK'
  BY <1>u, <1>d, <1>e, <1>t DEF Answers, TypeOK
<1>2. Numbered'
  BY <1>u, <1>d, <1>t DEF IInv, TypeOK, Numbered, InFlight
<1>3. CancellationsExact'
  BY <1>u, <1>d DEF IInv, CancellationsExact
<1>o. ASSUME NEW v \in Requests, v # q
      PROVE  LinesAtStage(v)' /\ LinesOf(v)' /\ AnsweredAtStage(v)'
  <2>1. sent'[v] = sent[v] /\ stage'[v] = stage[v] /\ call'[v] = call[v]
    BY <1>o, <1>u, <1>e DEF IInv, TypeOK
  <2>2. LinesAtStage(v) /\ LinesOf(v) /\ AnsweredAtStage(v)
    BY DEF IInv, LinesByStage, LinesInOrder, AnsweredByStage
  <2> QED
    BY <2>1, <2>2, <1>u, <1>e, Untouched
<1>q. LinesAtStage(q)' /\ LinesOf(q)' /\ AnsweredAtStage(q)'
  <2>0. answer[q] \in Answers
    BY <1>u DEF IInv, AnswersHeld
  <2>1. \A k \in 1..Len(sent[q]) :
           sent[q][k] = "progress" \/ (sent[q][k] = "done" /\ k = Len(sent[q]))
    BY <1>u DEF IInv, LinesByStage, LinesAtStage
  <2>2. CASE WantsResponse(q) /\ writer = "sound"
    <3>1. call[q].search => sent[q] # << >> /\ sent[q][Len(sent[q])] = "done"
      BY <2>2, <1>u DEF IInv, LinesByStage, LinesAtStage
    <3>2. sent[q] # << >> => Len(sent[q]) > 0
      BY <1>t
    <3>3. /\ Len(sent'[q]) = Len(sent[q]) + 1
          /\ \A k \in 1..Len(sent[q]) :
                sent'[q][k] = "progress" \/ (sent'[q][k] = "done" /\ k = Len(sent[q]))
          /\ sent'[q][Len(sent'[q])] \in Answers
          /\ call[q].search => Len(sent[q]) > 0 /\ sent'[q][Len(sent[q])] = "done"
      BY <2>0, <2>1, <2>2, <3>1, <3>2, <1>f, <1>t
    <3>4. LinesAtStage(q)'
      BY <1>d DEF LinesAtStage
    <3>5. LinesOf(q)'
      BY <3>3, <2>2, <1>u, <1>t DEF LinesOf, WantsResponse, IsAnswer, Answers
    <3>6. AnsweredAtStage(q)'
      BY <3>3, <1>t DEF AnsweredAtStage, Answered, IsAnswer
    <3> QED
      BY <3>4, <3>5, <3>6
  <2>3. CASE WantsResponse(q) /\ writer # "sound"
    BY <2>1, <2>3, <1>f, <1>d, <1>u, <1>t
    DEF LinesAtStage, LinesOf, AnsweredAtStage, WantsResponse, IsAnswer, Answers
  <2>9. CASE ~WantsResponse(q)
    <3>1. Len(sent[q]) = 0 /\ sent' = sent
      <4>1. \A k \in 1..Len(sent[q]) : WantsResponse(q)
        BY DEF IInv, LinesInOrder, LinesOf
      <4> QED
        BY <4>1, <2>9, <1>y, <1>t
    <3> QED
      BY <3>1, <2>9, <1>d, <1>u
      DEF LinesAtStage, LinesOf, AnsweredAtStage, WantsResponse
  <2> QED
    BY <2>2, <2>3, <2>9
<1>4. LinesByStage'
  BY <1>o, <1>q DEF LinesByStage
<1>5. LinesInOrder'
  BY <1>o, <1>q DEF LinesInOrder
<1>6. AnsweredByStage'
  BY <1>o, <1>q DEF AnsweredByStage
<1>7. AnswersHeld'
  BY <1>u, <1>d DEF IInv, TypeOK, AnswersHeld
<1>8. ReturnedIsQuiet'
  BY <1>u, <1>d DEF IInv, ReturnedIsQuiet
<1> QED
  BY <1>1, <1>2, <1>3, <1>4, <1>5, <1>6, <1>7, <1>8 DEF IInv

(* A request that ends removes its own entry. *)
LEMMA FinishRequestKeeps ==
  ASSUME NEW q \in Requests, IInv, FinishRequest(q)
  PROVE  IInv'
<1>1. TypeOK'
  BY DEF IInv, TypeOK, Requests, FinishRequest, HasKey, handlerVars, sinkVars
<1>2. Numbered'
  BY DEF IInv, TypeOK, Numbered, Requests, FinishRequest, HasKey, handlerVars, sinkVars
<1>3. CancellationsExact'
  <2> SUFFICES ASSUME NEW i \in Ids, NEW r \in Requests
               PROVE  cancellations'[i] = r <=> r \in InFlight' /\ call'[r].id = i
    BY DEF CancellationsExact
  <2>0. /\ cancellations[i] = r <=> r \in InFlight /\ call[r].id = i
        /\ cancellations[i] = q <=> q \in InFlight /\ call[q].id = i
        /\ q \in InFlight /\ r # 0
    BY DEF IInv, CancellationsExact, FinishRequest, InFlight, Requests
  <2>1. cancellations'[i] = IF i = call[q].id THEN 0 ELSE cancellations[i]
    BY DEF FinishRequest, HasKey, IInv, TypeOK
  <2>2. (r \in InFlight' <=> r \in InFlight /\ r # q) /\ call' = call
    BY DEF FinishRequest, handlerVars, InFlight, IInv, TypeOK
  <2> QED
    BY <2>0, <2>1, <2>2
<1>4. LinesByStage'
  BY DEF IInv, TypeOK, LinesByStage, LinesAtStage, WantsResponse, FinishRequest, HasKey,
        handlerVars, sinkVars
<1>5. LinesInOrder'
  BY DEF IInv, TypeOK, LinesInOrder, LinesOf, WantsResponse, IsAnswer, Answers,
        FinishRequest, HasKey, handlerVars, sinkVars
<1>6. AnsweredByStage'
  BY DEF IInv, TypeOK, AnsweredByStage, AnsweredAtStage, Answered, WantsResponse,
        FinishRequest, HasKey, handlerVars, sinkVars
<1>7. AnswersHeld'
  BY DEF IInv, TypeOK, AnswersHeld, FinishRequest, HasKey, handlerVars, sinkVars
<1>8. ReturnedIsQuiet'
  BY DEF IInv, TypeOK, ReturnedIsQuiet, InFlight, FinishRequest, HasKey, handlerVars,
        sinkVars
<1> QED
  BY <1>1, <1>2, <1>3, <1>4, <1>5, <1>6, <1>7, <1>8 DEF IInv

(* The peer sends lines. *)
LEMMA PeerSendsKeeps ==
  ASSUME IInv, PeerSends
  PROVE  IInv'
<1>1. TypeOK'
  <2>1. PICK m \in PeerLines : stdin' = Append(stdin, m)
    BY DEF PeerSends
  <2>2. m \in Line
    <3>1. /\ \A id \in AnyId, search \in BOOLEAN : Request(id, search) \in Line
          /\ \A id \in AnyId : CancelRequest(id) \in Line
      BY DEF Line, Request, CancelRequest
    <3>2. Junk \in Line /\ Oversized \in Line
      BY DEF Line, Junk, Oversized, AnyId
    <3>3. Ids \cup {NullId} \subseteq AnyId
      BY DEF AnyId
    <3> DEFINE Calls == {Request(id, FALSE) : id \in AnyId}
               Searches == {Request(id, TRUE) : id \in Ids \cup {NullId}}
               Cancels == {CancelRequest(id) : id \in Ids}
    <3>4. Calls \subseteq Line
      BY <3>1
    <3>5. Searches \subseteq Line
      BY <3>1, <3>3
    <3>6. Cancels \subseteq Line
      BY <3>1, <3>3
    <3>7. PeerLines = Calls \cup Searches \cup Cancels \cup {Junk, Oversized}
      BY DEF PeerLines
    <3> HIDE DEF Calls, Searches, Cancels
    <3> QED
      BY <2>1, <3>2, <3>4, <3>5, <3>6, <3>7
  <2>3. stdin' \in Seq(Line)
    BY <2>1, <2>2, Appended DEF IInv, TypeOK
  <2> QED
    BY <2>3 DEF IInv, TypeOK, PeerSends, peerOnly
<1>2. Numbered'
  BY DEF IInv, TypeOK, Numbered, Requests, PeerSends, peerOnly
<1>3. CancellationsExact'
  BY DEF IInv, TypeOK, CancellationsExact, InFlight, PeerSends, peerOnly
<1>4. LinesByStage'
  BY DEF IInv, TypeOK, LinesByStage, LinesAtStage, WantsResponse, PeerSends, peerOnly
<1>5. LinesInOrder'
  BY DEF IInv, TypeOK, LinesInOrder, LinesOf, WantsResponse, IsAnswer, Answers, PeerSends,
        peerOnly
<1>6. AnsweredByStage'
  BY DEF IInv, TypeOK, AnsweredByStage, AnsweredAtStage, Answered, WantsResponse,
        PeerSends, peerOnly
<1>7. AnswersHeld'
  BY DEF IInv, TypeOK, AnswersHeld, PeerSends, peerOnly
<1>8. ReturnedIsQuiet'
  BY DEF IInv, TypeOK, ReturnedIsQuiet, InFlight, PeerSends, peerOnly
<1> QED
  BY <1>1, <1>2, <1>3, <1>4, <1>5, <1>6, <1>7, <1>8 DEF IInv

(* The peer closes the input. *)
LEMMA PeerClosesKeeps ==
  ASSUME IInv, PeerCloses
  PROVE  IInv'
<1>1. TypeOK'
  BY DEF IInv, TypeOK, Requests, PeerCloses, peerOnly
<1>2. Numbered'
  BY DEF IInv, TypeOK, Numbered, Requests, PeerCloses, peerOnly
<1>3. CancellationsExact'
  BY DEF IInv, TypeOK, CancellationsExact, InFlight, PeerCloses, peerOnly
<1>4. LinesByStage'
  BY DEF IInv, TypeOK, LinesByStage, LinesAtStage, WantsResponse, PeerCloses, peerOnly
<1>5. LinesInOrder'
  BY DEF IInv, TypeOK, LinesInOrder, LinesOf, WantsResponse, IsAnswer, Answers,
        PeerCloses, peerOnly
<1>6. AnsweredByStage'
  BY DEF IInv, TypeOK, AnsweredByStage, AnsweredAtStage, Answered, WantsResponse,
        PeerCloses, peerOnly
<1>7. AnswersHeld'
  BY DEF IInv, TypeOK, AnswersHeld, PeerCloses, peerOnly
<1>8. ReturnedIsQuiet'
  BY DEF IInv, TypeOK, ReturnedIsQuiet, InFlight, PeerCloses, peerOnly
<1> QED
  BY <1>1, <1>2, <1>3, <1>4, <1>5, <1>6, <1>7, <1>8 DEF IInv

(* The peer reads a line. *)
LEMMA PeerReadsKeeps ==
  ASSUME IInv, PeerReads
  PROVE  IInv'
<1>1. TypeOK'
  BY DEF IInv, TypeOK, Requests, PeerReads, peerOnly
<1>2. Numbered'
  BY DEF IInv, TypeOK, Numbered, Requests, PeerReads, peerOnly
<1>3. CancellationsExact'
  BY DEF IInv, TypeOK, CancellationsExact, InFlight, PeerReads, peerOnly
<1>4. LinesByStage'
  BY DEF IInv, TypeOK, LinesByStage, LinesAtStage, WantsResponse, PeerReads, peerOnly
<1>5. LinesInOrder'
  BY DEF IInv, TypeOK, LinesInOrder, LinesOf, WantsResponse, IsAnswer, Answers, PeerReads,
        peerOnly
<1>6. AnsweredByStage'
  BY DEF IInv, TypeOK, AnsweredByStage, AnsweredAtStage, Answered, WantsResponse,
        PeerReads, peerOnly
<1>7. AnswersHeld'
  BY DEF IInv, TypeOK, AnswersHeld, PeerReads, peerOnly
<1>8. ReturnedIsQuiet'
  BY DEF IInv, TypeOK, ReturnedIsQuiet, InFlight, PeerReads, peerOnly
<1> QED
  BY <1>1, <1>2, <1>3, <1>4, <1>5, <1>6, <1>7, <1>8 DEF IInv

(* The output breaks. *)
LEMMA WriterBreaksKeeps ==
  ASSUME IInv, WriterBreaks
  PROVE  IInv'
<1>1. TypeOK'
  BY DEF IInv, TypeOK, Requests, WriterBreaks, peerOnly
<1>2. Numbered'
  BY DEF IInv, TypeOK, Numbered, Requests, WriterBreaks, peerOnly
<1>3. CancellationsExact'
  BY DEF IInv, TypeOK, CancellationsExact, InFlight, WriterBreaks, peerOnly
<1>4. LinesByStage'
  BY DEF IInv, TypeOK, LinesByStage, LinesAtStage, WantsResponse, WriterBreaks, peerOnly
<1>5. LinesInOrder'
  BY DEF IInv, TypeOK, LinesInOrder, LinesOf, WantsResponse, IsAnswer, Answers,
        WriterBreaks, peerOnly
<1>6. AnsweredByStage'
  BY DEF IInv, TypeOK, AnsweredByStage, AnsweredAtStage, Answered, WantsResponse,
        WriterBreaks, peerOnly
<1>7. AnswersHeld'
  BY DEF IInv, TypeOK, AnswersHeld, WriterBreaks, peerOnly
<1>8. ReturnedIsQuiet'
  BY DEF IInv, TypeOK, ReturnedIsQuiet, InFlight, WriterBreaks, peerOnly
<1> QED
  BY <1>1, <1>2, <1>3, <1>4, <1>5, <1>6, <1>7, <1>8 DEF IInv

(* A step that changes nothing. *)
LEMMA StutterKeeps ==
  ASSUME IInv, UNCHANGED vars
  PROVE  IInv'
<1>1. TypeOK' /\ Numbered' /\ CancellationsExact' /\ AnswersHeld' /\ ReturnedIsQuiet'
  BY DEF IInv, TypeOK, Numbered, CancellationsExact, AnswersHeld, ReturnedIsQuiet, InFlight, vars
<1>2. LinesByStage' /\ LinesInOrder' /\ AnsweredByStage'
  <2> SUFFICES ASSUME NEW v \in Requests
               PROVE  LinesAtStage(v)' /\ LinesOf(v)' /\ AnsweredAtStage(v)'
    BY DEF LinesByStage, LinesInOrder, AnsweredByStage
  <2> QED
    BY Untouched DEF IInv, LinesByStage, LinesInOrder, AnsweredByStage, vars
<1> QED
  BY <1>1, <1>2 DEF IInv

(* Every step keeps the invariant. *)
LEMMA NextKeeps ==
  ASSUME IInv, [Next]_vars
  PROVE  IInv'
<1>1. CASE Read
  BY <1>1, ReadJunkKeeps, ReadCancelKeeps, ReadRequestKeeps, ReadDuplicateKeeps,
     ReadEndKeeps, ReadOversizedKeeps, ReturnKeeps DEF Read
<1>2. ASSUME NEW q \in Requests, Handle(q)
      PROVE  IInv'
  BY <1>2, ReportKeeps, HandlerReturnsKeeps, ReportDoneKeeps, RespondKeeps,
     FinishRequestKeeps DEF Handle
<1>3. CASE Peer
  BY <1>3, PeerSendsKeeps, PeerClosesKeeps, PeerReadsKeeps, WriterBreaksKeeps DEF Peer
<1>4. CASE UNCHANGED vars
  BY <1>4, StutterKeeps
<1> QED
  BY <1>1, <1>2, <1>3, <1>4 DEF Next

(* The inductive invariant of the helper, for every id set and every bound. *)
THEOREM Invariant == Spec => []IInv
<1>1. Init => IInv
  BY InitIInv
<1>2. IInv /\ [Next]_vars => IInv'
  BY NextKeeps
<1> QED
  BY <1>1, <1>2, PTL DEF Spec

(* The cancellation map is exact in every reachable state. *)
THEOREM MapIsExact == Spec => []CancellationsExact
<1>1. IInv => CancellationsExact
  BY DEF IInv
<1> QED
  BY <1>1, Invariant, PTL

(* The lines of a request are written in order and end with its one answer. *)
THEOREM LinesAreInOrder == Spec => []LinesInOrder
<1>1. IInv => LinesInOrder
  BY DEF IInv
<1> QED
  BY <1>1, Invariant, PTL

(* A nil error means that every request read has been answered. *)
THEOREM NilIsAnswered == Spec => []NilMeansAnswered
<1>1. IInv => NilMeansAnswered
  <2> SUFFICES ASSUME IInv, returned = "nil", NEW r \in Requests, r <= count, WantsResponse(r)
               PROVE  Answered(r)
    BY DEF NilMeansAnswered
  <2>1. serve = "returned" /\ InFlight = {} /\ writer # "failed"
    BY DEF IInv, ReturnedIsQuiet
  <2>2. stage[r] # "none"
    BY DEF IInv, TypeOK, Numbered, Requests
  <2>3. stage[r] \in {"answered", "done", "rejected"}
    BY <2>1, <2>2 DEF IInv, TypeOK, InFlight
  <2> QED
    BY <2>1, <2>3 DEF IInv, AnsweredByStage, AnsweredAtStage
<1> QED
  BY <1>1, Invariant, PTL

=============================================================================
