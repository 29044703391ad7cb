----------------------- MODULE HelperProtocol_proofs -----------------------
(***************************************************************************)
(* The client's account of its calls and of the pipe, proved for any       *)
(* number of calls and any limit.  PendingIsOpen is inductive, whatever    *)
(* the server does, and a promise that is settled stays settled and hears  *)
(* nothing more.  PipeInv adds the lines on the pipe and the server's map: *)
(* an id names one request wherever it is, so none is refused as a         *)
(* duplicate and a cancellation reaches only the call it was sent for.     *)
(***************************************************************************)
EXTENDS HelperProtocol, FiniteSetTheorems, TLAPS

(* The pending map is finite, and a call more or less changes its size by at *)
(* most one. *)
LEMMA PendingSize ==
  ASSUME NEW P \in SUBSET Calls
  PROVE  /\ IsFiniteSet(P) /\ Cardinality(P) \in Nat
         /\ \A c \in Calls : Cardinality(P \cup {c}) <= Cardinality(P) + 1
         /\ \A c : Cardinality(P \ {c}) <= Cardinality(P)
<1>1. IsFiniteSet(Calls)
  BY FS_Interval, CallsAssumption DEF Calls
<1>2. IsFiniteSet(P) /\ Cardinality(P) \in Nat
  BY <1>1, FS_Subset, FS_CardinalityType
<1>3. ASSUME NEW c \in Calls
      PROVE  Cardinality(P \cup {c}) <= Cardinality(P) + 1
  BY <1>2, FS_AddElement
<1>4. ASSUME NEW c
      PROVE  Cardinality(P \ {c}) <= Cardinality(P)
  BY <1>2, FS_Subset
<1> QED
  BY <1>2, <1>3, <1>4

(* The initial state. *)
LEMMA InitPending == Init => PendingIsOpen
<1> SUFFICES ASSUME Init PROVE PendingIsOpen
  OBVIOUS
<1>1. TypeOK
  <2>1. alive \in BOOLEAN
    BY Zenon DEF Init
  <2>2. nextID \in 1..(MaxCalls + 1)
    BY CallsAssumption DEF Init
  <2>3. /\ search \in [Calls -> BOOLEAN]
        /\ heard \in [Calls -> {"none", "progress", "done"}]
        /\ outcome \in [Calls -> Outcomes]
    BY DEF Init, Outcomes
  <2> QED
    BY <2>1, <2>2, <2>3 DEF Init, TypeOK
<1>2. Cardinality(pending) = 0
  BY FS_EmptySet DEF Init
<1>3. pending = {c \in Calls : c < nextID /\ outcome[c] = "none"}
  BY DEF Init, Calls
<1>4. /\ client = "none" /\ nextID = Initialize
      /\ \A c \in Calls : outcome[c] = "none" /\ heard[c] = "none"
  BY DEF Init, Initialize
<1>5. Cardinality(pending) <= MaxPending
  BY <1>2, CallsAssumption
<1> QED
  BY <1>1, <1>3, <1>4, <1>5 DEF PendingIsOpen

(* Initialize is pending only while the client starts. *)
LEMMA InitializeIsStarting ==
  ASSUME PendingIsOpen, Initialize \in pending
  PROVE  client = "starting"
<1>1. client # "none"
  BY DEF PendingIsOpen, Initialize, Calls
<1> QED
  BY <1>1 DEF PendingIsOpen, TypeOK

(* A call that is settled leaves the pending map and nothing else changes. *)
LEMMA SettleKeeps ==
  ASSUME PendingIsOpen, NEW c \in pending, NEW how \in Outcomes \ {"none"},
         Settle(c, how), UNCHANGED <<alive, nextID, search, heard>>,
         \/ client' = client /\ (client # "starting" \/ c # Initialize)
         \/ c = Initialize /\ client = "starting" /\ client' \in {"ready", "stopped"}
  PROVE  PendingIsOpen' /\ SettledIsFinal
<1>1. c \in Calls /\ c < nextID /\ outcome[c] = "none"
  BY DEF PendingIsOpen
<1>2. outcome' = [outcome EXCEPT ![c] = how] /\ pending' = pending \ {c}
  BY DEF Settle
<1>3. TypeOK'
  BY <1>1, <1>2 DEF PendingIsOpen, TypeOK
<1>4. pending' = {d \in Calls : d < nextID' /\ outcome'[d] = "none"}
  BY <1>1, <1>2 DEF PendingIsOpen, TypeOK
<1>5. \A d \in Calls : d >= nextID' => outcome'[d] = "none" /\ heard'[d] = "none"
  BY <1>1, <1>2 DEF PendingIsOpen, TypeOK, Calls
<1>6. Cardinality(pending') <= MaxPending
  <2>1. Cardinality(pending') <= Cardinality(pending)
    BY <1>2, PendingSize DEF PendingIsOpen, TypeOK
  <2>2. Cardinality(pending) \in Nat /\ Cardinality(pending') \in Nat
    BY <1>3, PendingSize DEF PendingIsOpen, TypeOK
  <2> QED
    BY <2>1, <2>2, CallsAssumption DEF PendingIsOpen
<1>7. /\ client' = "none" => nextID' = Initialize
      /\ client' = "stopped" => pending' = {}
      /\ client' = "starting" => pending' = {Initialize}
      /\ client' = "ready" => nextID' > Initialize /\ Initialize \notin pending'
  BY <1>1, <1>2 DEF PendingIsOpen
<1>8. PendingIsOpen'
  BY <1>3, <1>4, <1>5, <1>6, <1>7 DEF PendingIsOpen
<1>9. SettledIsFinal
  BY <1>1, <1>2 DEF SettledIsFinal, PendingIsOpen, TypeOK
<1> QED
  BY <1>8, <1>9

(* When the client stops every open call is closed. *)
LEMMA StopKeeps ==
  ASSUME PendingIsOpen, Stop, UNCHANGED <<alive, nextID, search, heard>>
  PROVE  PendingIsOpen' /\ SettledIsFinal
<1>1. /\ pending' = {}
      /\ outcome' = [c \in Calls |-> IF c \in pending THEN "closed" ELSE outcome[c]]
      /\ client' = "stopped"
  BY DEF Stop, RejectAll
<1>2. TypeOK'
  BY <1>1 DEF PendingIsOpen, TypeOK, Outcomes
<1>3. pending' = {d \in Calls : d < nextID' /\ outcome'[d] = "none"}
  BY <1>1 DEF PendingIsOpen
<1>4. \A d \in Calls : d >= nextID' => outcome'[d] = "none" /\ heard'[d] = "none"
  BY <1>1 DEF PendingIsOpen, TypeOK, Calls
<1>5. Cardinality(pending') = 0
  BY <1>1, FS_EmptySet
<1>6. PendingIsOpen'
  BY <1>1, <1>2, <1>3, <1>4, <1>5, CallsAssumption DEF PendingIsOpen
<1>7. SettledIsFinal
  BY <1>1 DEF SettledIsFinal, PendingIsOpen
<1> QED
  BY <1>6, <1>7

(* A new call takes the next id. *)
LEMMA SendKeeps ==
  ASSUME PendingIsOpen, NEW w \in BOOLEAN, SendRequest(w), UNCHANGED <<heard, outcome>>,
         alive' \in BOOLEAN, nextID \in Calls, Cardinality(pending) < MaxPending,
         \/ client = "none" /\ client' = "starting"
         \/ client = "ready" /\ client' = "ready"
  PROVE  PendingIsOpen' /\ SettledIsFinal
<1>1. /\ nextID' = nextID + 1
      /\ pending' = pending \cup {nextID}
      /\ search' = [search EXCEPT ![nextID] = w]
      /\ outcome' = outcome /\ heard' = heard
  BY DEF SendRequest
<1>2. TypeOK'
  BY <1>1, CallsAssumption DEF PendingIsOpen, TypeOK, Calls
<1>3. outcome[nextID] = "none"
  BY DEF PendingIsOpen, Calls
<1>4. pending' = {d \in Calls : d < nextID' /\ outcome'[d] = "none"}
  <2>1. \A d \in Calls : d < nextID + 1 <=> d < nextID \/ d = nextID
    BY CallsAssumption DEF Calls
  <2> QED
    BY <2>1, <1>1, <1>3 DEF PendingIsOpen
<1>5. \A d \in Calls : d >= nextID' => outcome'[d] = "none" /\ heard'[d] = "none"
  BY <1>1 DEF PendingIsOpen, Calls
<1>6. Cardinality(pending') <= MaxPending
  <2>1. Cardinality(pending') <= Cardinality(pending) + 1
    BY <1>1, PendingSize DEF PendingIsOpen, TypeOK
  <2>2. Cardinality(pending) \in Nat /\ Cardinality(pending') \in Nat
    BY <1>2, PendingSize DEF PendingIsOpen, TypeOK
  <2> QED
    BY <2>1, <2>2, CallsAssumption
<1>7. client' = "starting" => pending' = {Initialize}
  <2>1. ASSUME client' = "starting" PROVE nextID = Initialize /\ pending = {}
    BY <2>1 DEF PendingIsOpen, Initialize, Calls
  <2> QED
    BY <2>1, <1>1
<1>10. client' = "ready" => nextID' > Initialize /\ Initialize \notin pending'
  BY <1>1 DEF PendingIsOpen, Initialize, Calls
<1>8. PendingIsOpen'
  BY <1>2, <1>4, <1>5, <1>6, <1>7, <1>10 DEF PendingIsOpen
<1>9. SettledIsFinal
  BY <1>1 DEF SettledIsFinal
<1> QED
  BY <1>8, <1>9

(* A call whose payload is too large takes the next id and fails at once. *)
LEMMA TooLargeKeeps ==
  ASSUME PendingIsOpen, CallTooLarge
  PROVE  PendingIsOpen' /\ SettledIsFinal
<1>1. /\ client = "ready" /\ nextID \in Calls
      /\ nextID' = nextID + 1
      /\ outcome' = [outcome EXCEPT ![nextID] = "failed"]
      /\ UNCHANGED <<alive, client, pending, search, heard>>
  BY DEF CallTooLarge
<1>2. TypeOK'
  BY <1>1, CallsAssumption DEF PendingIsOpen, TypeOK, Calls, Outcomes
<1>3. pending' = {d \in Calls : d < nextID' /\ outcome'[d] = "none"}
  <2>1. \A d \in Calls : d < nextID + 1 <=> d < nextID \/ d = nextID
    BY <1>1, CallsAssumption DEF Calls
  <2>2. \A d \in Calls : outcome'[d] = IF d = nextID THEN "failed" ELSE outcome[d]
    BY <1>1 DEF PendingIsOpen, TypeOK
  <2>3. ~(nextID < nextID)
    BY <1>1 DEF Calls
  <2> QED
    BY <2>1, <2>2, <2>3, <1>1 DEF PendingIsOpen
<1>4. \A d \in Calls : d >= nextID' => outcome'[d] = "none" /\ heard'[d] = "none"
  BY <1>1 DEF PendingIsOpen, TypeOK, Calls
<1>5. client' = "ready" => nextID' > Initialize /\ Initialize \notin pending'
  BY <1>1 DEF PendingIsOpen, Calls, Initialize
<1>6. PendingIsOpen'
  BY <1>1, <1>2, <1>3, <1>4, <1>5 DEF PendingIsOpen
<1>7. SettledIsFinal
  <2>1. outcome[nextID] = "none"
    BY <1>1 DEF PendingIsOpen, Calls
  <2> QED
    BY <1>1, <2>1 DEF SettledIsFinal, PendingIsOpen, TypeOK
<1> QED
  BY <1>6, <1>7

(* A step that leaves the client alone. *)
LEMMA ClientUntouched ==
  ASSUME PendingIsOpen, UNCHANGED clientVars, alive' \in BOOLEAN
  PROVE  PendingIsOpen' /\ SettledIsFinal
BY DEF PendingIsOpen, TypeOK, SettledIsFinal, clientVars

(* Every step keeps the account and leaves what is settled alone. *)
LEMMA NextKeeps ==
  ASSUME PendingIsOpen, [Next]_vars
  PROVE  PendingIsOpen' /\ SettledIsFinal
<1>t. /\ TypeOK /\ pending \subseteq Calls
      /\ client = "starting" => pending = {Initialize}
      /\ \A c \in pending : c < nextID
      /\ {"resolved", "failed", "cancelled"} \subseteq Outcomes \ {"none"}
  BY DEF PendingIsOpen, TypeOK, Outcomes
<1>1. CASE Start
  <2>1. nextID \in Calls /\ client = "none" /\ pending = {}
    BY <1>1, CallsAssumption DEF Start, PendingIsOpen, Initialize, Calls
  <2>2. Cardinality(pending) < MaxPending
    BY <2>1, FS_EmptySet, CallsAssumption
  <2> QED
    BY <1>1, <2>1, <2>2, SendKeeps DEF Start
<1>2. CASE CallHelper
  BY <1>2, <1>t, SendKeeps DEF CallHelper, TypeOK
<1>14. CASE CallTooLarge
  BY <1>14, TooLargeKeeps
<1>3. ASSUME NEW c \in Calls, CancelCall(c)
      PROVE  PendingIsOpen' /\ SettledIsFinal
  <2>1. /\ c \in pending /\ c # Initialize /\ Settle(c, "cancelled")
        /\ UNCHANGED <<alive, client, nextID, search, heard>>
    BY <1>3 DEF CancelCall
  <2> QED
    BY <2>1, <1>t, SettleKeeps
<1>4. ASSUME NEW c \in Calls, WriteFailed(c)
      PROVE  PendingIsOpen' /\ SettledIsFinal
  <2>1. c \in pending /\ UNCHANGED <<alive, nextID, search, heard>>
    BY <1>4 DEF WriteFailed
  <2>2. Settle(c, "failed") /\ client' = IF c = Initialize THEN "stopped" ELSE client
    BY <1>4 DEF WriteFailed
  <2>3. CASE c = Initialize
    <3>1. client = "starting"
      BY <2>1, <2>3, InitializeIsStarting
    <3> QED
      BY <3>1, <2>1, <2>2, <2>3, <1>t, SettleKeeps
  <2>4. CASE c # Initialize
    BY <2>1, <2>2, <2>4, <1>t, SettleKeeps
  <2> QED
    BY <2>3, <2>4
<1>5. CASE GiveUp
  BY <1>5, StopKeeps DEF GiveUp
<1>6. CASE HelperGone
  BY <1>6, StopKeeps DEF HelperGone
<1>7. CASE AcceptProgress
  <2>1. UNCHANGED <<alive, nextID, search, client, pending, outcome>>
    BY <1>7 DEF AcceptProgress, TakeLine
  <2>2. /\ heard' \in [Calls -> {"none", "progress", "done"}]
        /\ \A c \in Calls : c \notin pending => heard'[c] = heard[c]
    BY <1>7, <1>t DEF AcceptProgress, TypeOK
  <2>3. PendingIsOpen'
    BY <2>1, <2>2, <1>t DEF PendingIsOpen, TypeOK, Calls
  <2>4. SettledIsFinal
    BY <2>1, <2>2 DEF SettledIsFinal, PendingIsOpen
  <2> QED
    BY <2>3, <2>4
<1>8. CASE AcceptLate
  BY <1>8, <1>t, ClientUntouched DEF AcceptLate, TakeLine, clientVars, TypeOK
<1>9. CASE AcceptAnswer
  <2>1. /\ UNCHANGED <<alive, nextID, search, heard, client>>
        /\ Head(stdout).id \in pending \ {Initialize}
        /\ \/ Settle(Head(stdout).id, "resolved")
           \/ Settle(Head(stdout).id, "failed")
    BY <1>9 DEF AcceptAnswer, TakeLine
  <2> QED
    BY <2>1, <1>t, SettleKeeps
<1>10. CASE AcceptInitialize
  <2>1. /\ UNCHANGED <<alive, nextID, search, heard>>
        /\ Initialize \in pending
        /\ \/ client' = "ready" /\ Settle(Initialize, "resolved")
           \/ client' = "stopped" /\ Settle(Initialize, "failed")
    BY <1>10 DEF AcceptInitialize, TakeLine
  <2>2. client = "starting"
    BY <2>1, InitializeIsStarting
  <2> QED
    BY <2>1, <2>2, <1>t, SettleKeeps
<1>11. CASE ServerStep
  BY <1>11, <1>t, ClientUntouched DEF ServerStep, TypeOK
<1>12. CASE HelperDies
  BY <1>12, ClientUntouched DEF HelperDies
<1>13. CASE UNCHANGED vars
  BY <1>13, <1>t, ClientUntouched DEF vars, clientVars, TypeOK
<1> QED
  BY <1>1, <1>2, <1>3, <1>4, <1>5, <1>6, <1>7, <1>8, <1>9, <1>10, <1>11, <1>12, <1>13, <1>14
  DEF Next, AcceptLine

(* The pending map is exact in every reachable state. *)
THEOREM PendingAccount == Spec => []PendingIsOpen
<1>1. Init => PendingIsOpen
  BY InitPending
<1>2. PendingIsOpen /\ [Next]_vars => PendingIsOpen'
  BY NextKeeps
<1> QED
  BY <1>1, <1>2, PTL DEF Spec

(* No step settles a promise twice, or calls the progress callback of a call *)
(* that has been settled. *)
THEOREM PromisesSettleOnce == Spec => SettlesOnce
<1>1. PendingIsOpen /\ [Next]_vars => [SettledIsFinal]_vars
  BY NextKeeps
<1> QED
  BY <1>1, PendingAccount, PTL DEF Spec, SettlesOnce
-----------------------------------------------------------------------------
(* The pipe between the two processes: PipeInv is inductive, so no id ever   *)
(* looks like one in flight and no cancellation reaches another's request.   *)

(* Reading a line moves every other line one place up. *)
LEMMA TailLines ==
  ASSUME NEW S, NEW s \in Seq(S), s # << >>
  PROVE  /\ Len(s) \in Nat \ {0} /\ Head(s) = s[1] /\ s[1] \in S
         /\ Tail(s) \in Seq(S) /\ Len(Tail(s)) = Len(s) - 1
         /\ \A k \in 1..Len(Tail(s)) : k + 1 \in 1..Len(s) /\ Tail(s)[k] = s[k + 1]
OBVIOUS

(* Sending a line puts it last. *)
LEMMA AppendLines ==
  ASSUME NEW S, NEW s \in Seq(S), NEW m \in S
  PROVE  /\ Append(s, m) \in Seq(S) /\ Len(s) \in Nat /\ Len(Append(s, m)) = Len(s) + 1
         /\ \A k \in 1..Len(s) : Append(s, m)[k] = s[k]
         /\ Append(s, m)[Len(s) + 1] = m
         /\ 1..(Len(s) + 1) = (1..Len(s)) \cup {Len(s) + 1}
OBVIOUS

PipeLines == [kind : {"request", "cancel"}, id : Calls, search : BOOLEAN]

(* The initial state. *)
LEMMA InitPipe == Init => PipeInv
<1> SUFFICES ASSUME Init PROVE PipeInv
  OBVIOUS
<1>1. /\ stdin = << >> /\ count = 0 /\ cancelled = {}
      /\ call = [r \in Calls |-> [kind |-> "request", id |-> NoId, search |-> FALSE]]
      /\ stage = [r \in Calls |-> "none"]
      /\ cancellations = [i \in Calls |-> 0]
  BY DEF Init, Server!Init, Server!Requests, Server!Request, Calls
<1>2. PipeOK
  BY <1>1, CallsAssumption DEF PipeOK, Stages, Calls
<1>3. IdsOnce /\ EntriesOwn /\ CancelLinesMeant /\ CancelledByCaller /\ NeverDuplicate
  BY <1>1 DEF IdsOnce, EntriesOwn, CancelLinesMeant, CancelledByCaller, NeverDuplicate
<1> QED
  BY <1>2, <1>3, InitPending DEF PipeInv

(* A step of the client that sends nothing, or of a handler. *)
LEMMA PipeUntouched ==
  ASSUME PipeInv, PendingIsOpen', SettledIsFinal, nextID' >= nextID,
         UNCHANGED <<stdin, count, call, cancelled, cancellations>>,
         stage' \in [Calls -> Stages \ {"rejected"}]
  PROVE  PipeInv'
<1>t. /\ nextID \in Nat /\ nextID' \in Nat
      /\ stdin \in Seq(PipeLines) /\ cancelled \subseteq 1..count /\ PipeOK
  BY DEF PipeInv, PendingIsOpen, TypeOK, PipeOK, PipeLines
<1>l. \A k \in 1..Len(stdin) : stdin[k] \in PipeLines
  BY <1>t
<1>1. PipeOK'
  BY <1>t DEF PipeOK
<1>2. IdsOnce'
  <2>1. IdsOnce
    BY DEF PipeInv
  <2>2. \A c \in Calls : c < nextID => c < nextID'
    BY <1>t DEF Calls
  <2> QED
    BY <1>l, <2>1, <2>2 DEF IdsOnce, PipeLines
<1>3. EntriesOwn'
  BY DEF PipeInv, EntriesOwn
<1>4. CancelLinesMeant'
  <2>1. CancelLinesMeant
    BY DEF PipeInv
  <2> QED
    BY <1>l, <2>1 DEF CancelLinesMeant, PipeLines, SettledIsFinal
<1>5. CancelledByCaller'
  <2>1. CancelledByCaller /\ IdsOnce
    BY DEF PipeInv
  <2> QED
    BY <1>t, <2>1 DEF CancelledByCaller, IdsOnce, SettledIsFinal
<1>6. NeverDuplicate'
  BY DEF NeverDuplicate
<1> QED
  BY <1>1, <1>2, <1>3, <1>4, <1>5, <1>6 DEF PipeInv

(* A new request carries an id nothing else carries. *)
LEMMA SendPipe ==
  ASSUME PipeInv, PendingIsOpen', SettledIsFinal, NEW w \in BOOLEAN, SendRequest(w),
         nextID \in Calls, UNCHANGED <<count, call, stage, cancelled, cancellations>>
  PROVE  PipeInv'
<1> DEFINE m == [kind |-> "request", id |-> nextID, search |-> w]
<1>t. /\ stdin \in Seq(PipeLines) /\ m \in PipeLines /\ PipeOK /\ IdsOnce
      /\ stdin' = Append(stdin, m) /\ nextID' = nextID + 1 /\ nextID \in Nat
  BY DEF PipeInv, PipeOK, PipeLines, SendRequest, Server!Request, Calls
<1>a. /\ stdin' \in Seq(PipeLines) /\ Len(stdin) \in Nat /\ Len(stdin') = Len(stdin) + 1
      /\ \A k \in 1..Len(stdin) : stdin'[k] = stdin[k] /\ stdin[k] \in PipeLines
      /\ stdin'[Len(stdin) + 1] = m
      /\ 1..Len(stdin') = (1..Len(stdin)) \cup {Len(stdin) + 1}
  BY <1>t, AppendLines
<1>f. m.id = nextID /\ m.kind = "request"
  OBVIOUS
<1> HIDE DEF m
<1>1. PipeOK'
  BY <1>t, <1>a DEF PipeOK, PipeLines
<1>2. IdsOnce'
  <2>1. \A k \in 1..Len(stdin') : stdin'[k].id < nextID'
    BY <1>t, <1>a, <1>f DEF IdsOnce, PipeLines, Calls
  <2>2. \A k \in 1..Len(stdin) : stdin[k].id < nextID /\ stdin[k].id # nextID
    BY <1>t, <1>a DEF IdsOnce, PipeLines, Calls
  <2>3. \A j, k \in 1..Len(stdin') :
          stdin'[j].kind = "request" /\ stdin'[k].kind = "request" /\ stdin'[j].id = stdin'[k].id
            => j = k
    <3> SUFFICES ASSUME NEW j \in 1..Len(stdin'), NEW k \in 1..Len(stdin'),
                        stdin'[j].kind = "request", stdin'[k].kind = "request",
                        stdin'[j].id = stdin'[k].id
                 PROVE  j = k
      OBVIOUS
    <3>1. CASE j \in 1..Len(stdin) /\ k \in 1..Len(stdin)
      BY <3>1, <1>t, <1>a DEF IdsOnce
    <3>2. CASE j = Len(stdin) + 1 \/ k = Len(stdin) + 1
      BY <3>2, <2>2, <1>a, <1>f
    <3> QED
      BY <3>1, <3>2, <1>a
  <2>4. \A r \in 1..count : /\ call'[r].id \in Calls /\ call'[r].id < nextID'
                            /\ call'[r].id # nextID
    BY <1>t DEF IdsOnce, Calls
  <2>5. \A k \in 1..Len(stdin'), r \in 1..count' :
          stdin'[k].kind = "request" => stdin'[k].id # call'[r].id
    BY <1>t, <1>a, <1>f, <2>4 DEF IdsOnce
  <2>6. \A q, r \in 1..count' : call'[q].id = call'[r].id => q = r
    BY <1>t DEF IdsOnce
  <2> QED
    BY <2>1, <2>3, <2>4, <2>5, <2>6 DEF IdsOnce
<1>3. EntriesOwn'
  BY DEF PipeInv, EntriesOwn
<1>4. CancelLinesMeant'
  <2>1. CancelLinesMeant
    BY DEF PipeInv
  <2>2. \A k \in 1..Len(stdin) : stdin'[k].kind = "cancel" => outcome'[stdin'[k].id] = "cancelled"
    BY <1>a, <2>1 DEF CancelLinesMeant, PipeLines, SettledIsFinal
  <2> QED
    BY <1>a, <1>f, <2>2 DEF CancelLinesMeant
<1>5. CancelledByCaller'
  BY <1>t DEF PipeInv, PipeOK, CancelledByCaller, IdsOnce, SettledIsFinal
<1>6. NeverDuplicate'
  BY DEF PipeInv, NeverDuplicate
<1> QED
  BY <1>1, <1>2, <1>3, <1>4, <1>5, <1>6 DEF PipeInv

(* A cancellation is sent for the call whose caller gave it up. *)
LEMMA CancelPipe ==
  ASSUME PipeInv, PendingIsOpen', SettledIsFinal, NEW c \in Calls, CancelCall(c)
  PROVE  PipeInv'
<1> DEFINE m == [kind |-> "cancel", id |-> c, search |-> FALSE]
<1>t. /\ stdin \in Seq(PipeLines) /\ m \in PipeLines /\ PipeOK /\ IdsOnce
      /\ stdin' = Append(stdin, m)
      /\ UNCHANGED <<nextID, count, call, stage, cancelled, cancellations>>
  BY DEF PipeInv, PipeOK, PipeLines, CancelCall, Server!CancelRequest, serverOnly
<1>o. outcome'[c] = "cancelled" /\ c < nextID
  BY DEF CancelCall, Settle, PipeInv, PendingIsOpen, TypeOK
<1>a. /\ stdin' \in Seq(PipeLines) /\ Len(stdin) \in Nat /\ Len(stdin') = Len(stdin) + 1
      /\ \A k \in 1..Len(stdin) : stdin'[k] = stdin[k] /\ stdin[k] \in PipeLines
      /\ stdin'[Len(stdin) + 1] = m
      /\ 1..Len(stdin') = (1..Len(stdin)) \cup {Len(stdin) + 1}
  BY <1>t, AppendLines
<1>f. m.id = c /\ m.kind = "cancel"
  OBVIOUS
<1> HIDE DEF m
<1>1. PipeOK'
  BY <1>t, <1>a DEF PipeOK, PipeLines
<1>2. IdsOnce'
  <2>1. \A k \in 1..Len(stdin') : stdin'[k].id < nextID'
    BY <1>t, <1>a, <1>f, <1>o DEF IdsOnce
  <2>2. \A k \in 1..Len(stdin') : stdin'[k].kind = "request" =>
          k \in 1..Len(stdin) /\ stdin'[k] = stdin[k]
    BY <1>a, <1>f
  <2>3. \A j, k \in 1..Len(stdin') :
          stdin'[j].kind = "request" /\ stdin'[k].kind = "request" /\ stdin'[j].id = stdin'[k].id
            => j = k
    BY <2>2, <1>t DEF IdsOnce
  <2>5. \A k \in 1..Len(stdin'), r \in 1..count' :
          stdin'[k].kind = "request" => stdin'[k].id # call'[r].id
    BY <1>t, <2>2 DEF IdsOnce
  <2> QED
    BY <1>t, <2>1, <2>3, <2>5 DEF IdsOnce
<1>3. EntriesOwn'
  BY <1>t DEF PipeInv, EntriesOwn
<1>4. CancelLinesMeant'
  <2>1. CancelLinesMeant
    BY DEF PipeInv
  <2>2. \A k \in 1..Len(stdin) : stdin'[k].kind = "cancel" => outcome'[stdin'[k].id] = "cancelled"
    BY <1>a, <2>1 DEF CancelLinesMeant, PipeLines, SettledIsFinal
  <2> QED
    BY <1>a, <1>f, <1>o, <2>2 DEF CancelLinesMeant
<1>5. CancelledByCaller'
  BY <1>t DEF PipeInv, PipeOK, CancelledByCaller, IdsOnce, SettledIsFinal
<1>6. NeverDuplicate'
  BY <1>t DEF PipeInv, NeverDuplicate
<1> QED
  BY <1>1, <1>2, <1>3, <1>4, <1>5, <1>6 DEF PipeInv

(* What is left on the pipe when its first line has been read, with one more *)
(* request read or not. *)
LEMMA TailPipe ==
  ASSUME PipeInv, stdin # << >>, stdin' = Tail(stdin), UNCHANGED <<nextID, outcome>>
  PROVE  /\ stdin[1] \in PipeLines /\ Head(stdin) = stdin[1] /\ 1 \in 1..Len(stdin)
         /\ stdin' \in Seq(PipeLines)
         /\ \A k \in 1..Len(stdin') :
              /\ stdin'[k].id < nextID'
              /\ \A r \in 1..count :
                   stdin'[k].kind = "request" => stdin'[k].id # call[r].id
              /\ stdin'[k].kind = "request" /\ stdin[1].kind = "request" =>
                   stdin'[k].id # stdin[1].id
         /\ \A j, k \in 1..Len(stdin') :
              stdin'[j].kind = "request" /\ stdin'[k].kind = "request"
                /\ stdin'[j].id = stdin'[k].id => j = k
         /\ CancelLinesMeant'
<1>1. stdin \in Seq(PipeLines) /\ IdsOnce /\ CancelLinesMeant
  BY DEF PipeInv, PipeOK, PipeLines
<1>2. /\ Len(stdin) \in Nat \ {0} /\ Head(stdin) = stdin[1] /\ stdin[1] \in PipeLines
      /\ stdin' \in Seq(PipeLines) /\ Len(stdin') = Len(stdin) - 1
      /\ \A k \in 1..Len(stdin') : k + 1 \in 1..Len(stdin) /\ stdin'[k] = stdin[k + 1]
  BY <1>1, TailLines
<1>3. 1 \in 1..Len(stdin)
  BY <1>2
<1>4. \A k \in 1..Len(stdin') :
        /\ stdin'[k].id < nextID'
        /\ \A r \in 1..count : stdin'[k].kind = "request" => stdin'[k].id # call[r].id
  BY <1>1, <1>2 DEF IdsOnce
<1>5. \A k \in 1..Len(stdin') :
        stdin'[k].kind = "request" /\ stdin[1].kind = "request" => stdin'[k].id # stdin[1].id
  <2> SUFFICES ASSUME NEW k \in 1..Len(stdin'), stdin'[k].kind = "request",
                      stdin[1].kind = "request", stdin'[k].id = stdin[1].id
               PROVE  FALSE
    OBVIOUS
  <2>1. k + 1 = 1
    BY <1>1, <1>2, <1>3 DEF IdsOnce
  <2> QED
    BY <2>1, <1>2
<1>6. \A j, k \in 1..Len(stdin') :
        stdin'[j].kind = "request" /\ stdin'[k].kind = "request" /\ stdin'[j].id = stdin'[k].id
          => j = k
  <2> SUFFICES ASSUME NEW j \in 1..Len(stdin'), NEW k \in 1..Len(stdin'),
                      stdin'[j].kind = "request", stdin'[k].kind = "request",
                      stdin'[j].id = stdin'[k].id
               PROVE  j = k
    OBVIOUS
  <2>1. j + 1 = k + 1
    BY <1>1, <1>2 DEF IdsOnce
  <2> QED
    BY <2>1, <1>2
<1>7. CancelLinesMeant'
  BY <1>1, <1>2 DEF CancelLinesMeant
<1> QED
  BY <1>2, <1>3, <1>4, <1>5, <1>6, <1>7

(* The server reads a cancellation: only the call it names can be cancelled. *)
LEMMA ReadCancelPipe ==
  ASSUME PipeInv, PendingIsOpen', SettledIsFinal, Server!ReadCancel,
         UNCHANGED <<nextID, outcome>>
  PROVE  PipeInv'
<1> DEFINE i == stdin[1].id
<1>0. /\ stdin # << >> /\ stdin' = Tail(stdin) /\ Head(stdin).kind = "cancel"
      /\ UNCHANGED <<count, call, stage, cancellations>>
      /\ cancelled' = IF Head(stdin).id \in Calls /\ cancellations[Head(stdin).id] # 0
                        THEN cancelled \cup {cancellations[Head(stdin).id]}
                        ELSE cancelled
  BY DEF Server!ReadCancel, Server!Reading, Server!HasKey
<1>1. /\ stdin[1].kind = "cancel" /\ i \in Calls /\ 1 \in 1..Len(stdin)
      /\ cancelled' = IF cancellations[i] # 0 THEN cancelled \cup {cancellations[i]}
                                              ELSE cancelled
      /\ stdin' \in Seq(PipeLines)
  BY <1>0, TailPipe DEF PipeLines
<1>2. outcome[i] = "cancelled"
  BY <1>1 DEF PipeInv, CancelLinesMeant
<1> HIDE DEF i
<1>t. PipeOK /\ IdsOnce /\ EntriesOwn /\ CancelledByCaller
  BY DEF PipeInv
<1>3. \A r \in cancelled' : r \in cancelled \/ (r = cancellations[i] /\ r # 0)
  BY <1>1
<1>4. PipeOK'
  <2>1. cancellations[i] # 0 => cancellations[i] \in 1..count
    BY <1>1, <1>t DEF PipeOK, EntriesOwn, Calls
  <2>2. cancelled \subseteq 1..count
    BY <1>t DEF PipeOK
  <2>3. cancelled' \subseteq 1..count'
    BY <1>0, <1>1, <2>1, <2>2
  <2> QED
    BY <2>3, <1>0, <1>1, <1>t DEF PipeOK, PipeLines
<1>5. IdsOnce' /\ CancelLinesMeant'
  BY <1>0, <1>t, TailPipe DEF IdsOnce
<1>6. EntriesOwn'
  BY <1>0, <1>t DEF EntriesOwn
<1>7. CancelledByCaller'
  BY <1>0, <1>1, <1>2, <1>3, <1>t DEF CancelledByCaller, EntriesOwn
<1>8. NeverDuplicate'
  BY <1>0 DEF PipeInv, NeverDuplicate
<1> QED
  BY <1>4, <1>5, <1>6, <1>7, <1>8 DEF PipeInv

(* The server reads a request: its id is in no entry of the map. *)
LEMMA ReadRequestPipe ==
  ASSUME PipeInv, PendingIsOpen', SettledIsFinal, Server!ReadRequest,
         UNCHANGED <<nextID, outcome>>
  PROVE  PipeInv'
<1> DEFINE m == stdin[1]
           n == count + 1
<1>0. /\ stdin # << >> /\ stdin' = Tail(stdin) /\ Head(stdin).kind = "request"
      /\ count < MaxCalls /\ count' = n /\ UNCHANGED cancelled
      /\ call' = [call EXCEPT ![n] = Head(stdin)]
      /\ stage' = [stage EXCEPT ![n] = "running"]
      /\ cancellations' = IF Head(stdin).id \in Calls
                            THEN [cancellations EXCEPT ![Head(stdin).id] = n]
                            ELSE cancellations
  BY DEF Server!ReadRequest, Server!Reading, Server!TakeRequest, Server!Register,
         Server!HasKey, Server!Next1
<1>t. PipeOK /\ IdsOnce /\ EntriesOwn /\ CancelledByCaller /\ NeverDuplicate
  BY DEF PipeInv
<1>1. /\ m \in PipeLines /\ m.kind = "request" /\ Head(stdin) = m /\ 1 \in 1..Len(stdin)
      /\ stdin' \in Seq(PipeLines) /\ m.id \in Calls /\ m.search \in BOOLEAN
  BY <1>0, TailPipe DEF PipeLines
<1>2. /\ m.id < nextID
      /\ \A r \in 1..count : call[r].id # m.id
  BY <1>1, <1>t DEF IdsOnce
<1>n. /\ count \in Nat /\ n \in Calls /\ n # 0 /\ n \notin 1..count
      /\ 1..n = (1..count) \cup {n} /\ 1..count \subseteq Calls
      /\ \A x \in Nat : x <= count => x <= n /\ x # n
  BY <1>0, <1>t, CallsAssumption DEF PipeOK, Calls
<1>c. /\ DOMAIN call = Calls /\ DOMAIN stage = Calls /\ DOMAIN cancellations = Calls
      /\ m \in [kind : {"request"}, id : Calls \cup {NoId}, search : BOOLEAN]
  BY <1>t, <1>1 DEF PipeOK, PipeLines
<1> HIDE DEF m, n
<1>3. /\ call'[n] = m
      /\ \A r \in 1..count : call'[r] = call[r] /\ r # n
      /\ cancellations'[m.id] = n
      /\ \A j \in Calls : j # m.id => cancellations'[j] = cancellations[j]
      /\ \A r \in Calls : stage'[r] = "running" \/ stage'[r] = stage[r]
  BY <1>0, <1>1, <1>n, <1>c
<1>4. PipeOK'
  <2>1. /\ stage' \in [Calls -> Stages] /\ cancellations' \in [Calls -> Calls \cup {0}]
        /\ call' \in [Calls -> [kind : {"request"}, id : Calls \cup {NoId}, search : BOOLEAN]]
    BY <1>0, <1>1, <1>c, <1>n, <1>t DEF PipeOK, Stages
  <2>2. count' \in 0..MaxCalls /\ cancelled' \subseteq 1..count'
    BY <1>0, <1>n, <1>t DEF PipeOK, Calls
  <2> QED
    BY <2>1, <2>2, <1>1 DEF PipeOK, PipeLines
<1>5. IdsOnce'
  <2>1. /\ \A k \in 1..Len(stdin') : stdin'[k].id < nextID'
        /\ \A j, k \in 1..Len(stdin') :
             stdin'[j].kind = "request" /\ stdin'[k].kind = "request"
               /\ stdin'[j].id = stdin'[k].id => j = k
    BY <1>0, TailPipe
  <2>2. \A k \in 1..Len(stdin'), r \in 1..count' :
          stdin'[k].kind = "request" => stdin'[k].id # call'[r].id
    <3>1. \A k \in 1..Len(stdin') : stdin'[k].kind = "request" =>
            /\ stdin'[k].id # m.id
            /\ \A r \in 1..count : stdin'[k].id # call[r].id
      BY <1>0, <1>1, TailPipe DEF m
    <3> QED
      BY <3>1, <1>0, <1>3, <1>n
  <2>3. \A r \in 1..count' : call'[r].id \in Calls /\ call'[r].id < nextID'
    BY <1>0, <1>1, <1>2, <1>3, <1>n, <1>t DEF IdsOnce
  <2>4. \A q, r \in 1..count' : call'[q].id = call'[r].id => q = r
    BY <1>0, <1>2, <1>3, <1>n, <1>t DEF IdsOnce
  <2> QED
    BY <2>1, <2>2, <2>3, <2>4 DEF IdsOnce
<1>6. EntriesOwn'
  <2> SUFFICES ASSUME NEW j \in Calls, cancellations'[j] # 0
               PROVE  cancellations'[j] <= count' /\ call'[cancellations'[j]].id = j
    BY DEF EntriesOwn
  <2>1. CASE j = m.id
    BY <2>1, <1>0, <1>3, <1>n DEF n
  <2>2. CASE j # m.id
    <3>1. cancellations'[j] = cancellations[j] /\ cancellations[j] \in 1..count
      BY <2>2, <1>3, <1>t, <1>n DEF PipeOK, EntriesOwn, Calls
    <3> QED
      BY <3>1, <1>0, <1>3, <1>n, <1>t DEF EntriesOwn
  <2> QED
    BY <2>1, <2>2
<1>7. CancelLinesMeant'
  BY <1>0, TailPipe
<1>8. CancelledByCaller'
  BY <1>0, <1>3, <1>t DEF CancelledByCaller, PipeOK
<1>9. NeverDuplicate'
  BY <1>3, <1>t DEF NeverDuplicate
<1> QED
  BY <1>4, <1>5, <1>6, <1>7, <1>8, <1>9 DEF PipeInv

(* The server never finds a duplicate on this client's pipe. *)
LEMMA NoDuplicateRead ==
  ASSUME PipeInv, Server!ReadDuplicate
  PROVE  FALSE
<1> DEFINE m == Head(stdin)
<1>1. /\ stdin # << >> /\ m.kind = "request"
      /\ m.id \in Calls /\ cancellations[m.id] # 0
  BY DEF Server!ReadDuplicate, Server!Reading, Server!InUse, Server!HasKey
<1>2. stdin \in Seq(PipeLines) /\ IdsOnce /\ EntriesOwn /\ PipeOK
  BY DEF PipeInv, PipeOK, PipeLines
<1>3. m = stdin[1] /\ 1 \in 1..Len(stdin)
  BY <1>1, <1>2, TailLines
<1> HIDE DEF m
<1>4. cancellations[m.id] \in 1..count /\ call[cancellations[m.id]].id = m.id
  BY <1>1, <1>2 DEF EntriesOwn, PipeOK, Calls
<1> QED
  BY <1>1, <1>2, <1>3, <1>4 DEF IdsOnce

(* A request ends and takes its own entry with it. *)
LEMMA FinishPipe ==
  ASSUME PipeInv, PendingIsOpen', SettledIsFinal, NEW r \in Calls, Server!FinishRequest(r),
         UNCHANGED <<nextID, outcome>>
  PROVE  PipeInv'
<1>0. /\ UNCHANGED <<stdin, count, call, cancelled>>
      /\ stage' = [stage EXCEPT ![r] = "done"]
      /\ cancellations' = IF call[r].id \in Calls
                            THEN [cancellations EXCEPT ![call[r].id] = 0]
                            ELSE cancellations
  BY DEF Server!FinishRequest, Server!handlerVars, Server!HasKey
<1>t. PipeOK /\ IdsOnce /\ EntriesOwn /\ CancelledByCaller /\ NeverDuplicate /\ CancelLinesMeant
  BY DEF PipeInv
<1>1. /\ cancellations' \in [Calls -> Calls \cup {0}]
      /\ \A j \in Calls : cancellations'[j] = 0 \/ cancellations'[j] = cancellations[j]
      /\ \A q \in Calls : stage'[q] = "done" \/ stage'[q] = stage[q]
      /\ stage' \in [Calls -> Stages]
  BY <1>0, <1>t DEF PipeOK, Stages
<1>2. PipeOK'
  BY <1>0, <1>1, <1>t DEF PipeOK
<1>3. IdsOnce' /\ CancelLinesMeant'
  BY <1>0, <1>t DEF IdsOnce, CancelLinesMeant
<1>4. EntriesOwn'
  BY <1>0, <1>1, <1>t DEF EntriesOwn
<1>5. CancelledByCaller'
  BY <1>0, <1>t DEF CancelledByCaller
<1>6. NeverDuplicate'
  BY <1>1, <1>t DEF NeverDuplicate
<1> QED
  BY <1>2, <1>3, <1>4, <1>5, <1>6 DEF PipeInv

(* Nothing but the client and the reader's handlers of lines touches the pipe's *)
(* account: the other steps of the server, lines that this client never sends *)
(* included. *)
LEMMA ServerPipe ==
  ASSUME PipeInv, PendingIsOpen', SettledIsFinal, ServerStep
  PROVE  PipeInv'
<1>u. UNCHANGED <<nextID, outcome>> /\ nextID \in Nat
  BY DEF ServerStep, clientVars, PipeInv, PendingIsOpen, TypeOK
<1>t. /\ stdin \in Seq(PipeLines) /\ stage \in [Calls -> Stages \ {"rejected"}]
  BY DEF PipeInv, PipeOK, PipeLines, NeverDuplicate
<1>h. stdin # << >> => Head(stdin).kind \in {"request", "cancel"}
  <2>1. stdin # << >> => Head(stdin) \in PipeLines
    BY <1>t, TailLines
  <2> QED
    BY <2>1 DEF PipeLines
<1>1. CASE Server!Read
  <2>1. ~Server!ReadJunk /\ ~Server!ReadOversized
    BY <1>h DEF Server!ReadJunk, Server!ReadOversized, Server!Reading
  <2>2. CASE Server!ReadCancel
    BY <2>2, <1>u, ReadCancelPipe
  <2>3. CASE Server!ReadRequest
    BY <2>3, <1>u, ReadRequestPipe
  <2>4. CASE Server!ReadEnd \/ Server!Return
    BY <2>4, <1>u, <1>t, PipeUntouched DEF Server!ReadEnd, Server!Return
  <2> QED
    BY <1>1, <2>1, <2>2, <2>3, <2>4, NoDuplicateRead DEF Server!Read
<1>2. ASSUME NEW r \in Calls, Server!Handle(r)
      PROVE  PipeInv'
  <2>1. CASE Server!FinishRequest(r)
    BY <2>1, <1>u, FinishPipe
  <2>2. CASE \/ Server!Report(r) \/ Server!HandlerReturns(r)
             \/ Server!ReportDone(r) \/ Server!Respond(r)
    <3>1. UNCHANGED <<stdin, count, call, cancelled, cancellations>>
      BY <2>2 DEF Server!Report, Server!HandlerReturns, Server!ReportDone, Server!Respond,
                  Server!handlerVars
    <3>2. \/ stage' = stage
          \/ \E s \in {"returned", "reported", "answered"} : stage' = [stage EXCEPT ![r] = s]
      BY <2>2 DEF Server!Report, Server!HandlerReturns, Server!ReportDone, Server!Respond
    <3>3. stage' \in [Calls -> Stages \ {"rejected"}]
      BY <3>2, <1>t DEF Stages
    <3> QED
      BY <3>1, <3>3, <1>u, PipeUntouched
  <2> QED
    BY <1>2, <2>1, <2>2 DEF Server!Handle
<1> QED
  BY <1>1, <1>2 DEF ServerStep

(* Every step keeps the account of the pipe. *)
LEMMA NextPipe ==
  ASSUME PipeInv, [Next]_vars
  PROVE  PipeInv'
<1>k. PendingIsOpen' /\ SettledIsFinal
  BY NextKeeps DEF PipeInv
<1>t. /\ stage \in [Calls -> Stages \ {"rejected"}] /\ nextID \in Nat
      /\ client = "none" => nextID = Initialize
  BY DEF PipeInv, PipeOK, NeverDuplicate, PendingIsOpen, TypeOK
<1>1. CASE Start
  <2>1. nextID \in Calls
    BY <1>1, <1>t, CallsAssumption DEF Start, Initialize, Calls
  <2> QED
    BY <1>1, <1>k, <2>1, SendPipe DEF Start, serverOnly
<1>2. CASE CallHelper
  BY <1>2, <1>k, SendPipe DEF CallHelper, serverOnly
<1>3. CASE CallTooLarge
  <2>1. UNCHANGED <<stdin, count, call, stage, cancelled, cancellations>> /\ nextID' = nextID + 1
    BY <1>3 DEF CallTooLarge, serverVars
  <2> QED
    BY <2>1, <1>k, <1>t, PipeUntouched
<1>4. ASSUME NEW c \in Calls, CancelCall(c)
      PROVE  PipeInv'
  BY <1>4, <1>k, CancelPipe
<1>5. CASE (\E c \in Calls : WriteFailed(c)) \/ GiveUp \/ HelperGone \/ HelperDies
  <2>1. UNCHANGED <<stdin, count, call, stage, cancelled, cancellations, nextID>>
    BY <1>5 DEF WriteFailed, GiveUp, HelperGone, HelperDies, serverVars, clientVars
  <2> QED
    BY <2>1, <1>k, <1>t, PipeUntouched
<1>6. CASE AcceptLine
  <2>1. TakeLine
    BY <1>6 DEF AcceptLine, AcceptProgress, AcceptLate, AcceptAnswer, AcceptInitialize
  <2>2. UNCHANGED <<stdin, count, call, stage, cancelled, cancellations, nextID>>
    BY <2>1 DEF TakeLine, serverOnly
  <2> QED
    BY <2>2, <1>k, <1>t, PipeUntouched
<1>7. CASE ServerStep
  BY <1>7, <1>k, ServerPipe
<1>8. CASE UNCHANGED vars
  <2>1. UNCHANGED <<stdin, count, call, stage, cancelled, cancellations, nextID>>
    BY <1>8 DEF vars, serverVars, clientVars
  <2> QED
    BY <2>1, <1>k, <1>t, PipeUntouched
<1> QED
  BY <1>1, <1>2, <1>3, <1>4, <1>5, <1>6, <1>7, <1>8 DEF Next

(* The account of the pipe holds in every reachable state. *)
THEOREM PipeAccount == Spec => []PipeInv
<1>1. Init => PipeInv
  BY InitPipe
<1>2. PipeInv /\ [Next]_vars => PipeInv'
  BY NextPipe
<1> QED
  BY <1>1, <1>2, PTL DEF Spec

(* No request of this client is ever refused as a duplicate. *)
THEOREM IdsNeverCollide == Spec => []NeverDuplicate
<1>1. PipeInv => NeverDuplicate
  BY DEF PipeInv
<1> QED
  BY <1>1, PipeAccount, PTL

(* No request is cancelled but by its own caller. *)
THEOREM CancelReachesItsCall == Spec => []CancelledByCaller
<1>1. PipeInv => CancelledByCaller
  BY DEF PipeInv
<1> QED
  BY <1>1, PipeAccount, PTL
=============================================================================
