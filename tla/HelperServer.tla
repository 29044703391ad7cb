---------------------------- MODULE HelperServer ----------------------------
(***************************************************************************)
(* The VS Code helper as a JSON-RPC server: internal/vscodehelper, Serve   *)
(* (server.go), the cancellation map it shares with the request            *)
(* goroutines, the response sink they all write through and the progress   *)
(* reporter of search.run (search_diff.go).                                *)
(*                                                                         *)
(* One goroutine reads lines; each request runs in a goroutine of its own. *)
(* Requests are numbered in the order their lines are read.  What is at    *)
(* the other end of the two pipes is the Peer, which here sends any lines  *)
(* at all (ids used twice, null ids, notifications, junk); HelperProtocol  *)
(* puts the extension's client there.                                      *)
(***************************************************************************)
EXTENDS Integers, Sequences

CONSTANTS
  Ids,          \* request ids: strings and numbers, the keys of cancellations
  NullId,       \* the id null: answered, but not cancellable
  NoId,         \* no id at all: a notification, never answered
  MaxRequests,  \* bound: request lines read
  MaxReports,   \* maxProgressUpdates
  PipeSize      \* bound: lines a pipe holds before its writer blocks

ASSUME IdsAssumption ==
  /\ NullId # NoId
  /\ NullId \notin Ids
  /\ NoId \notin Ids

ASSUME BoundsAssumption ==
  /\ MaxRequests \in Nat
  /\ MaxReports \in Nat
  /\ PipeSize \in Nat \ {0}

Requests == 1..MaxRequests
AnyId == Ids \cup {NullId, NoId}
Answers == {"result", "error"}

\* Lines on stdin.
Request(id, search) == [kind |-> "request", id |-> id, search |-> search]
CancelRequest(id) == [kind |-> "cancel", id |-> id, search |-> FALSE]
Junk == [kind |-> "junk", id |-> NoId, search |-> FALSE]
Oversized == [kind |-> "oversized", id |-> NoId, search |-> FALSE]
\* Lines on stdout.
Message(id, kind) == [id |-> id, kind |-> kind]

VARIABLES
  stdin,          \* lines the peer has sent and Serve has not read
  stdinOpen,      \* the peer may still send
  count,          \* request lines read
  call,           \* [Requests -> the request]
  stage,          \* [Requests -> where its goroutine stands]
  answer,         \* [Requests -> what its handler returned]
  cancelled,      \* requests whose context was cancelled from outside
  cancellations,  \* Server.cancellations: [Ids -> a request, or 0]
  stdout,         \* lines written and not read by the peer
  writer,         \* responseSink: "sound", "broken" (next write fails), "failed" (writeErr)
  sent,           \* [Requests -> the kinds of line written for it], a history
  serve,          \* where Serve stands
  returned        \* what Serve returned

readerVars == <<stdin, stdinOpen, count, call, serve, returned>>
sinkVars == <<stdout, writer, sent>>
vars == <<stdin, stdinOpen, count, call, stage, answer, cancelled,
          cancellations, stdout, writer, sent, serve, returned>>

CountedFirst ==   \* mutant: requests.Add before the duplicate check
  {r \in Requests : stage[r] \notin {"none", "done"}}

InFlight ==
  {r \in Requests : stage[r] \in {"running", "returned", "reported", "answered"}}
WantsResponse(r) == call[r].id # NoId
\* requestIDKey: null and a missing id have no key.
HasKey(id) == id \in Ids

Init ==
  /\ stdin = << >>
  /\ stdinOpen = TRUE
  /\ count = 0
  /\ call = [r \in Requests |-> Request(NoId, FALSE)]
  /\ stage = [r \in Requests |-> "none"]
  /\ answer = [r \in Requests |-> "none"]
  /\ cancelled = {}
  /\ cancellations = [i \in Ids |-> 0]
  /\ stdout = << >>
  /\ writer = "sound"
  /\ sent = [r \in Requests |-> << >>]
  /\ serve = "reading"
  /\ returned = "none"

-----------------------------------------------------------------------------
(* responseSink.writePayload: one line under the sink's mutex.  It blocks   *)
(* while the pipe is full; after the first failure it writes nothing more.  *)

Write(id, kind) ==
  \/ /\ writer = "sound"
     /\ Len(stdout) < PipeSize
     /\ stdout' = Append(stdout, Message(id, kind))
     /\ UNCHANGED writer
  \/ /\ writer # "sound"
     /\ writer' = "failed"
     /\ UNCHANGED stdout

WriteFor(r, id, kind) ==
  /\ Write(id, kind)
  /\ sent' = IF writer = "sound" THEN [sent EXCEPT ![r] = Append(@, kind)] ELSE sent

-----------------------------------------------------------------------------
(* Serve's read loop.                                                       *)

Next1 == count + 1

Reading(kind) ==
  /\ serve = "reading"
  /\ stdin # << >>
  /\ Head(stdin).kind = kind

\* A line that does not decode is answered with id null.
ReadJunk ==
  /\ Reading("junk")
  /\ Write(NullId, "error")
  /\ stdin' = Tail(stdin)
  /\ UNCHANGED <<stdinOpen, count, call, stage, answer, cancelled,
                 cancellations, sent, serve, returned>>

\* handleCancel.
ReadCancel ==
  LET id == Head(stdin).id IN
  /\ Reading("cancel")
  /\ cancelled' = IF HasKey(id) /\ cancellations[id] # 0
                    THEN cancelled \cup {cancellations[id]}
                    ELSE cancelled
  /\ stdin' = Tail(stdin)
  /\ UNCHANGED <<stdinOpen, count, call, stage, answer, cancellations, sinkVars,
                 serve, returned>>

NeverInUse(id) == FALSE   \* mutant: an id in flight is registered again

\* registerCancellation refuses an id that is in flight.
InUse(id) == HasKey(id) /\ cancellations[id] # 0

Register(id, r) ==
  cancellations' = IF HasKey(id) THEN [cancellations EXCEPT ![id] = r]
                                 ELSE cancellations

\* The bound on count is never what stops the reader: no more lines are sent.
TakeRequest(to) ==
  /\ count < MaxRequests
  /\ count' = Next1
  /\ call' = [call EXCEPT ![Next1] = Head(stdin)]
  /\ stage' = [stage EXCEPT ![Next1] = to]
  /\ stdin' = Tail(stdin)

ReadRequest ==
  /\ Reading("request")
  /\ ~InUse(Head(stdin).id)
  /\ Register(Head(stdin).id, Next1)
  /\ TakeRequest("running")
  /\ UNCHANGED <<stdinOpen, answer, cancelled, sinkVars, serve, returned>>

ReadDuplicate ==
  /\ Reading("request")
  /\ InUse(Head(stdin).id)
  /\ WriteFor(Next1, Head(stdin).id, "error")
  /\ TakeRequest("rejected")
  /\ UNCHANGED <<stdinOpen, answer, cancelled, cancellations, serve, returned>>

\* End of input: Serve waits for the requests in flight without cancelling them.
ReadEnd ==
  /\ serve = "reading"
  /\ stdin = << >>
  /\ ~stdinOpen
  /\ serve' = "ended"
  /\ UNCHANGED <<stdin, stdinOpen, count, call, stage, answer, cancelled,
                 cancellations, sinkVars, returned>>

\* A line longer than the scanner's buffer ends the loop; cancelAll.
ReadOversized ==
  /\ Reading("oversized")
  /\ serve' = "scanError"
  /\ cancelled' = cancelled \cup {cancellations[i] : i \in {j \in Ids : cancellations[j] # 0}}
  /\ UNCHANGED <<stdin, stdinOpen, count, call, stage, answer, cancellations,
                 sinkVars, returned>>

ReturnAtOnce ==   \* mutant: Serve does not wait for the requests in flight
  /\ serve \in {"ended", "scanError"}
  /\ serve' = "returned"
  /\ returned' = IF writer = "failed" THEN "writeErr"
                 ELSE IF serve = "scanError" THEN "scanError" ELSE "nil"
  /\ UNCHANGED <<stdin, stdinOpen, count, call, stage, answer, cancelled,
                 cancellations, sinkVars>>

\* requests.Wait(), then the first of: the sink's error, the scanner's, none.
Return ==
  /\ serve \in {"ended", "scanError"}
  /\ InFlight = {}
  /\ serve' = "returned"
  /\ returned' = IF writer = "failed" THEN "writeErr"
                 ELSE IF serve = "scanError" THEN "scanError" ELSE "nil"
  /\ UNCHANGED <<stdin, stdinOpen, count, call, stage, answer, cancelled,
                 cancellations, sinkVars>>

-----------------------------------------------------------------------------
(* A request's goroutine.                                                   *)

handlerVars == <<stdin, stdinOpen, count, call, cancelled, serve, returned>>

\* progressReporter.report, called by the running search.
Report(r) ==
  /\ stage[r] = "running"
  /\ call[r].search
  /\ WantsResponse(r)
  /\ Len(sent[r]) < MaxReports
  /\ WriteFor(r, call[r].id, "progress")
  /\ UNCHANGED <<handlerVars, stage, answer, cancellations>>

\* handle returns.  searchRun looks at its context last, so a cancelled search
\* has no result; another method may have finished before the cancellation.
HandlerReturns(r) ==
  /\ stage[r] = "running"
  /\ \E a \in Answers :
       /\ call[r].search /\ r \in cancelled => a = "error"
       /\ answer' = [answer EXCEPT ![r] = a]
  /\ stage' = [stage EXCEPT ![r] = "returned"]
  /\ UNCHANGED <<handlerVars, cancellations, sinkVars>>

\* progressReporter.done, for search.run only.
ReportDone(r) ==
  /\ stage[r] = "returned"
  /\ call[r].search
  /\ IF WantsResponse(r) THEN WriteFor(r, call[r].id, "done") ELSE UNCHANGED sinkVars
  /\ stage' = [stage EXCEPT ![r] = "reported"]
  /\ UNCHANGED <<handlerVars, answer, cancellations>>

RespondFirst(r) ==   \* mutant: a search answers before its final progress
  /\ stage[r] = "returned"
  /\ IF WantsResponse(r) THEN WriteFor(r, call[r].id, answer[r]) ELSE UNCHANGED sinkVars
  /\ stage' = [stage EXCEPT ![r] = "answered"]
  /\ answer' = [answer EXCEPT ![r] = "none"]
  /\ UNCHANGED <<handlerVars, cancellations>>

Respond(r) ==
  /\ stage[r] = IF call[r].search THEN "reported" ELSE "returned"
  /\ IF WantsResponse(r) THEN WriteFor(r, call[r].id, answer[r]) ELSE UNCHANGED sinkVars
  /\ stage' = [stage EXCEPT ![r] = "answered"]
  /\ answer' = [answer EXCEPT ![r] = "none"]
  /\ UNCHANGED <<handlerVars, cancellations>>

KeepEntry(r) ==   \* mutant: the cancellation entry outlives its request
  /\ stage[r] = "answered"
  /\ stage' = [stage EXCEPT ![r] = "done"]
  /\ UNCHANGED <<handlerVars, answer, cancellations, sinkVars>>

\* The deferred finishRequest, cancel and Done.
FinishRequest(r) ==
  /\ stage[r] = "answered"
  /\ stage' = [stage EXCEPT ![r] = "done"]
  /\ cancellations' = IF HasKey(call[r].id)
                        THEN [cancellations EXCEPT ![call[r].id] = 0]
                        ELSE cancellations
  /\ UNCHANGED <<handlerVars, answer, sinkVars>>

Read == \/ ReadJunk \/ ReadCancel \/ ReadRequest \/ ReadDuplicate
        \/ ReadEnd \/ ReadOversized \/ Return

Handle(r) == \/ Report(r) \/ HandlerReturns(r) \/ ReportDone(r)
             \/ Respond(r) \/ FinishRequest(r)

-----------------------------------------------------------------------------
(* The peer: any process at the other end of the pipes.                     *)

peerOnly == <<count, call, stage, answer, cancelled, cancellations, sent,
              serve, returned>>

RequestLines == Len(SelectSeq(stdin, LAMBDA m : m.kind = "request"))

\* The lines a peer may send.  A notification never writes, whatever its method,
\* and a cancellation without an id names no entry: one of each kind is enough.
PeerLines ==
        {Request(id, FALSE) : id \in AnyId}
  \cup {Request(id, TRUE) : id \in Ids \cup {NullId}}
  \cup {CancelRequest(id) : id \in Ids}
  \cup {Junk, Oversized}

PeerSends ==
  /\ stdinOpen
  /\ Len(stdin) < PipeSize
  /\ \E m \in PeerLines :
       /\ m.kind = "request" => count + RequestLines < MaxRequests
       /\ stdin' = Append(stdin, m)
  /\ UNCHANGED <<peerOnly, stdinOpen, stdout, writer>>

PeerCloses ==
  /\ stdinOpen
  /\ stdinOpen' = FALSE
  /\ UNCHANGED <<peerOnly, stdin, stdout, writer>>

PeerReads ==
  /\ stdout # << >>
  /\ stdout' = Tail(stdout)
  /\ UNCHANGED <<peerOnly, stdin, stdinOpen, writer>>

\* The output stops accepting lines (closed pipe, short write).
WriterBreaks ==
  /\ writer = "sound"
  /\ writer' = "broken"
  /\ UNCHANGED <<peerOnly, stdin, stdinOpen, stdout>>

Peer ==
  /\ serve # "returned"
  /\ PeerSends \/ PeerCloses \/ PeerReads \/ WriterBreaks

Next ==
  \/ Read
  \/ \E r \in Requests : Handle(r)
  \/ Peer

\* The reader and every goroutine go on while they can; a handler's Git command
\* ends; the peer drains the output.  Nothing makes the peer send or close.
Fairness ==
  /\ WF_vars(Read)
  /\ WF_vars(Peer /\ PeerReads)
  /\ \A r \in Requests :
       WF_vars(HandlerReturns(r) \/ ReportDone(r) \/ Respond(r) \/ FinishRequest(r))

Spec == Init /\ [][Next]_vars
FairSpec == Spec /\ Fairness

-----------------------------------------------------------------------------
Kinds == {"progress", "done", "result", "error"}
Line == [kind : {"request", "cancel", "junk", "oversized"}, id : AnyId, search : BOOLEAN]

\* The shape of every variable.
TypeOK ==
  /\ stdin \in Seq(Line)
  /\ stdinOpen \in BOOLEAN
  /\ count \in 0..MaxRequests
  /\ call \in [Requests -> Line]
  /\ stage \in [Requests -> {"none", "running", "returned", "reported",
                             "answered", "done", "rejected"}]
  /\ answer \in [Requests -> Answers \cup {"none"}]
  /\ cancelled \subseteq Requests
  /\ cancellations \in [Ids -> Requests \cup {0}]
  /\ stdout \in Seq([id : AnyId, kind : Kinds])
  /\ writer \in {"sound", "broken", "failed"}
  /\ sent \in [Requests -> Seq(Kinds)]
  /\ serve \in {"reading", "ended", "scanError", "returned"}
  /\ returned \in {"none", "nil", "writeErr", "scanError"}

\* Server.cancellations holds exactly the requests in flight that have a key,
\* each under its own id: a request that ends removes its own entry and nobody
\* else's, two requests in flight never share an id, and no entry is left behind
\* to make a later request look like a duplicate (server.go, registerCancellation
\* and finishRequest, which run on different goroutines).
CancellationsExact ==
  \A i \in Ids, r \in Requests :
    cancellations[i] = r <=> r \in InFlight /\ call[r].id = i

IsAnswer(k) == k \in Answers
Answered(r) == \E k \in 1..Len(sent[r]) : IsAnswer(sent[r][k])

\* The lines written for r: progress, then for a search one final progress, then
\* one answer.
LinesOf(r) ==
  \A k \in 1..Len(sent[r]) :
    /\ WantsResponse(r)
    /\ IsAnswer(sent[r][k]) => k = Len(sent[r])
    /\ sent[r][k] = "done" => k + 1 >= Len(sent[r])
    /\ sent[r][k] = "result" /\ call[r].search => k > 1 /\ sent[r][k - 1] = "done"

\* "writes one response per request" (server.go): whatever order the goroutines
\* run in, nothing follows the answer to a request, a line without an id gets
\* none, and a search never has a result without a final progress before it.
LinesInOrder == \A r \in Requests : LinesOf(r)

\* When Serve returns without an error every request it read that wants an answer
\* has been given one, requests that were running at the end of input included
\* (server.go, requests.Wait before the sink's error is read).
NilMeansAnswered ==
  returned = "nil" =>
    \A r \in Requests : r <= count /\ WantsResponse(r) => Answered(r)

\* Once its input ends, Serve returns: no request waits on the reader, on the sink
\* or on another request, however full the pipe is.
Drains == ~stdinOpen ~> serve = "returned"

-----------------------------------------------------------------------------
(* What the next-state relation preserves.                                  *)

\* Requests are numbered as they are read.
Numbered == \A r \in Requests : stage[r] = "none" <=> r > count

\* What has been written for a request that stands at each stage.
LinesAtStage(r) ==
  /\ stage[r] = "none" => sent[r] = << >>
  /\ stage[r] \in {"running", "returned"} =>
       \A k \in 1..Len(sent[r]) : sent[r][k] = "progress"
  /\ stage[r] = "reported" =>
       \A k \in 1..Len(sent[r]) :
         sent[r][k] = "progress" \/ (sent[r][k] = "done" /\ k = Len(sent[r]))
  /\ stage[r] = "reported" /\ writer # "failed" /\ WantsResponse(r) =>
       sent[r] # << >> /\ sent[r][Len(sent[r])] = "done"
LinesByStage == \A r \in Requests : LinesAtStage(r)

\* Past its answer a request has been answered, unless the sink has failed.
AnsweredAtStage(r) ==
  stage[r] \in {"answered", "done", "rejected"} /\ WantsResponse(r) /\ writer # "failed" =>
    Answered(r)
AnsweredByStage == \A r \in Requests : AnsweredAtStage(r)

\* A handler's answer waits for nothing but its own goroutine.
AnswersHeld ==
  \A r \in Requests : stage[r] \in {"returned", "reported"} => answer[r] \in Answers

\* Nothing runs after Serve has returned.
ReturnedIsQuiet ==
  /\ returned # "none" <=> serve = "returned"
  /\ serve = "returned" => InFlight = {}
  /\ returned = "nil" => writer # "failed"

\* The inductive invariant: together these imply the three properties above.
IInv ==
  /\ TypeOK
  /\ Numbered
  /\ CancellationsExact
  /\ LinesByStage
  /\ LinesInOrder
  /\ AnsweredByStage
  /\ AnswersHeld
  /\ ReturnedIsQuiet
=============================================================================
