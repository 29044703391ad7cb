--------------------------- MODULE HelperProtocol ---------------------------
(***************************************************************************)
(* The extension's HelperClient (apps/vscode/src/helper/client.ts) talking *)
(* to the helper process: HelperServer behind two pipes.                   *)
(*                                                                         *)
(* A call is known by the id the client gives it.  The client runs in the  *)
(* extension host's event loop, so each of its handlers is one step; the   *)
(* server's goroutines and the death of the process fall anywhere between. *)
(* What the child process has written stays readable after it dies, and    *)
(* its exit event may come before those lines are read or after.           *)
(***************************************************************************)
EXTENDS Integers, Sequences, FiniteSets

CONSTANTS
  MaxCalls,     \* bound: calls that get an id; initialize is the first
  MaxPending,   \* MAX_PENDING_REQUESTS
  MaxReports,
  PipeSize,
  NullId, NoId

ASSUME CallsAssumption == MaxCalls \in Nat \ {0} /\ MaxPending \in Nat \ {0}

Calls == 1..MaxCalls
Initialize == 1

VARIABLES
  stdin, stdinOpen, count, call, stage, answer, cancelled, cancellations,
  stdout, writer, sent, serve, returned,   \* HelperServer's
  alive,     \* the helper process runs
  client,    \* "none", "starting", "ready", "stopped" (disposed)
  nextID,    \* HelperClient.nextID
  pending,   \* the keys of HelperClient.pending
  search,    \* [Calls -> the call has a progress callback]
  heard,     \* [Calls -> the last progress its callback was given]
  outcome    \* [Calls -> how its promise was settled, "none" while it is not]

serverVars == <<stdin, stdinOpen, count, call, stage, answer, cancelled,
                cancellations, stdout, writer, sent, serve, returned>>
clientVars == <<client, nextID, pending, search, heard, outcome>>
vars == <<serverVars, alive, clientVars>>

Server == INSTANCE HelperServer WITH Ids <- Calls, MaxRequests <- MaxCalls

\* Only what the client does to the two pipes.
serverOnly == <<stdinOpen, count, call, stage, answer, cancelled,
                cancellations, writer, sent, serve, returned>>

Init ==
  /\ Server!Init
  /\ alive = FALSE
  /\ client = "none"
  /\ nextID = 1
  /\ pending = {}
  /\ search = [c \in Calls |-> FALSE]
  /\ heard = [c \in Calls |-> "none"]
  /\ outcome = [c \in Calls |-> "none"]

-----------------------------------------------------------------------------
(* Calls and their cancellation.                                            *)

SameID(withProgress) ==   \* mutant: nextID is not advanced past a search
  /\ nextID' = IF withProgress THEN nextID ELSE nextID + 1
  /\ pending' = pending \cup {nextID}
  /\ search' = [search EXCEPT ![nextID] = withProgress]
  /\ stdin' = Append(stdin, Server!Request(nextID, withProgress))

SendRequest(withProgress) ==
  /\ nextID' = nextID + 1
  /\ pending' = pending \cup {nextID}
  /\ search' = [search EXCEPT ![nextID] = withProgress]
  /\ stdin' = Append(stdin, Server!Request(nextID, withProgress))

\* The constructor spawns the process, which may fail; start sends initialize.
Start ==
  /\ client = "none"
  /\ client' = "starting"
  /\ alive' \in BOOLEAN
  /\ SendRequest(FALSE)
  /\ UNCHANGED <<serverOnly, stdout, heard, outcome>>

\* request.  Past MAX_PENDING_REQUESTS, or once disposed, the promise is rejected
\* before it has an id.
CallHelper ==
  /\ client = "ready"
  /\ nextID \in Calls
  /\ Cardinality(pending) < MaxPending
  /\ \E withProgress \in BOOLEAN : SendRequest(withProgress)
  /\ UNCHANGED <<serverOnly, stdout, alive, client, heard, outcome>>

\* A payload over MAX_INPUT_BYTES uses up an id and is never sent.
CallTooLarge ==
  /\ client = "ready"
  /\ nextID \in Calls
  /\ Cardinality(pending) < MaxPending
  /\ nextID' = nextID + 1
  /\ outcome' = [outcome EXCEPT ![nextID] = "failed"]
  /\ UNCHANGED <<serverVars, alive, client, pending, search, heard>>

\* takePending, then the promise is settled.
Settle(c, how) ==
  /\ pending' = pending \ {c}
  /\ outcome' = [outcome EXCEPT ![c] = how]

CancelLatest(c) ==   \* mutant: the last id given out is cancelled, not the call's
  /\ c \in pending
  /\ c # Initialize
  /\ Settle(c, "cancelled")
  /\ stdin' = Append(stdin, Server!CancelRequest(nextID - 1))
  /\ UNCHANGED <<serverOnly, stdout, alive, client, nextID, search, heard>>

\* The caller's token fires: reject at once and tell the server.
CancelCall(c) ==
  /\ c \in pending
  /\ c # Initialize
  /\ Settle(c, "cancelled")
  /\ stdin' = Append(stdin, Server!CancelRequest(c))
  /\ UNCHANGED <<serverOnly, stdout, alive, client, nextID, search, heard>>

-----------------------------------------------------------------------------
(* The end of a client: dispose and stopWithError.                          *)

RejectKeeps ==   \* mutant: rejectAll does not clear the map
  /\ UNCHANGED pending
  /\ outcome' = [c \in Calls |-> IF c \in pending THEN "closed" ELSE outcome[c]]

ClearOnly ==   \* mutant: the map is cleared and the promises are left hanging
  /\ pending' = {}
  /\ UNCHANGED outcome

RejectAll ==
  /\ pending' = {}
  /\ outcome' = [c \in Calls |-> IF c \in pending THEN "closed" ELSE outcome[c]]

Stop ==
  /\ client' = "stopped"
  /\ RejectAll

Running == client \in {"starting", "ready"}

\* The runtime disposes of the client, initialize times out, or the client gives
\* up on the helper's output (malformed, too long, too much stderr).
GiveUp ==
  /\ Running
  /\ Stop
  /\ UNCHANGED <<serverVars, alive, nextID, search, heard>>

\* The child's error or exit event.
HelperGone ==
  /\ Running
  /\ ~alive
  /\ Stop
  /\ UNCHANGED <<serverVars, alive, nextID, search, heard>>

\* A request could not be written to the dead process; if it was initialize, start
\* disposes of the client.
WriteFailed(c) ==
  /\ ~alive
  /\ c \in pending
  /\ \E k \in 1..Len(stdin) : stdin[k].kind = "request" /\ stdin[k].id = c
  /\ Settle(c, "failed")
  /\ client' = IF c = Initialize THEN "stopped" ELSE client
  /\ UNCHANGED <<serverVars, alive, nextID, search, heard>>

-----------------------------------------------------------------------------
(* acceptLine.                                                              *)

TakeLine ==
  /\ stdout # << >>
  /\ stdout' = Tail(stdout)
  /\ UNCHANGED <<serverOnly, stdin, alive, nextID, search>>

\* dispatchHelperProgress: only a pending call with a callback hears it.
AcceptProgress ==
  LET m == Head(stdout) IN
  /\ TakeLine
  /\ m.kind \in {"progress", "done"}
  /\ heard' = IF m.id \in pending /\ search[m.id] THEN [heard EXCEPT ![m.id] = m.kind]
                                                 ELSE heard
  /\ UNCHANGED <<client, pending, outcome>>

\* An answer to a call that is no longer pending is dropped.
AcceptLate ==
  /\ TakeLine
  /\ Head(stdout).kind \in Server!Answers
  /\ Head(stdout).id \notin pending
  /\ UNCHANGED <<client, pending, heard, outcome>>

AcceptAny ==   \* mutant: an answer settles its promise without takePending
  LET m == Head(stdout) IN
  /\ TakeLine
  /\ m.kind \in Server!Answers
  /\ m.id # Initialize
  /\ Settle(m.id, IF m.kind = "result" THEN "resolved" ELSE "failed")
  /\ UNCHANGED <<client, heard>>

AcceptAnswer ==
  LET m == Head(stdout) IN
  /\ TakeLine
  /\ m.kind \in Server!Answers
  /\ m.id \in pending \ {Initialize}
  /\ Settle(m.id, IF m.kind = "result" THEN "resolved" ELSE "failed")
  /\ UNCHANGED <<client, heard>>

\* start goes on when initialize is answered: a result that validates makes the
\* client ready, anything else disposes of it.
AcceptInitialize ==
  LET m == Head(stdout) IN
  /\ TakeLine
  /\ m.kind \in Server!Answers
  /\ m.id = Initialize
  /\ Initialize \in pending
  /\ \/ m.kind = "result" /\ client' = "ready" /\ Settle(Initialize, "resolved")
     \/ client' = "stopped" /\ Settle(Initialize, "failed")
  /\ UNCHANGED heard

AcceptLine == AcceptProgress \/ AcceptLate \/ AcceptAnswer \/ AcceptInitialize

-----------------------------------------------------------------------------
(* The helper process: it serves, crashes, or is killed by a stopped client. *)

ServerStep ==
  /\ alive
  /\ Server!Read \/ \E r \in Calls : Server!Handle(r)
  /\ UNCHANGED <<alive, clientVars>>

HelperDies ==
  /\ alive
  /\ alive' = FALSE
  /\ UNCHANGED <<serverVars, clientVars>>

Next ==
  \/ Start
  \/ CallHelper
  \/ CallTooLarge
  \/ \E c \in Calls : CancelCall(c) \/ WriteFailed(c)
  \/ GiveUp
  \/ HelperGone
  \/ AcceptLine
  \/ ServerStep
  \/ HelperDies

\* The event loop delivers what has arrived; the server's reader and goroutines
\* go on and a handler's Git command ends.  Nothing makes a caller call or cancel,
\* the client give up, or the process die while its client wants it.
Fairness ==
  /\ WF_vars(AcceptLine)
  /\ WF_vars(HelperGone)
  /\ WF_vars(client = "stopped" /\ HelperDies)
  /\ WF_vars(alive /\ Server!Read /\ UNCHANGED <<alive, clientVars>>)
  /\ \A r \in Calls :
       WF_vars(/\ alive
               /\ \/ Server!HandlerReturns(r) \/ Server!ReportDone(r)
                  \/ Server!Respond(r) \/ Server!FinishRequest(r)
               /\ UNCHANGED <<alive, clientVars>>)

Spec == Init /\ [][Next]_vars
FairSpec == Spec /\ Fairness

-----------------------------------------------------------------------------
Outcomes == {"none", "resolved", "failed", "cancelled", "closed"}

\* The shape of the client's variables (HelperServer has the server's).
TypeOK ==
  /\ alive \in BOOLEAN
  /\ client \in {"none", "starting", "ready", "stopped"}
  /\ nextID \in 1..(MaxCalls + 1)
  /\ pending \subseteq Calls
  /\ search \in [Calls -> BOOLEAN]
  /\ heard \in [Calls -> {"none", "progress", "done"}]
  /\ outcome \in [Calls -> Outcomes]

\* The pending map holds exactly the calls that have an id and no outcome, it is
\* empty once the client has stopped, only initialize is in it while the client
\* starts and never after, and it never outgrows its limit (client.ts, pending, takePending,
\* rejectAll and MAX_PENDING_REQUESTS).
PendingIsOpen ==
  /\ TypeOK
  /\ client = "none" => nextID = Initialize
  /\ pending = {c \in Calls : c < nextID /\ outcome[c] = "none"}
  /\ \A c \in Calls : c >= nextID => outcome[c] = "none" /\ heard[c] = "none"
  /\ client = "stopped" => pending = {}
  /\ client = "starting" => pending = {Initialize}
  /\ client = "ready" => nextID > Initialize /\ Initialize \notin pending
  /\ Cardinality(pending) <= MaxPending

\* The ids the client gives out never collide in the server, although the client
\* forgets a cancelled call while the server still works on it: no request is
\* refused as a duplicate and none is answered for another (client.ts nextID,
\* server.go registerCancellation).
NeverDuplicate == \A r \in Calls : stage[r] # "rejected"

\* A request's context is cancelled only for a call its caller cancelled: a
\* cancellation that crosses the answer on the pipes never reaches another
\* request (client.ts sendCancellation, server.go handleCancel).
CancelledByCaller ==
  \A r \in cancelled : outcome[call[r].id] = "cancelled"

\* A settled promise is never settled again, and its progress callback is never
\* called again, whatever arrives late.
SettledIsFinal == \A c \in Calls : outcome[c] # "none" =>
                    outcome'[c] = outcome[c] /\ heard'[c] = heard[c]
SettlesOnce == [][SettledIsFinal]_vars

\* Every call that was given an id is settled: answered, cancelled, or closed with
\* its client, also when the helper dies between any two steps and when the pipe
\* to the client is full.
EverySettles == \A c \in Calls : (nextID > c) ~> (outcome[c] # "none")
-----------------------------------------------------------------------------
(* What the next-state relation preserves, beside PendingIsOpen.            *)

Stages == {"none", "running", "returned", "reported", "answered", "done", "rejected"}

\* The shape of the server's variables as this peer uses them: it sends nothing
\* but requests and cancellations, each with an id of its own choosing.
PipeOK ==
  /\ stdin \in Seq([kind : {"request", "cancel"}, id : Calls, search : BOOLEAN])
  /\ count \in 0..MaxCalls
  /\ call \in [Calls -> [kind : {"request"}, id : Calls \cup {NoId}, search : BOOLEAN]]
  /\ stage \in [Calls -> Stages]
  /\ cancelled \subseteq 1..count
  /\ cancellations \in [Calls -> Calls \cup {0}]

\* An id names one request, wherever that request is: on the pipe, or read.
IdsOnce ==
  /\ \A k \in 1..Len(stdin) : stdin[k].id < nextID
  /\ \A j, k \in 1..Len(stdin) :
       stdin[j].kind = "request" /\ stdin[k].kind = "request" /\ stdin[j].id = stdin[k].id
         => j = k
  /\ \A k \in 1..Len(stdin), r \in 1..count :
       stdin[k].kind = "request" => stdin[k].id # call[r].id
  /\ \A r \in 1..count : call[r].id \in Calls /\ call[r].id < nextID
  /\ \A q, r \in 1..count : call[q].id = call[r].id => q = r

\* An entry of the cancellation map leads to the request its id names.
EntriesOwn ==
  \A i \in Calls : cancellations[i] # 0 =>
    cancellations[i] <= count /\ call[cancellations[i]].id = i

\* A cancellation on the pipe is one its caller asked for.
CancelLinesMeant ==
  \A k \in 1..Len(stdin) : stdin[k].kind = "cancel" => outcome[stdin[k].id] = "cancelled"

\* The inductive invariant of the two processes and the pipe between them.
PipeInv ==
  /\ PendingIsOpen
  /\ PipeOK
  /\ IdsOnce
  /\ EntriesOwn
  /\ CancelLinesMeant
  /\ CancelledByCaller
  /\ NeverDuplicate
=============================================================================
