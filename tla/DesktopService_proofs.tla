------------------------- MODULE DesktopService_proofs -------------------------
(***************************************************************************)
(* Proofs about DesktopService, for any number of calls, repositories and  *)
(* read surfaces: type correctness, the inductive invariant, the safety    *)
(* properties that follow from it, and the refinement of                   *)
(* RepositorySession.                                                      *)
(***************************************************************************)
EXTENDS DesktopService, TLAPS

\* The type invariant holds initially.
LEMMA InitTypeOK == Init => TypeOK
<1> SUFFICES ASSUME Init PROVE TypeOK
  OBVIOUS
<1> USE DEF Init
<1>1. /\ generation \in Nat
      /\ searchID \in Nat
      /\ reserved \in [Calls -> Nat]
      /\ ticket \in [Calls -> Nat]
  OBVIOUS
<1>2. cancelled \subseteq Contexts /\ doomed \in [Calls -> SUBSET Contexts]
  OBVIOUS
<1>3. /\ handle \in [Calls -> Repos \cup {NoRepo}]
      /\ latest \in [Surfaces -> Reads \cup {NoCall}]
      /\ pc \in [Calls -> Locations]
  BY DEF Locations
<1> QED
  BY <1>1, <1>2, <1>3 DEF TypeOK

\* The context in the search slot is a context.
LEMMA SlotContextType == TypeOK => SlotContext \subseteq Contexts
BY DEF TypeOK, SlotContext, Contexts, Lookup, Calls

\* So is the context of any call's operation.
LEMMA OpType == \A c \in Calls : Op(c) \in Contexts /\ Lookup(c) \in Contexts
BY DEF Op, Lookup, Contexts

\* Every action keeps every variable in its range.
LEMMA NextTypeOK == TypeOK /\ [Next]_vars => TypeOK'
<1> SUFFICES ASSUME TypeOK, [Next]_vars PROVE TypeOK'
  OBVIOUS
<1> USE DEF TypeOK, Locations, Goto
<1>1. ASSUME NEW m \in Mutations, RequestMutation(m) PROVE TypeOK'
  BY <1>1 DEF RequestMutation
<1>2. ASSUME NEW c \in Workers, BeginOperation(c) PROVE TypeOK'
  <2>1. operations' \subseteq Opens \cup Workers
    BY <1>2 DEF BeginOperation
  <2>2. latest' \in [Surfaces -> Reads \cup {NoCall}]
    BY <1>2, OnlyReadsHaveSurfaces, NoValuesAreNew DEF BeginOperation, Calls, Workers
  <2>3. rewriteMu' \in Opens \cup Mutations \cup {NoCall}
    BY <1>2 DEF BeginOperation, Entered
  <2>a. Replaced(c) \subseteq Calls
    BY DEF Replaced, Calls, Workers
  <2>4. doomed' \in [Calls -> SUBSET Contexts]
    BY <1>2, OpType, <2>a DEF BeginOperation
  <2> QED
    BY <1>2, <2>1, <2>2, <2>3, <2>4 DEF BeginOperation
<1>3. ASSUME NEW c \in Workers, ReadRepository(c) PROVE TypeOK'
  BY <1>3 DEF ReadRepository, Refuses
<1>4. ASSUME NEW c \in Workers, Work(c) PROVE TypeOK'
  BY <1>4 DEF Work
<1>5. ASSUME NEW c \in Workers, FinishOperation(c) PROVE TypeOK'
  BY <1>5, OpType DEF FinishOperation, Calls, Workers
<1>6. ASSUME NEW s \in Searches, RefuseSearch(s) PROVE TypeOK'
  BY <1>6 DEF RefuseSearch
<1>7. ASSUME NEW s \in Searches, RegisterSearch(s) PROVE TypeOK'
  <2>1. cancelled' \subseteq Contexts
    BY <1>7, SlotContextType DEF RegisterSearch, NextTicket
  <2>a. searchID + 1 \in Nat
    OBVIOUS
  <2>2. searchID' \in Nat /\ ticket' \in [Calls -> Nat]
    BY <1>7, <2>a DEF RegisterSearch, NextTicket
  <2>3. pc' \in [Calls -> Locations] /\ searchSlot' \in Searches \cup {NoCall}
    BY <1>7 DEF RegisterSearch, NextTicket
  <2> QED
    BY <1>7, <2>1, <2>2, <2>3 DEF RegisterSearch, NextTicket
<1>8. ASSUME NEW s \in Searches, EndSearch(s) PROVE TypeOK'
  BY <1>8 DEF EndSearch
<1>9. ASSUME NEW s \in Searches, ReleaseSearch(s) PROVE TypeOK'
  BY <1>9, OpType DEF ReleaseSearch, Calls
<1>10. ASSUME NEW o \in Opens, ReserveSwitch(o) PROVE TypeOK'
  <2>a. generation + 1 \in Nat
    OBVIOUS
  <2>1. generation' \in Nat /\ reserved' \in [Calls -> Nat]
    BY <1>10, <2>a DEF ReserveSwitch
  <2>2. pc' \in [Calls -> Locations]
    BY <1>10 DEF ReserveSwitch
  <2> QED
    BY <1>10, <2>1, <2>2 DEF ReserveSwitch
<1>11. ASSUME NEW o \in Opens, DropSwitch(o) PROVE TypeOK'
  BY <1>11 DEF DropSwitch
<1>12. ASSUME NEW o \in Opens, BeginSwitch(o) PROVE TypeOK'
  <2>1. doomed' \in [Calls -> SUBSET Contexts]
    BY <1>12, SlotContextType, OpType DEF BeginSwitch, Calls, Workers, Swept
  <2>2. searchID' \in Nat
    BY <1>12 DEF BeginSwitch
  <2>3. pc' \in [Calls -> Locations] /\ latest' \in [Surfaces -> Reads \cup {NoCall}]
    BY <1>12 DEF BeginSwitch
  <2> QED
    BY <1>12, <2>1, <2>2, <2>3 DEF BeginSwitch
<1>13. ASSUME NEW o \in Opens, OpenRepository(o) PROVE TypeOK'
  BY <1>13 DEF OpenRepository
<1>14. ASSUME NEW o \in Opens, FailOpen(o) PROVE TypeOK'
  BY <1>14 DEF FailOpen
<1>15. ASSUME NEW o \in Opens, CompleteSwitch(o) PROVE TypeOK'
  BY <1>15 DEF CompleteSwitch, Calls
<1>16. ASSUME NEW o \in Opens, FinishSwitch(o) PROVE TypeOK'
  BY <1>16, OpType DEF FinishSwitch, Calls
<1>17. ASSUME NEW o \in Opens, FailSwitch(o) PROVE TypeOK'
  BY <1>17 DEF FailSwitch
<1>18. ASSUME NEW c \in Closes, CancelOperations(c) PROVE TypeOK'
  <2>1. doomed' \in [Calls -> SUBSET Contexts]
    BY <1>18, SlotContextType, OpType DEF CancelOperations, Calls, Workers, Swept
  <2>2. searchID' \in Nat
    BY <1>18 DEF CancelOperations
  <2>3. pc' \in [Calls -> Locations] /\ latest' \in [Surfaces -> Reads \cup {NoCall}]
    BY <1>18 DEF CancelOperations
  <2> QED
    BY <1>18, <2>1, <2>2, <2>3 DEF CancelOperations
<1>19. ASSUME NEW c \in Stops, CancelSearch(c) PROVE TypeOK'
  <2>1. cancelled' \subseteq Contexts
    BY <1>19, SlotContextType DEF CancelSearch
  <2>2. searchID' \in Nat
    BY <1>19 DEF CancelSearch
  <2>3. pc' \in [Calls -> Locations]
    BY <1>19 DEF CancelSearch
  <2> QED
    BY <1>19, <2>1, <2>2, <2>3 DEF CancelSearch
<1>20. ASSUME NEW c \in Calls, CallCancel(c) PROVE TypeOK'
  BY <1>20 DEF CallCancel
<1>21. ASSUME UNCHANGED vars PROVE TypeOK'
  BY <1>21 DEF vars
<1> QED
  BY <1>1, <1>2, <1>3, <1>4, <1>5, <1>6, <1>7, <1>8, <1>9, <1>10, <1>11, <1>12, <1>13,
     <1>14, <1>15, <1>16, <1>17, <1>18, <1>19, <1>20, <1>21
     DEF Next, WorkerStep, SearchStep, SwitchStep

\* Every variable of the service keeps its range, whatever calls interleave.
THEOREM TypeCorrect == Spec => []TypeOK
BY InitTypeOK, NextTypeOK, PTL DEF Spec

--------------------------------------------------------------------------------
(* The inductive invariant: one lemma for each of its conjuncts.             *)

\* A call only visits the places of its kind.
LEMMA KindStep == IInv /\ [Next]_vars => KindInv'
<1> SUFFICES ASSUME IInv, [Next]_vars PROVE KindInv'
  OBVIOUS
<1> USE CallKindsAreDisjoint DEF IInv, TypeOK, KindInv, Goto, Calls, Workers
<1>1. ASSUME NEW m \in Mutations, RequestMutation(m) PROVE KindInv'
  BY <1>1 DEF RequestMutation
<1>2. ASSUME NEW c \in Workers, BeginOperation(c) PROVE KindInv'
  BY <1>2 DEF Entered, BeginOperation
<1>3. ASSUME NEW c \in Workers, ReadRepository(c) PROVE KindInv'
  BY <1>3 DEF ReadRepository, Refuses
<1>4. ASSUME NEW c \in Workers, Work(c) PROVE KindInv'
  BY <1>4 DEF Work
<1>5. ASSUME NEW c \in Workers, FinishOperation(c) PROVE KindInv'
  BY <1>5 DEF FinishOperation
<1>6. ASSUME NEW s \in Searches, RefuseSearch(s) PROVE KindInv'
  BY <1>6 DEF RefuseSearch
<1>7. ASSUME NEW s \in Searches, RegisterSearch(s) PROVE KindInv'
  BY <1>7 DEF RegisterSearch, NextTicket
<1>8. ASSUME NEW s \in Searches, EndSearch(s) PROVE KindInv'
  BY <1>8 DEF EndSearch
<1>9. ASSUME NEW s \in Searches, ReleaseSearch(s) PROVE KindInv'
  BY <1>9 DEF ReleaseSearch, OwnSlot
<1>10. ASSUME NEW o \in Opens, ReserveSwitch(o) PROVE KindInv'
  BY <1>10 DEF ReserveSwitch
<1>11. ASSUME NEW o \in Opens, DropSwitch(o) PROVE KindInv'
  BY <1>11 DEF DropSwitch
<1>12. ASSUME NEW o \in Opens, BeginSwitch(o) PROVE KindInv'
  BY <1>12 DEF BeginSwitch
<1>13. ASSUME NEW o \in Opens, OpenRepository(o) PROVE KindInv'
  BY <1>13 DEF OpenRepository
<1>14. ASSUME NEW o \in Opens, FailOpen(o) PROVE KindInv'
  BY <1>14 DEF FailOpen
<1>15. ASSUME NEW o \in Opens, CompleteSwitch(o) PROVE KindInv'
  BY <1>15 DEF CompleteSwitch
<1>16. ASSUME NEW o \in Opens, FinishSwitch(o) PROVE KindInv'
  BY <1>16 DEF FinishSwitch
<1>17. ASSUME NEW o \in Opens, FailSwitch(o) PROVE KindInv'
  BY <1>17 DEF FailSwitch
<1>18. ASSUME NEW x \in Closes, CancelOperations(x) PROVE KindInv'
  BY <1>18 DEF CancelOperations
<1>19. ASSUME NEW x \in Stops, CancelSearch(x) PROVE KindInv'
  BY <1>19 DEF CancelSearch
<1>20. ASSUME NEW x \in Calls, CallCancel(x) PROVE KindInv'
  BY <1>20 DEF CallCancel
<1>21. ASSUME UNCHANGED vars PROVE KindInv'
  BY <1>21 DEF vars
<1> QED
  BY <1>1, <1>2, <1>3, <1>4, <1>5, <1>6, <1>7, <1>8, <1>9, <1>10,
     <1>11, <1>12, <1>13, <1>14, <1>15, <1>16, <1>17, <1>18, <1>19, <1>20, <1>21
     DEF Next, WorkerStep, SearchStep, SwitchStep

\* The holder of rewriteMu is the one call between its lock and its unlock.
LEMMA LockStep == IInv /\ [Next]_vars => LockInv'
<1> SUFFICES ASSUME IInv, [Next]_vars PROVE LockInv'
  OBVIOUS
<1> USE CallKindsAreDisjoint, NoValuesAreNew
       DEF IInv, TypeOK, KindInv, LockInv, Goto, Calls, Workers
<1>1. ASSUME NEW m \in Mutations, RequestMutation(m) PROVE LockInv'
  BY <1>1 DEF RequestMutation
<1>2. ASSUME NEW c \in Workers, BeginOperation(c) PROVE LockInv'
  BY <1>2 DEF Entered, BeginOperation
<1>3. ASSUME NEW c \in Workers, ReadRepository(c) PROVE LockInv'
  BY <1>3 DEF ReadRepository, Refuses
<1>4. ASSUME NEW c \in Workers, Work(c) PROVE LockInv'
  BY <1>4 DEF Work
<1>5. ASSUME NEW c \in Workers, FinishOperation(c) PROVE LockInv'
  BY <1>5 DEF FinishOperation
<1>6. ASSUME NEW s \in Searches, RefuseSearch(s) PROVE LockInv'
  BY <1>6 DEF RefuseSearch
<1>7. ASSUME NEW s \in Searches, RegisterSearch(s) PROVE LockInv'
  BY <1>7 DEF RegisterSearch, NextTicket
<1>8. ASSUME NEW s \in Searches, EndSearch(s) PROVE LockInv'
  BY <1>8 DEF EndSearch
<1>9. ASSUME NEW s \in Searches, ReleaseSearch(s) PROVE LockInv'
  BY <1>9 DEF ReleaseSearch, OwnSlot
<1>10. ASSUME NEW o \in Opens, ReserveSwitch(o) PROVE LockInv'
  BY <1>10 DEF ReserveSwitch
<1>11. ASSUME NEW o \in Opens, DropSwitch(o) PROVE LockInv'
  BY <1>11 DEF DropSwitch
<1>12. ASSUME NEW o \in Opens, BeginSwitch(o) PROVE LockInv'
  BY <1>12 DEF BeginSwitch
<1>13. ASSUME NEW o \in Opens, OpenRepository(o) PROVE LockInv'
  BY <1>13 DEF OpenRepository
<1>14. ASSUME NEW o \in Opens, FailOpen(o) PROVE LockInv'
  BY <1>14 DEF FailOpen
<1>15. ASSUME NEW o \in Opens, CompleteSwitch(o) PROVE LockInv'
  BY <1>15 DEF CompleteSwitch
<1>16. ASSUME NEW o \in Opens, FinishSwitch(o) PROVE LockInv'
  BY <1>16 DEF FinishSwitch
<1>17. ASSUME NEW o \in Opens, FailSwitch(o) PROVE LockInv'
  BY <1>17 DEF FailSwitch
<1>18. ASSUME NEW x \in Closes, CancelOperations(x) PROVE LockInv'
  BY <1>18 DEF CancelOperations
<1>19. ASSUME NEW x \in Stops, CancelSearch(x) PROVE LockInv'
  BY <1>19 DEF CancelSearch
<1>20. ASSUME NEW x \in Calls, CallCancel(x) PROVE LockInv'
  BY <1>20 DEF CallCancel
<1>21. ASSUME UNCHANGED vars PROVE LockInv'
  BY <1>21 DEF vars
<1> QED
  BY <1>1, <1>2, <1>3, <1>4, <1>5, <1>6, <1>7, <1>8, <1>9, <1>10,
     <1>11, <1>12, <1>13, <1>14, <1>15, <1>16, <1>17, <1>18, <1>19, <1>20, <1>21
     DEF Next, WorkerStep, SearchStep, SwitchStep

\* A call condemns nobody before it starts.
LEMMA FreshStep == IInv /\ [Next]_vars => FreshInv'
<1> SUFFICES ASSUME IInv, [Next]_vars PROVE FreshInv'
  OBVIOUS
<1> USE CallKindsAreDisjoint DEF IInv, TypeOK, KindInv, FreshInv, Goto, Calls, Workers
<1>1. ASSUME NEW m \in Mutations, RequestMutation(m) PROVE FreshInv'
  BY <1>1 DEF RequestMutation
<1>2. ASSUME NEW c \in Workers, BeginOperation(c) PROVE FreshInv'
  BY <1>2 DEF Entered, BeginOperation
<1>3. ASSUME NEW c \in Workers, ReadRepository(c) PROVE FreshInv'
  BY <1>3 DEF ReadRepository, Refuses
<1>4. ASSUME NEW c \in Workers, Work(c) PROVE FreshInv'
  BY <1>4 DEF Work
<1>5. ASSUME NEW c \in Workers, FinishOperation(c) PROVE FreshInv'
  BY <1>5 DEF FinishOperation
<1>6. ASSUME NEW s \in Searches, RefuseSearch(s) PROVE FreshInv'
  BY <1>6 DEF RefuseSearch
<1>7. ASSUME NEW s \in Searches, RegisterSearch(s) PROVE FreshInv'
  BY <1>7 DEF RegisterSearch, NextTicket
<1>8. ASSUME NEW s \in Searches, EndSearch(s) PROVE FreshInv'
  BY <1>8 DEF EndSearch
<1>9. ASSUME NEW s \in Searches, ReleaseSearch(s) PROVE FreshInv'
  BY <1>9 DEF ReleaseSearch, OwnSlot
<1>10. ASSUME NEW o \in Opens, ReserveSwitch(o) PROVE FreshInv'
  BY <1>10 DEF ReserveSwitch
<1>11. ASSUME NEW o \in Opens, DropSwitch(o) PROVE FreshInv'
  BY <1>11 DEF DropSwitch
<1>12. ASSUME NEW o \in Opens, BeginSwitch(o) PROVE FreshInv'
  BY <1>12 DEF BeginSwitch
<1>13. ASSUME NEW o \in Opens, OpenRepository(o) PROVE FreshInv'
  BY <1>13 DEF OpenRepository
<1>14. ASSUME NEW o \in Opens, FailOpen(o) PROVE FreshInv'
  BY <1>14 DEF FailOpen
<1>15. ASSUME NEW o \in Opens, CompleteSwitch(o) PROVE FreshInv'
  BY <1>15 DEF CompleteSwitch
<1>16. ASSUME NEW o \in Opens, FinishSwitch(o) PROVE FreshInv'
  BY <1>16 DEF FinishSwitch
<1>17. ASSUME NEW o \in Opens, FailSwitch(o) PROVE FreshInv'
  BY <1>17 DEF FailSwitch
<1>18. ASSUME NEW x \in Closes, CancelOperations(x) PROVE FreshInv'
  BY <1>18 DEF CancelOperations
<1>19. ASSUME NEW x \in Stops, CancelSearch(x) PROVE FreshInv'
  BY <1>19 DEF CancelSearch
<1>20. ASSUME NEW x \in Calls, CallCancel(x) PROVE FreshInv'
  BY <1>20 DEF CallCancel
<1>21. ASSUME UNCHANGED vars PROVE FreshInv'
  BY <1>21 DEF vars
<1> QED
  BY <1>1, <1>2, <1>3, <1>4, <1>5, <1>6, <1>7, <1>8, <1>9, <1>10,
     <1>11, <1>12, <1>13, <1>14, <1>15, <1>16, <1>17, <1>18, <1>19, <1>20, <1>21
     DEF Next, WorkerStep, SearchStep, SwitchStep

\* Nothing condemned is reprieved: a collected cancel function is called before
\* its caller collects others.
LEMMA CondemnedStep ==
  ASSUME IInv, [Next]_vars, NEW ctx PROVE Condemned(ctx) => Condemned(ctx)'
<1> USE DEF IInv, TypeOK, FreshInv, Condemned
<1>1. ASSUME NEW m \in Mutations, RequestMutation(m) PROVE Condemned(ctx) => Condemned(ctx)'
  BY <1>1, CallKindsAreDisjoint DEF RequestMutation, Calls, Workers
<1>2. ASSUME NEW c \in Workers, BeginOperation(c) PROVE Condemned(ctx) => Condemned(ctx)'
  BY <1>2, CallKindsAreDisjoint DEF BeginOperation, Calls, Workers, Entered
<1>3. ASSUME NEW c \in Workers, ReadRepository(c) PROVE Condemned(ctx) => Condemned(ctx)'
  BY <1>3, CallKindsAreDisjoint DEF ReadRepository, Calls, Workers
<1>4. ASSUME NEW c \in Workers, Work(c) PROVE Condemned(ctx) => Condemned(ctx)'
  BY <1>4, CallKindsAreDisjoint DEF Work, Calls, Workers
<1>5. ASSUME NEW c \in Workers, FinishOperation(c) PROVE Condemned(ctx) => Condemned(ctx)'
  BY <1>5, CallKindsAreDisjoint DEF FinishOperation, Calls, Workers
<1>6. ASSUME NEW s \in Searches, RefuseSearch(s) PROVE Condemned(ctx) => Condemned(ctx)'
  BY <1>6, CallKindsAreDisjoint DEF RefuseSearch, Calls, Workers
<1>7. ASSUME NEW s \in Searches, RegisterSearch(s) PROVE Condemned(ctx) => Condemned(ctx)'
  BY <1>7, CallKindsAreDisjoint DEF RegisterSearch, Calls, Workers
<1>8. ASSUME NEW s \in Searches, EndSearch(s) PROVE Condemned(ctx) => Condemned(ctx)'
  BY <1>8, CallKindsAreDisjoint DEF EndSearch, Calls, Workers
<1>9. ASSUME NEW s \in Searches, ReleaseSearch(s) PROVE Condemned(ctx) => Condemned(ctx)'
  BY <1>9, CallKindsAreDisjoint DEF ReleaseSearch, Calls, Workers
<1>10. ASSUME NEW o \in Opens, ReserveSwitch(o) PROVE Condemned(ctx) => Condemned(ctx)'
  BY <1>10, CallKindsAreDisjoint DEF ReserveSwitch, Calls, Workers
<1>11. ASSUME NEW o \in Opens, DropSwitch(o) PROVE Condemned(ctx) => Condemned(ctx)'
  BY <1>11, CallKindsAreDisjoint DEF DropSwitch, Calls, Workers
<1>12. ASSUME NEW o \in Opens, BeginSwitch(o) PROVE Condemned(ctx) => Condemned(ctx)'
  BY <1>12, CallKindsAreDisjoint DEF BeginSwitch, Calls, Workers
<1>13. ASSUME NEW o \in Opens, OpenRepository(o) PROVE Condemned(ctx) => Condemned(ctx)'
  BY <1>13, CallKindsAreDisjoint DEF OpenRepository, Calls, Workers
<1>14. ASSUME NEW o \in Opens, FailOpen(o) PROVE Condemned(ctx) => Condemned(ctx)'
  BY <1>14, CallKindsAreDisjoint DEF FailOpen, Calls, Workers
<1>15. ASSUME NEW o \in Opens, CompleteSwitch(o) PROVE Condemned(ctx) => Condemned(ctx)'
  BY <1>15, CallKindsAreDisjoint DEF CompleteSwitch, Calls, Workers
<1>16. ASSUME NEW o \in Opens, FinishSwitch(o) PROVE Condemned(ctx) => Condemned(ctx)'
  BY <1>16, CallKindsAreDisjoint DEF FinishSwitch, Calls, Workers
<1>17. ASSUME NEW o \in Opens, FailSwitch(o) PROVE Condemned(ctx) => Condemned(ctx)'
  BY <1>17, CallKindsAreDisjoint DEF FailSwitch, Calls, Workers
<1>18. ASSUME NEW x \in Closes, CancelOperations(x) PROVE Condemned(ctx) => Condemned(ctx)'
  BY <1>18, CallKindsAreDisjoint DEF CancelOperations, Calls, Workers
<1>19. ASSUME NEW x \in Stops, CancelSearch(x) PROVE Condemned(ctx) => Condemned(ctx)'
  BY <1>19, CallKindsAreDisjoint DEF CancelSearch, Calls, Workers
<1>20. ASSUME NEW x \in Calls, CallCancel(x) PROVE Condemned(ctx) => Condemned(ctx)'
  BY <1>20, CallKindsAreDisjoint DEF CallCancel, Calls, Workers
<1>21. ASSUME UNCHANGED vars PROVE Condemned(ctx) => Condemned(ctx)'
  BY <1>21 DEF vars
<1> QED
  BY <1>1, <1>2, <1>3, <1>4, <1>5, <1>6, <1>7, <1>8, <1>9, <1>10,
     <1>11, <1>12, <1>13, <1>14, <1>15, <1>16, <1>17, <1>18, <1>19, <1>20, <1>21
     DEF Next, WorkerStep, SearchStep, SwitchStep

\* What Open and CancelOperations condemn: every operation in the table, and
\* the search in the slot.
LEMMA SweepCondemns ==
  ASSUME IInv, [Next]_vars, NEW k \in Calls,
         doomed' = [doomed EXCEPT ![k] = Swept]
  PROVE  /\ \A c \in Workers : Begun(c) => Condemned(Op(c))'
         /\ \A t \in Searches : searchSlot = t => Condemned(Lookup(t))'
<1>1. \A x \in Swept : Condemned(x)'
  BY DEF Condemned, IInv, TypeOK
<1>2. ASSUME NEW c \in Workers, Begun(c) PROVE Condemned(Op(c))'
  <2>1. CASE Condemned(Op(c))
    BY <2>1, CondemnedStep
  <2>2. CASE ~Condemned(Op(c))
    BY <1>1, <1>2, <2>2 DEF IInv, TablesInv, Swept
  <2> QED
    BY <2>1, <2>2
<1>3. ASSUME NEW t \in Searches, searchSlot = t PROVE Condemned(Lookup(t))'
  BY <1>1, <1>3, NoValuesAreNew DEF Swept, SlotContext, Calls
<1> QED
  BY <1>2, <1>3

\* Begun operations stay registered, as the latest of their surface.
LEMMA TablesStep == IInv /\ [Next]_vars => TablesInv'
<1> SUFFICES ASSUME IInv, [Next]_vars PROVE TablesInv'
  OBVIOUS
<1> USE CallKindsAreDisjoint, NoValuesAreNew, OnlyReadsHaveSurfaces, CondemnedStep
       DEF IInv, TypeOK, KindInv, TablesInv, Goto, Calls, Workers, Begun
<1>1. ASSUME NEW m \in Mutations, RequestMutation(m) PROVE TablesInv'
  BY <1>1 DEF RequestMutation
<1>2. ASSUME NEW c \in Workers, BeginOperation(c) PROVE TablesInv'
  BY <1>2 DEF Entered, Replaced, Condemned, BeginOperation
<1>3. ASSUME NEW c \in Workers, ReadRepository(c) PROVE TablesInv'
  BY <1>3 DEF ReadRepository, Refuses
<1>4. ASSUME NEW c \in Workers, Work(c) PROVE TablesInv'
  BY <1>4 DEF Work
<1>5. ASSUME NEW c \in Workers, FinishOperation(c) PROVE TablesInv'
  BY <1>5 DEF FinishOperation
<1>6. ASSUME NEW s \in Searches, RefuseSearch(s) PROVE TablesInv'
  BY <1>6 DEF RefuseSearch
<1>7. ASSUME NEW s \in Searches, RegisterSearch(s) PROVE TablesInv'
  BY <1>7 DEF RegisterSearch, NextTicket
<1>8. ASSUME NEW s \in Searches, EndSearch(s) PROVE TablesInv'
  BY <1>8 DEF EndSearch
<1>9. ASSUME NEW s \in Searches, ReleaseSearch(s) PROVE TablesInv'
  BY <1>9 DEF ReleaseSearch, OwnSlot
<1>10. ASSUME NEW o \in Opens, ReserveSwitch(o) PROVE TablesInv'
  BY <1>10 DEF ReserveSwitch
<1>11. ASSUME NEW o \in Opens, DropSwitch(o) PROVE TablesInv'
  BY <1>11 DEF DropSwitch
<1>12. ASSUME NEW o \in Opens, BeginSwitch(o) PROVE TablesInv'
  <2>1. \A c \in Workers : Begun(c) => Condemned(Op(c))'
    BY <1>12, SweepCondemns DEF BeginSwitch, Calls
  <2>2. \A c \in Workers : Begun(c)' => Begun(c)
    BY <1>12 DEF BeginSwitch
  <2> QED
    BY <2>1, <2>2
<1>13. ASSUME NEW o \in Opens, OpenRepository(o) PROVE TablesInv'
  BY <1>13 DEF OpenRepository
<1>14. ASSUME NEW o \in Opens, FailOpen(o) PROVE TablesInv'
  BY <1>14 DEF FailOpen
<1>15. ASSUME NEW o \in Opens, CompleteSwitch(o) PROVE TablesInv'
  BY <1>15 DEF CompleteSwitch
<1>16. ASSUME NEW o \in Opens, FinishSwitch(o) PROVE TablesInv'
  BY <1>16 DEF FinishSwitch
<1>17. ASSUME NEW o \in Opens, FailSwitch(o) PROVE TablesInv'
  BY <1>17 DEF FailSwitch
<1>18. ASSUME NEW x \in Closes, CancelOperations(x) PROVE TablesInv'
  <2>1. \A c \in Workers : Begun(c) => Condemned(Op(c))'
    BY <1>18, SweepCondemns DEF CancelOperations, Calls
  <2>2. \A c \in Workers : Begun(c)' => Begun(c)
    BY <1>18 DEF CancelOperations
  <2> QED
    BY <2>1, <2>2
<1>19. ASSUME NEW x \in Stops, CancelSearch(x) PROVE TablesInv'
  BY <1>19 DEF CancelSearch
<1>20. ASSUME NEW x \in Calls, CallCancel(x) PROVE TablesInv'
  BY <1>20 DEF CallCancel
<1>21. ASSUME UNCHANGED vars PROVE TablesInv'
  BY <1>21 DEF vars
<1> QED
  BY <1>1, <1>2, <1>3, <1>4, <1>5, <1>6, <1>7, <1>8, <1>9, <1>10,
     <1>11, <1>12, <1>13, <1>14, <1>15, <1>16, <1>17, <1>18, <1>19, <1>20, <1>21
     DEF Next, WorkerStep, SearchStep, SwitchStep

\* An Open at work has condemned whoever is attached.
LEMMA SwitchStepInv == IInv /\ [Next]_vars => SwitchInv'
<1> SUFFICES ASSUME IInv, [Next]_vars PROVE SwitchInv'
  OBVIOUS
<1> USE CallKindsAreDisjoint, NoValuesAreNew, CondemnedStep
       DEF IInv, TypeOK, KindInv, LockInv, SwitchInv, Using, Lost, Goto, Calls, Workers
<1>1. ASSUME NEW m \in Mutations, RequestMutation(m) PROVE SwitchInv'
  BY <1>1 DEF RequestMutation
<1>2. ASSUME NEW c \in Workers, BeginOperation(c) PROVE SwitchInv'
  BY <1>2 DEF Entered, BeginOperation
<1>3. ASSUME NEW c \in Workers, ReadRepository(c) PROVE SwitchInv'
  BY <1>3 DEF ReadRepository, Refuses
<1>4. ASSUME NEW c \in Workers, Work(c) PROVE SwitchInv'
  BY <1>4 DEF Work
<1>5. ASSUME NEW c \in Workers, FinishOperation(c) PROVE SwitchInv'
  BY <1>5 DEF FinishOperation
<1>6. ASSUME NEW s \in Searches, RefuseSearch(s) PROVE SwitchInv'
  BY <1>6 DEF RefuseSearch
<1>7. ASSUME NEW s \in Searches, RegisterSearch(s) PROVE SwitchInv'
  BY <1>7 DEF RegisterSearch, NextTicket
<1>8. ASSUME NEW s \in Searches, EndSearch(s) PROVE SwitchInv'
  BY <1>8 DEF EndSearch
<1>9. ASSUME NEW s \in Searches, ReleaseSearch(s) PROVE SwitchInv'
  BY <1>9 DEF ReleaseSearch, OwnSlot
<1>10. ASSUME NEW o \in Opens, ReserveSwitch(o) PROVE SwitchInv'
  BY <1>10 DEF ReserveSwitch
<1>11. ASSUME NEW o \in Opens, DropSwitch(o) PROVE SwitchInv'
  BY <1>11 DEF DropSwitch
<1>12. ASSUME NEW o \in Opens, BeginSwitch(o) PROVE SwitchInv'
  <2>1. \A c \in Workers : Using(c)' => Begun(c)
    BY <1>12 DEF BeginSwitch, Begun
  <2>2. \A c \in Workers : Begun(c) => Lost(c)'
    BY <1>12, SweepCondemns DEF BeginSwitch
  <2>3. \A p \in Opens : pc'[p] \in {"work", "install"} => switching'
    BY <1>12 DEF BeginSwitch
  <2> QED
    BY <2>1, <2>2, <2>3
<1>13. ASSUME NEW o \in Opens, OpenRepository(o) PROVE SwitchInv'
  BY <1>13 DEF OpenRepository
<1>14. ASSUME NEW o \in Opens, FailOpen(o) PROVE SwitchInv'
  BY <1>14 DEF FailOpen
<1>15. ASSUME NEW o \in Opens, CompleteSwitch(o) PROVE SwitchInv'
  BY <1>15 DEF CompleteSwitch
<1>16. ASSUME NEW o \in Opens, FinishSwitch(o) PROVE SwitchInv'
  BY <1>16 DEF FinishSwitch
<1>17. ASSUME NEW o \in Opens, FailSwitch(o) PROVE SwitchInv'
  BY <1>17 DEF FailSwitch
<1>18. ASSUME NEW x \in Closes, CancelOperations(x) PROVE SwitchInv'
  BY <1>18 DEF CancelOperations
<1>19. ASSUME NEW x \in Stops, CancelSearch(x) PROVE SwitchInv'
  BY <1>19 DEF CancelSearch
<1>20. ASSUME NEW x \in Calls, CallCancel(x) PROVE SwitchInv'
  BY <1>20 DEF CallCancel
<1>21. ASSUME UNCHANGED vars PROVE SwitchInv'
  BY <1>21 DEF vars
<1> QED
  BY <1>1, <1>2, <1>3, <1>4, <1>5, <1>6, <1>7, <1>8, <1>9, <1>10,
     <1>11, <1>12, <1>13, <1>14, <1>15, <1>16, <1>17, <1>18, <1>19, <1>20, <1>21
     DEF Next, WorkerStep, SearchStep, SwitchStep

\* A new reservation is the largest one, and is pending.
LEMMA ReserveKeeps ==
  ASSUME IInv, NEW o \in Opens, ReserveSwitch(o) PROVE ReservationInv'
<1>1. /\ generation \in Nat /\ generation' = generation + 1
      /\ reserved' = [reserved EXCEPT ![o] = generation']
      /\ pc' = [pc EXCEPT ![o] = "lock"]
      /\ handle' = handle
  BY DEF IInv, TypeOK, ReserveSwitch, Goto
<1>2. o \in Calls /\ Opens \subseteq Calls
  BY DEF Calls
<1>3. /\ reserved \in [Calls -> Nat] /\ pc \in [Calls -> Locations]
      /\ \A p \in Opens : /\ reserved[p] <= generation
                          /\ pc[p] = "install" => handle[p] \in Repos
  BY DEF IInv, TypeOK, ReservationInv
<1>4. ASSUME NEW p \in Opens
      PROVE  reserved'[p] <= generation' /\ (pc'[p] = "install" => handle'[p] \in Repos)
  <2>1. CASE p = o
    <3>1. reserved'[p] = generation' /\ pc'[p] = "lock"
      BY <1>1, <1>2, <1>3, <2>1
    <3> QED
      BY <3>1, <1>1
  <2>2. CASE p # o
    <3>1. reserved'[p] = reserved[p] /\ pc'[p] = pc[p] /\ reserved[p] \in Nat
      BY <1>1, <1>2, <1>3, <2>2
    <3>2. reserved[p] <= generation
      BY <1>3
    <3>3. reserved[p] <= generation + 1
      BY <3>1, <3>2, <1>1
    <3>4. pc'[p] = "install" => handle'[p] \in Repos
      BY <3>1, <1>1, <1>3
    <3> QED
      BY <3>1, <3>3, <3>4, <1>1
  <2> QED
    BY <2>1, <2>2
<1>5. reserved'[o] = generation' /\ pc'[o] = "lock"
  BY <1>1, <1>2, <1>3
<1> QED
  BY <1>4, <1>5 DEF ReservationInv

\* The latest reservation stays pending while switching holds.
LEMMA ReservationStep == IInv /\ [Next]_vars => ReservationInv'
<1> SUFFICES ASSUME IInv, [Next]_vars PROVE ReservationInv'
  OBVIOUS
<1> USE CallKindsAreDisjoint
       DEF IInv, TypeOK, KindInv, LockInv, ReservationInv, Goto, Calls, Workers
<1>1. ASSUME NEW m \in Mutations, RequestMutation(m) PROVE ReservationInv'
  BY <1>1 DEF RequestMutation
<1>2. ASSUME NEW c \in Workers, BeginOperation(c) PROVE ReservationInv'
  BY <1>2 DEF Entered, BeginOperation
<1>3. ASSUME NEW c \in Workers, ReadRepository(c) PROVE ReservationInv'
  BY <1>3 DEF ReadRepository, Refuses
<1>4. ASSUME NEW c \in Workers, Work(c) PROVE ReservationInv'
  BY <1>4 DEF Work
<1>5. ASSUME NEW c \in Workers, FinishOperation(c) PROVE ReservationInv'
  BY <1>5 DEF FinishOperation
<1>6. ASSUME NEW s \in Searches, RefuseSearch(s) PROVE ReservationInv'
  BY <1>6 DEF RefuseSearch
<1>7. ASSUME NEW s \in Searches, RegisterSearch(s) PROVE ReservationInv'
  BY <1>7 DEF RegisterSearch, NextTicket
<1>8. ASSUME NEW s \in Searches, EndSearch(s) PROVE ReservationInv'
  BY <1>8 DEF EndSearch
<1>9. ASSUME NEW s \in Searches, ReleaseSearch(s) PROVE ReservationInv'
  BY <1>9 DEF ReleaseSearch, OwnSlot
<1>10. ASSUME NEW o \in Opens, ReserveSwitch(o) PROVE ReservationInv'
  BY <1>10, ReserveKeeps DEF ReserveSwitch
<1>11. ASSUME NEW o \in Opens, DropSwitch(o) PROVE ReservationInv'
  BY <1>11 DEF DropSwitch
<1>12. ASSUME NEW o \in Opens, BeginSwitch(o) PROVE ReservationInv'
  BY <1>12 DEF BeginSwitch
<1>13. ASSUME NEW o \in Opens, OpenRepository(o) PROVE ReservationInv'
  BY <1>13 DEF OpenRepository
<1>14. ASSUME NEW o \in Opens, FailOpen(o) PROVE ReservationInv'
  BY <1>14 DEF FailOpen
<1>15. ASSUME NEW o \in Opens, CompleteSwitch(o) PROVE ReservationInv'
  BY <1>15 DEF CompleteSwitch
<1>16. ASSUME NEW o \in Opens, FinishSwitch(o) PROVE ReservationInv'
  BY <1>16 DEF FinishSwitch
<1>17. ASSUME NEW o \in Opens, FailSwitch(o) PROVE ReservationInv'
  BY <1>17 DEF FailSwitch
<1>18. ASSUME NEW x \in Closes, CancelOperations(x) PROVE ReservationInv'
  BY <1>18 DEF CancelOperations
<1>19. ASSUME NEW x \in Stops, CancelSearch(x) PROVE ReservationInv'
  BY <1>19 DEF CancelSearch
<1>20. ASSUME NEW x \in Calls, CallCancel(x) PROVE ReservationInv'
  BY <1>20 DEF CallCancel
<1>21. ASSUME UNCHANGED vars PROVE ReservationInv'
  BY <1>21 DEF vars
<1> QED
  BY <1>1, <1>2, <1>3, <1>4, <1>5, <1>6, <1>7, <1>8, <1>9, <1>10,
     <1>11, <1>12, <1>13, <1>14, <1>15, <1>16, <1>17, <1>18, <1>19, <1>20, <1>21
     DEF Next, WorkerStep, SearchStep, SwitchStep

\* Tickets tell registered searches apart, and the slot holds the latest.
LEMMA SlotStep == IInv /\ [Next]_vars => SlotInv'
<1> SUFFICES ASSUME IInv, [Next]_vars PROVE SlotInv'
  OBVIOUS
<1> USE CallKindsAreDisjoint, NoValuesAreNew DEF IInv, TypeOK, KindInv, SlotInv, Goto, Calls, Workers
<1>1. ASSUME NEW m \in Mutations, RequestMutation(m) PROVE SlotInv'
  BY <1>1 DEF RequestMutation
<1>2. ASSUME NEW c \in Workers, BeginOperation(c) PROVE SlotInv'
  BY <1>2 DEF Entered, BeginOperation
<1>3. ASSUME NEW c \in Workers, ReadRepository(c) PROVE SlotInv'
  BY <1>3 DEF ReadRepository, Refuses
<1>4. ASSUME NEW c \in Workers, Work(c) PROVE SlotInv'
  BY <1>4 DEF Work
<1>5. ASSUME NEW c \in Workers, FinishOperation(c) PROVE SlotInv'
  BY <1>5 DEF FinishOperation
<1>6. ASSUME NEW s \in Searches, RefuseSearch(s) PROVE SlotInv'
  BY <1>6 DEF RefuseSearch
<1>7. ASSUME NEW s \in Searches, RegisterSearch(s) PROVE SlotInv'
  BY <1>7 DEF RegisterSearch, NextTicket
<1>8. ASSUME NEW s \in Searches, EndSearch(s) PROVE SlotInv'
  BY <1>8 DEF EndSearch
<1>9. ASSUME NEW s \in Searches, ReleaseSearch(s) PROVE SlotInv'
  BY <1>9 DEF ReleaseSearch, OwnSlot
<1>10. ASSUME NEW o \in Opens, ReserveSwitch(o) PROVE SlotInv'
  BY <1>10 DEF ReserveSwitch
<1>11. ASSUME NEW o \in Opens, DropSwitch(o) PROVE SlotInv'
  BY <1>11 DEF DropSwitch
<1>12. ASSUME NEW o \in Opens, BeginSwitch(o) PROVE SlotInv'
  BY <1>12 DEF BeginSwitch
<1>13. ASSUME NEW o \in Opens, OpenRepository(o) PROVE SlotInv'
  BY <1>13 DEF OpenRepository
<1>14. ASSUME NEW o \in Opens, FailOpen(o) PROVE SlotInv'
  BY <1>14 DEF FailOpen
<1>15. ASSUME NEW o \in Opens, CompleteSwitch(o) PROVE SlotInv'
  BY <1>15 DEF CompleteSwitch
<1>16. ASSUME NEW o \in Opens, FinishSwitch(o) PROVE SlotInv'
  BY <1>16 DEF FinishSwitch
<1>17. ASSUME NEW o \in Opens, FailSwitch(o) PROVE SlotInv'
  BY <1>17 DEF FailSwitch
<1>18. ASSUME NEW x \in Closes, CancelOperations(x) PROVE SlotInv'
  BY <1>18 DEF CancelOperations
<1>19. ASSUME NEW x \in Stops, CancelSearch(x) PROVE SlotInv'
  BY <1>19 DEF CancelSearch
<1>20. ASSUME NEW x \in Calls, CallCancel(x) PROVE SlotInv'
  BY <1>20 DEF CallCancel
<1>21. ASSUME UNCHANGED vars PROVE SlotInv'
  BY <1>21 DEF vars
<1> QED
  BY <1>1, <1>2, <1>3, <1>4, <1>5, <1>6, <1>7, <1>8, <1>9, <1>10,
     <1>11, <1>12, <1>13, <1>14, <1>15, <1>16, <1>17, <1>18, <1>19, <1>20, <1>21
     DEF Next, WorkerStep, SearchStep, SwitchStep

\* No live worker is left on another repository.
LEMMA LiveStep == IInv /\ [Next]_vars => LiveWorkIsCurrent'
<1> SUFFICES ASSUME IInv, [Next]_vars PROVE LiveWorkIsCurrent'
  OBVIOUS
<1> USE CallKindsAreDisjoint, NoValuesAreNew, CondemnedStep
       DEF IInv, TypeOK, KindInv, SwitchInv, LiveWorkIsCurrent, Using, Lost, Goto, Calls, Workers
<1>1. ASSUME NEW m \in Mutations, RequestMutation(m) PROVE LiveWorkIsCurrent'
  BY <1>1 DEF RequestMutation
<1>2. ASSUME NEW c \in Workers, BeginOperation(c) PROVE LiveWorkIsCurrent'
  BY <1>2 DEF Entered, BeginOperation
<1>3. ASSUME NEW c \in Workers, ReadRepository(c) PROVE LiveWorkIsCurrent'
  BY <1>3 DEF ReadRepository, Refuses
<1>4. ASSUME NEW c \in Workers, Work(c) PROVE LiveWorkIsCurrent'
  BY <1>4 DEF Work
<1>5. ASSUME NEW c \in Workers, FinishOperation(c) PROVE LiveWorkIsCurrent'
  BY <1>5 DEF FinishOperation
<1>6. ASSUME NEW s \in Searches, RefuseSearch(s) PROVE LiveWorkIsCurrent'
  BY <1>6 DEF RefuseSearch
<1>7. ASSUME NEW s \in Searches, RegisterSearch(s) PROVE LiveWorkIsCurrent'
  BY <1>7 DEF RegisterSearch, NextTicket
<1>8. ASSUME NEW s \in Searches, EndSearch(s) PROVE LiveWorkIsCurrent'
  BY <1>8 DEF EndSearch
<1>9. ASSUME NEW s \in Searches, ReleaseSearch(s) PROVE LiveWorkIsCurrent'
  BY <1>9 DEF ReleaseSearch, OwnSlot
<1>10. ASSUME NEW o \in Opens, ReserveSwitch(o) PROVE LiveWorkIsCurrent'
  BY <1>10 DEF ReserveSwitch
<1>11. ASSUME NEW o \in Opens, DropSwitch(o) PROVE LiveWorkIsCurrent'
  BY <1>11 DEF DropSwitch
<1>12. ASSUME NEW o \in Opens, BeginSwitch(o) PROVE LiveWorkIsCurrent'
  BY <1>12 DEF BeginSwitch
<1>13. ASSUME NEW o \in Opens, OpenRepository(o) PROVE LiveWorkIsCurrent'
  BY <1>13 DEF OpenRepository
<1>14. ASSUME NEW o \in Opens, FailOpen(o) PROVE LiveWorkIsCurrent'
  BY <1>14 DEF FailOpen
<1>15. ASSUME NEW o \in Opens, CompleteSwitch(o) PROVE LiveWorkIsCurrent'
  BY <1>15 DEF CompleteSwitch
<1>16. ASSUME NEW o \in Opens, FinishSwitch(o) PROVE LiveWorkIsCurrent'
  BY <1>16 DEF FinishSwitch
<1>17. ASSUME NEW o \in Opens, FailSwitch(o) PROVE LiveWorkIsCurrent'
  BY <1>17 DEF FailSwitch
<1>18. ASSUME NEW x \in Closes, CancelOperations(x) PROVE LiveWorkIsCurrent'
  BY <1>18 DEF CancelOperations
<1>19. ASSUME NEW x \in Stops, CancelSearch(x) PROVE LiveWorkIsCurrent'
  BY <1>19 DEF CancelSearch
<1>20. ASSUME NEW x \in Calls, CallCancel(x) PROVE LiveWorkIsCurrent'
  BY <1>20 DEF CallCancel
<1>21. ASSUME UNCHANGED vars PROVE LiveWorkIsCurrent'
  BY <1>21 DEF vars
<1> QED
  BY <1>1, <1>2, <1>3, <1>4, <1>5, <1>6, <1>7, <1>8, <1>9, <1>10,
     <1>11, <1>12, <1>13, <1>14, <1>15, <1>16, <1>17, <1>18, <1>19, <1>20, <1>21
     DEF Next, WorkerStep, SearchStep, SwitchStep

\* A mutation keeps the repository under its feet.
LEMMA MutationsStep == IInv /\ [Next]_vars => MutationsStayCurrent'
<1> SUFFICES ASSUME IInv, [Next]_vars PROVE MutationsStayCurrent'
  OBVIOUS
<1> USE CallKindsAreDisjoint, NoValuesAreNew
       DEF IInv, TypeOK, KindInv, LockInv, MutationsStayCurrent, Goto, Calls, Workers
<1>1. ASSUME NEW m \in Mutations, RequestMutation(m) PROVE MutationsStayCurrent'
  BY <1>1 DEF RequestMutation
<1>2. ASSUME NEW c \in Workers, BeginOperation(c) PROVE MutationsStayCurrent'
  BY <1>2 DEF Entered, BeginOperation
<1>3. ASSUME NEW c \in Workers, ReadRepository(c) PROVE MutationsStayCurrent'
  BY <1>3 DEF ReadRepository, Refuses
<1>4. ASSUME NEW c \in Workers, Work(c) PROVE MutationsStayCurrent'
  BY <1>4 DEF Work
<1>5. ASSUME NEW c \in Workers, FinishOperation(c) PROVE MutationsStayCurrent'
  BY <1>5 DEF FinishOperation
<1>6. ASSUME NEW s \in Searches, RefuseSearch(s) PROVE MutationsStayCurrent'
  BY <1>6 DEF RefuseSearch
<1>7. ASSUME NEW s \in Searches, RegisterSearch(s) PROVE MutationsStayCurrent'
  BY <1>7 DEF RegisterSearch, NextTicket
<1>8. ASSUME NEW s \in Searches, EndSearch(s) PROVE MutationsStayCurrent'
  BY <1>8 DEF EndSearch
<1>9. ASSUME NEW s \in Searches, ReleaseSearch(s) PROVE MutationsStayCurrent'
  BY <1>9 DEF ReleaseSearch, OwnSlot
<1>10. ASSUME NEW o \in Opens, ReserveSwitch(o) PROVE MutationsStayCurrent'
  BY <1>10 DEF ReserveSwitch
<1>11. ASSUME NEW o \in Opens, DropSwitch(o) PROVE MutationsStayCurrent'
  BY <1>11 DEF DropSwitch
<1>12. ASSUME NEW o \in Opens, BeginSwitch(o) PROVE MutationsStayCurrent'
  BY <1>12 DEF BeginSwitch
<1>13. ASSUME NEW o \in Opens, OpenRepository(o) PROVE MutationsStayCurrent'
  BY <1>13 DEF OpenRepository
<1>14. ASSUME NEW o \in Opens, FailOpen(o) PROVE MutationsStayCurrent'
  BY <1>14 DEF FailOpen
<1>15. ASSUME NEW o \in Opens, CompleteSwitch(o) PROVE MutationsStayCurrent'
  BY <1>15 DEF CompleteSwitch
<1>16. ASSUME NEW o \in Opens, FinishSwitch(o) PROVE MutationsStayCurrent'
  BY <1>16 DEF FinishSwitch
<1>17. ASSUME NEW o \in Opens, FailSwitch(o) PROVE MutationsStayCurrent'
  BY <1>17 DEF FailSwitch
<1>18. ASSUME NEW x \in Closes, CancelOperations(x) PROVE MutationsStayCurrent'
  BY <1>18 DEF CancelOperations
<1>19. ASSUME NEW x \in Stops, CancelSearch(x) PROVE MutationsStayCurrent'
  BY <1>19 DEF CancelSearch
<1>20. ASSUME NEW x \in Calls, CallCancel(x) PROVE MutationsStayCurrent'
  BY <1>20 DEF CallCancel
<1>21. ASSUME UNCHANGED vars PROVE MutationsStayCurrent'
  BY <1>21 DEF vars
<1> QED
  BY <1>1, <1>2, <1>3, <1>4, <1>5, <1>6, <1>7, <1>8, <1>9, <1>10,
     <1>11, <1>12, <1>13, <1>14, <1>15, <1>16, <1>17, <1>18, <1>19, <1>20, <1>21
     DEF Next, WorkerStep, SearchStep, SwitchStep

\* The slot never loses a running search.
LEMMA ReachableStep == IInv /\ [Next]_vars => RunningSearchIsReachable'
<1> SUFFICES ASSUME IInv, [Next]_vars PROVE RunningSearchIsReachable'
  OBVIOUS
<1> USE CallKindsAreDisjoint, NoValuesAreNew, CondemnedStep
       DEF IInv, TypeOK, KindInv, SlotInv, RunningSearchIsReachable, Lost, Goto, Calls, Workers
<1>1. ASSUME NEW m \in Mutations, RequestMutation(m) PROVE RunningSearchIsReachable'
  BY <1>1 DEF RequestMutation
<1>2. ASSUME NEW c \in Workers, BeginOperation(c) PROVE RunningSearchIsReachable'
  BY <1>2 DEF Entered, BeginOperation
<1>3. ASSUME NEW c \in Workers, ReadRepository(c) PROVE RunningSearchIsReachable'
  BY <1>3 DEF ReadRepository, Refuses
<1>4. ASSUME NEW c \in Workers, Work(c) PROVE RunningSearchIsReachable'
  BY <1>4 DEF Work
<1>5. ASSUME NEW c \in Workers, FinishOperation(c) PROVE RunningSearchIsReachable'
  BY <1>5 DEF FinishOperation
<1>6. ASSUME NEW s \in Searches, RefuseSearch(s) PROVE RunningSearchIsReachable'
  BY <1>6 DEF RefuseSearch
<1>7. ASSUME NEW s \in Searches, RegisterSearch(s) PROVE RunningSearchIsReachable'
  <2>1. \A t \in Searches : searchSlot = t => Condemned(Lookup(t))'
    BY <1>7 DEF RegisterSearch, SlotContext, Condemned
  <2>2. \A t \in Searches \ {s} : pc'[t] = "searching" => pc[t] = "searching"
    BY <1>7 DEF RegisterSearch, NextTicket
  <2>3. \A t \in Searches : pc[t] = "searching" => Lost(t) \/ searchSlot = t
    OBVIOUS
  <2> QED
    BY <1>7, <2>1, <2>2, <2>3 DEF RegisterSearch, NextTicket
<1>8. ASSUME NEW s \in Searches, EndSearch(s) PROVE RunningSearchIsReachable'
  BY <1>8 DEF EndSearch
<1>9. ASSUME NEW s \in Searches, ReleaseSearch(s) PROVE RunningSearchIsReachable'
  BY <1>9 DEF ReleaseSearch, OwnSlot
<1>10. ASSUME NEW o \in Opens, ReserveSwitch(o) PROVE RunningSearchIsReachable'
  BY <1>10 DEF ReserveSwitch
<1>11. ASSUME NEW o \in Opens, DropSwitch(o) PROVE RunningSearchIsReachable'
  BY <1>11 DEF DropSwitch
<1>12. ASSUME NEW o \in Opens, BeginSwitch(o) PROVE RunningSearchIsReachable'
  <2>1. \A t \in Searches : Begun(t) => Condemned(Op(t))'
    BY <1>12, SweepCondemns DEF BeginSwitch
  <2>2. \A t \in Searches : pc'[t] = "searching" => Begun(t)
    BY <1>12 DEF BeginSwitch, Begun
  <2> QED
    BY <2>1, <2>2
<1>13. ASSUME NEW o \in Opens, OpenRepository(o) PROVE RunningSearchIsReachable'
  BY <1>13 DEF OpenRepository
<1>14. ASSUME NEW o \in Opens, FailOpen(o) PROVE RunningSearchIsReachable'
  BY <1>14 DEF FailOpen
<1>15. ASSUME NEW o \in Opens, CompleteSwitch(o) PROVE RunningSearchIsReachable'
  BY <1>15 DEF CompleteSwitch
<1>16. ASSUME NEW o \in Opens, FinishSwitch(o) PROVE RunningSearchIsReachable'
  BY <1>16 DEF FinishSwitch
<1>17. ASSUME NEW o \in Opens, FailSwitch(o) PROVE RunningSearchIsReachable'
  BY <1>17 DEF FailSwitch
<1>18. ASSUME NEW x \in Closes, CancelOperations(x) PROVE RunningSearchIsReachable'
  <2>1. \A t \in Searches : Begun(t) => Condemned(Op(t))'
    BY <1>18, SweepCondemns DEF CancelOperations
  <2>2. \A t \in Searches : pc'[t] = "searching" => Begun(t)
    BY <1>18 DEF CancelOperations, Begun
  <2> QED
    BY <2>1, <2>2
<1>19. ASSUME NEW x \in Stops, CancelSearch(x) PROVE RunningSearchIsReachable'
  <2>1. \A t \in Searches : searchSlot = t => Condemned(Lookup(t))'
    BY <1>19 DEF CancelSearch, SlotContext, Condemned
  <2>2. \A t \in Searches : pc'[t] = "searching" => pc[t] = "searching"
    BY <1>19 DEF CancelSearch
  <2>3. \A t \in Searches : pc[t] = "searching" => Lost(t) \/ searchSlot = t
    OBVIOUS
  <2> QED
    BY <1>19, <2>1, <2>2, <2>3 DEF CancelSearch
<1>20. ASSUME NEW x \in Calls, CallCancel(x) PROVE RunningSearchIsReachable'
  BY <1>20 DEF CallCancel
<1>21. ASSUME UNCHANGED vars PROVE RunningSearchIsReachable'
  BY <1>21 DEF vars
<1> QED
  BY <1>1, <1>2, <1>3, <1>4, <1>5, <1>6, <1>7, <1>8, <1>9, <1>10,
     <1>11, <1>12, <1>13, <1>14, <1>15, <1>16, <1>17, <1>18, <1>19, <1>20, <1>21
     DEF Next, WorkerStep, SearchStep, SwitchStep

\* The inductive invariant holds initially.
LEMMA InitIInv == Init => IInv
<1> SUFFICES ASSUME Init PROVE IInv
  OBVIOUS
<1>1. TypeOK
  BY InitTypeOK
<1>2. KindInv /\ FreshInv /\ TablesInv /\ SwitchInv /\ LiveWorkIsCurrent
        /\ MutationsStayCurrent /\ RunningSearchIsReachable
  BY DEF Init, KindInv, FreshInv, TablesInv, SwitchInv, LiveWorkIsCurrent, Calls, Workers,
         MutationsStayCurrent, RunningSearchIsReachable, Using, Begun
<1>3. LockInv /\ SlotInv
  BY NoValuesAreNew DEF Init, LockInv, SlotInv, Calls
<1>4. ReservationInv
  BY DEF Init, ReservationInv, Calls
<1> QED
  BY <1>1, <1>2, <1>3, <1>4 DEF IInv

\* Every step of the service preserves it.
LEMMA NextIInv == IInv /\ [Next]_vars => IInv'
BY NextTypeOK, KindStep, LockStep, FreshStep, TablesStep, SwitchStepInv, ReservationStep,
   SlotStep, LiveStep, MutationsStep, ReachableStep DEF IInv

\* The inductive invariant holds in every reachable state.
THEOREM Invariant == Spec => []IInv
BY InitIInv, NextIInv, PTL DEF Spec

--------------------------------------------------------------------------------
(* The safety properties.                                                    *)

\* A worker nobody has condemned works on the active repository: Open leaves
\* no live read, search or mutation behind on the repository it replaces.
THEOREM LiveWorkCurrent == Spec => []LiveWorkIsCurrent
BY Invariant, PTL DEF IInv

\* A mutation never sees the active repository replaced under it.
THEOREM MutationsCurrent == Spec => []MutationsStayCurrent
BY Invariant, PTL DEF IInv

\* A running search nobody has condemned is in the slot, within reach of
\* CancelSearch, CancelOperations and Open.
THEOREM SearchReachable == Spec => []RunningSearchIsReachable
BY Invariant, PTL DEF IInv

\* Of the reads of one surface at most one still counts.
THEOREM LatestRequestWins == Spec => []LatestWins
<1>1. IInv => LatestWins
  BY DEF IInv, TablesInv, LatestWins, Lost, Workers
<1> QED
  BY <1>1, Invariant, PTL

\* While currentRepository refuses, an Open holds rewriteMu or is queueing for
\* it under the latest reservation.
THEOREM SwitchingOwned == Spec => []SwitchingIsOwned
<1>1. IInv => SwitchingIsOwned
  BY DEF IInv, ReservationInv, LockInv, SwitchingIsOwned
<1> QED
  BY <1>1, Invariant, PTL

--------------------------------------------------------------------------------
(* DesktopService implements RepositorySession.                              *)

\* The refinement mapping's image of attached, in a state and the next one.
Attached == [c \in Workers |-> IF Using(c) /\ ~Lost(c) THEN handle[c] ELSE NoRepo]

\* A step that attaches nobody anew and keeps the repository is a Detach.
LEMMA DetachStep ==
  ASSUME repository' = repository,
         \A c \in Workers : Attached'[c] \in {Attached[c], NoRepo}
  PROVE  Session!SessionNext
<1>1. PICK S \in SUBSET Workers : S = {c \in Workers : Attached'[c] = NoRepo}
  OBVIOUS
<1>2. Attached' = [c \in Workers |-> IF c \in S THEN NoRepo ELSE Attached[c]]
  BY <1>1 DEF Attached
<1>3. Session!Detach(S)
  BY <1>2 DEF Session!Detach, Attached
<1>4. \E T \in SUBSET Workers : Session!Detach(T)
  BY <1>3
<1> QED
  BY <1>4 DEF Session!SessionNext

\* currentRepository attaches a worker that still counts, alone on its surface.
LEMMA AttachStep ==
  ASSUME IInv, [Next]_vars, NEW c \in Workers, ReadRepository(c)
  PROVE  [Session!SessionNext]_Session!sessionVars
<1> USE DEF IInv, TypeOK
<1>1. /\ repository' = repository
      /\ \A d \in Workers \ {c} : Attached'[d] = Attached[d]
  BY DEF ReadRepository, Refuses, Attached, Using, Lost, Condemned, Goto, Calls, Workers
<1>2. CASE Attached'[c] = NoRepo
  BY <1>1, <1>2, DetachStep
<1>3. CASE Attached'[c] # NoRepo
  <2>1. ~Lost(c) /\ repository # NoRepo /\ Attached'[c] = repository /\ Begun(c)
    BY <1>3 DEF ReadRepository, Refuses, Attached, Using, Lost, Condemned, Goto, Calls, Workers, Begun
  <2>2. Attached' = [Attached EXCEPT ![c] = repository]
    BY <1>1, <2>1 DEF Attached
  <2>3. ASSUME NEW d \in Workers \ {c}, Surface[c] \in Surfaces, Surface[d] = Surface[c]
        PROVE  Attached[d] = NoRepo
    BY <2>1, <2>3 DEF TablesInv, Attached, Using, Begun, Lost
  <2>4. Session!Attach(c)
    BY <1>1, <2>1, <2>2, <2>3 DEF Session!Attach, Attached
  <2> QED
    BY <2>4 DEF Session!SessionNext
<1> QED
  BY <1>2, <1>3

\* completeRepositorySwitch installs while nobody that counts is attached.
LEMMA InstallStep ==
  ASSUME IInv, [Next]_vars, NEW o \in Opens, CompleteSwitch(o)
  PROVE  [Session!SessionNext]_Session!sessionVars
<1> USE DEF IInv, TypeOK
<1>1. \A c \in Workers : Attached'[c] = Attached[c]
  BY CallKindsAreDisjoint DEF CompleteSwitch, Attached, Using, Lost, Condemned, Goto, Calls, Workers
<1>2. Attached' = Attached
  BY <1>1 DEF Attached
<1>3. CASE reserved[o] = generation
  <2>1. \A c \in Workers : Attached[c] = NoRepo
    BY DEF SwitchInv, Attached, CompleteSwitch
  <2>2. Session!Install(handle[o])
    BY <1>2, <1>3, <2>1 DEF Session!Install, CompleteSwitch, Attached
  <2>3. handle[o] \in Repos
    BY DEF ReservationInv, CompleteSwitch
  <2> QED
    BY <2>2, <2>3 DEF Session!SessionNext
<1>4. CASE reserved[o] # generation
  BY <1>2, <1>4 DEF CompleteSwitch, Session!sessionVars, Attached
<1> QED
  BY <1>3, <1>4

\* Every step of the service is a step of the session, or a stutter.
LEMMA RefinementStep == IInv /\ [Next]_vars => [Session!SessionNext]_Session!sessionVars
<1> SUFFICES ASSUME IInv, [Next]_vars PROVE [Session!SessionNext]_Session!sessionVars
  OBVIOUS
<1> DEFINE NoneAttaches == \A c \in Workers : Using(c)' => Using(c) /\ handle'[c] = handle[c]
<1> USE CallKindsAreDisjoint DEF IInv, TypeOK, KindInv, Using, Goto, Calls, Workers
<1>1. CASE \E c \in Workers : ReadRepository(c)
  BY <1>1, AttachStep
<1>2. CASE \E o \in Opens : CompleteSwitch(o)
  BY <1>2, InstallStep
<1>3. ASSUME NoneAttaches, repository' = repository PROVE Session!SessionNext
  <2>1. \A c \in Workers : Lost(c) => Lost(c)'
    BY CondemnedStep DEF Lost
  <2>2. \A c \in Workers : Attached'[c] \in {Attached[c], NoRepo}
    BY <1>3, <2>1 DEF Attached
  <2> QED
    BY <1>3, <2>2, DetachStep
<1>4. ASSUME NEW m \in Mutations, RequestMutation(m) PROVE NoneAttaches /\ repository' = repository
  BY <1>4 DEF RequestMutation
<1>5. ASSUME NEW c \in Workers, BeginOperation(c) PROVE NoneAttaches /\ repository' = repository
  BY <1>5 DEF BeginOperation, Entered
<1>6. ASSUME NEW c \in Workers, Work(c) PROVE NoneAttaches /\ repository' = repository
  BY <1>6 DEF Work
<1>7. ASSUME NEW c \in Workers, FinishOperation(c) PROVE NoneAttaches /\ repository' = repository
  BY <1>7 DEF FinishOperation
<1>8. ASSUME NEW s \in Searches, RefuseSearch(s) PROVE NoneAttaches /\ repository' = repository
  BY <1>8 DEF RefuseSearch
<1>9. ASSUME NEW s \in Searches, RegisterSearch(s) PROVE NoneAttaches /\ repository' = repository
  BY <1>9 DEF RegisterSearch, NextTicket
<1>10. ASSUME NEW s \in Searches, EndSearch(s) PROVE NoneAttaches /\ repository' = repository
  BY <1>10 DEF EndSearch
<1>11. ASSUME NEW s \in Searches, ReleaseSearch(s) PROVE NoneAttaches /\ repository' = repository
  BY <1>11 DEF ReleaseSearch, OwnSlot
<1>12. ASSUME NEW o \in Opens, ReserveSwitch(o) PROVE NoneAttaches /\ repository' = repository
  BY <1>12 DEF ReserveSwitch
<1>13. ASSUME NEW o \in Opens, DropSwitch(o) PROVE NoneAttaches /\ repository' = repository
  BY <1>13 DEF DropSwitch
<1>14. ASSUME NEW o \in Opens, BeginSwitch(o) PROVE NoneAttaches /\ repository' = repository
  BY <1>14 DEF BeginSwitch
<1>15. ASSUME NEW o \in Opens, OpenRepository(o) PROVE NoneAttaches /\ repository' = repository
  BY <1>15 DEF OpenRepository
<1>16. ASSUME NEW o \in Opens, FailOpen(o) PROVE NoneAttaches /\ repository' = repository
  BY <1>16 DEF FailOpen
<1>17. ASSUME NEW o \in Opens, FinishSwitch(o) PROVE NoneAttaches /\ repository' = repository
  BY <1>17 DEF FinishSwitch
<1>18. ASSUME NEW o \in Opens, FailSwitch(o) PROVE NoneAttaches /\ repository' = repository
  BY <1>18 DEF FailSwitch
<1>19. ASSUME NEW x \in Closes, CancelOperations(x) PROVE NoneAttaches /\ repository' = repository
  BY <1>19 DEF CancelOperations
<1>20. ASSUME NEW x \in Stops, CancelSearch(x) PROVE NoneAttaches /\ repository' = repository
  BY <1>20 DEF CancelSearch
<1>21. ASSUME NEW x \in Calls, CallCancel(x) PROVE NoneAttaches /\ repository' = repository
  BY <1>21 DEF CallCancel
<1>22. ASSUME UNCHANGED vars PROVE NoneAttaches /\ repository' = repository
  BY <1>22 DEF vars
<1> QED
  BY <1>1, <1>2, <1>3, <1>4, <1>5, <1>6, <1>7, <1>8, <1>9, <1>10, <1>11,
     <1>12, <1>13, <1>14, <1>15, <1>16, <1>17, <1>18, <1>19, <1>20, <1>21, <1>22
     DEF Next, WorkerStep, SearchStep, SwitchStep

\* The interleaved service implements the session: the active repository is
\* replaced only while no call that counts is attached to another one, and a
\* read surface serves one call at a time.
THEOREM ImplementsSession == Spec => SessionSpec
<1>1. Init => Session!SessionInit
  BY DEF Init, Session!SessionInit, Using, Calls, Workers
<1>2. IInv /\ [Next]_vars => [Session!SessionNext]_Session!sessionVars
  BY RefinementStep
<1> QED
  BY <1>1, <1>2, Invariant, PTL DEF Spec, SessionSpec, Session!SessionSpec
================================================================================
