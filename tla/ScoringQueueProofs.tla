------------------------- MODULE ScoringQueueProofs -------------------------
(***************************************************************************)
(* Proofs about ScoringQueue for every set of flights, every number of     *)
(* workers and every bound on the faults.                                  *)
(***************************************************************************)
EXTENDS ScoringQueue, TLAPS, FiniteSetTheorems, SequenceTheorems

LEMMA TicketFacts ==
  /\ \A f \in Flights : /\ UploadTicket(f) \in Ticket
                        /\ RecoveryTicket(f) \in Ticket
                        /\ UploadTicket(f) # RecoveryTicket(f)
                        /\ FlightOf(UploadTicket(f)) = f
                        /\ FlightOf(RecoveryTicket(f)) = f
  /\ \A t \in Ticket : /\ FlightOf(t) \in Flights
                       /\ \/ t = UploadTicket(FlightOf(t))
                          \/ t = RecoveryTicket(FlightOf(t))
BY DEF Ticket, UploadTicket, RecoveryTicket, FlightOf

LEMMA AppendContains ==
  ASSUME NEW S, NEW s \in Seq(S), NEW e \in S
  PROVE  \A x : Contains(Append(s, e), x) <=> Contains(s, x) \/ x = e
BY AppendProperties, LenProperties DEF Contains

LEMMA TailContains ==
  ASSUME NEW S, NEW s \in Seq(S), s # <<>>
  PROVE  /\ Contains(s, Head(s))
         /\ \A x : Contains(Tail(s), x) => Contains(s, x)
         /\ \A x : Contains(s, x) => Contains(Tail(s), x) \/ x = Head(s)
<1>1. /\ Len(Tail(s)) = Len(s) - 1
      /\ Len(s) \in Nat \ {0}
      /\ Head(s) = s[1]
      /\ \A i \in 1..Len(Tail(s)) : Tail(s)[i] = s[i + 1]
  BY HeadTailProperties, EmptySeq, LenProperties
<1>2. Contains(s, Head(s))
  BY <1>1 DEF Contains
<1>3. ASSUME NEW x, Contains(Tail(s), x) PROVE Contains(s, x)
  <2>1. PICK i \in 1..Len(Tail(s)) : Tail(s)[i] = x
    BY <1>3 DEF Contains
  <2>2. i + 1 \in 1..Len(s) /\ s[i + 1] = x
    BY <1>1, <2>1
  <2> QED
    BY <2>2 DEF Contains
<1>4. ASSUME NEW x, Contains(s, x), x # Head(s) PROVE Contains(Tail(s), x)
  <2>1. PICK i \in 1..Len(s) : s[i] = x
    BY <1>4 DEF Contains
  <2>2. i - 1 \in 1..Len(Tail(s)) /\ Tail(s)[i - 1] = x
    BY <1>1, <1>4, <2>1
  <2> QED
    BY <2>2 DEF Contains
<1> QED
  BY <1>2, <1>3, <1>4

-----------------------------------------------------------------------------
(* Types.                                                                  *)

LEMMA TypeInit == Init => TypeOK
BY WorkerCountAssumption, FaultLoadsAssumption DEF Init, TypeOK, HandlerState

LEMMA SpendType ==
  ASSUME TypeOK, NEW kind \in Fault, Spend(kind)
  PROVE  spent' \in [Fault -> Nat]
BY DEF TypeOK, Spend

LEMMA TypeStep ==
  ASSUME TypeOK, [Next]_vars
  PROVE  TypeOK'
<1>1. ASSUME NEW f \in Flights, Persist(f) PROVE TypeOK'
  BY <1>1, TypeOK DEF Persist, Proceed, dispVars, poolVars, TypeOK,
     HandlerState
<1>2. ASSUME NEW f \in Flights, Register(f) PROVE TypeOK'
  BY <1>2, TypeOK DEF Register, Proceed, dbVars, dispVars, poolVars, TypeOK,
     HandlerState
<1>3. ASSUME NEW f \in Flights, EnqueueInsert(f) PROVE TypeOK'
  BY <1>3, TypeOK DEF EnqueueInsert, Proceed, dispVars, poolVars, TypeOK,
     HandlerState, JobState
<1>4. ASSUME NEW f \in Flights, EnqueueRefused(f) PROVE TypeOK'
  BY <1>4, TypeOK DEF EnqueueRefused, Proceed, dbVars, dispVars, poolVars,
     TypeOK, HandlerState
<1>5. ASSUME NEW f \in Flights, EnqueueError(f) PROVE TypeOK'
  BY <1>5, TypeOK, SpendType DEF EnqueueError, Proceed, dbVars, dispVars,
     poolVars, TypeOK, Fault, HandlerState
<1>6. ASSUME NEW f \in Flights, EnqueueSend(f) PROVE TypeOK'
  BY <1>6, TypeOK, TicketFacts, AppendProperties DEF EnqueueSend, Proceed,
     Send, dbVars, poolVars, TypeOK, HandlerState
<1>7. ASSUME NEW f \in Flights, AnswerScored(f) PROVE TypeOK'
  BY <1>7, TypeOK DEF AnswerScored, Proceed, dbVars, dispVars, poolVars,
     TypeOK, HandlerState
<1>8. ASSUME NEW f \in Flights, WaitExpires(f) PROVE TypeOK'
  BY <1>8, TypeOK DEF WaitExpires, Proceed, dbVars, dispVars, poolVars,
     TypeOK, HandlerState
<1>9. ASSUME NEW f \in Flights, AnswerPosition(f) PROVE TypeOK'
  BY <1>9, TypeOK DEF AnswerPosition, Proceed, dbVars, dispVars, poolVars,
     TypeOK, HandlerState
<1>10. ASSUME NEW f \in Flights, Disconnect(f) PROVE TypeOK'
  BY <1>10, TypeOK, SpendType DEF Disconnect, dbVars, dispVars, poolVars,
     TypeOK, Fault, HandlerState
<1>11. ASSUME NEW f \in Flights, Delete(f) PROVE TypeOK'
  BY <1>11, TypeOK DEF Delete, httpVars, dispVars, poolVars, TypeOK
<1>12. ASSUME NEW f \in Flights, RecoverSend(f) PROVE TypeOK'
  BY <1>12, TypeOK, TicketFacts, AppendProperties DEF RecoverSend, Send,
     dbVars, httpVars, poolVars, TypeOK
<1>13. ASSUME RecoverReset PROVE TypeOK'
  BY <1>13, TypeOK DEF RecoverReset, httpVars, poolVars, TypeOK, JobState
<1>14. ASSUME RecoverSelect PROVE TypeOK'
  BY <1>14, TypeOK DEF RecoverSelect, dbVars, httpVars, poolVars, TypeOK,
     Queued
<1>15. ASSUME RecoverDone PROVE TypeOK'
  BY <1>15, TypeOK DEF RecoverDone, dbVars, httpVars, poolVars, TypeOK
<1>16. ASSUME RecoverError PROVE TypeOK'
  BY <1>16, TypeOK, SpendType DEF RecoverError, dbVars, httpVars, poolVars,
     TypeOK, Open, Fault
<1>17. ASSUME Receive PROVE TypeOK'
  BY <1>17, TypeOK, HeadTailProperties DEF Receive, dbVars, httpVars,
     poolVars, TypeOK
<1>18. ASSUME Restart PROVE TypeOK'
  BY <1>18, TypeOK, EmptySeq, SpendType, WorkerCountAssumption DEF Restart,
     dbVars, TypeOK, Fault, HandlerState
<1>19. ASSUME NEW t \in Ticket, Spawn(t) PROVE TypeOK'
  BY <1>19, TypeOK DEF Spawn, dbVars, httpVars, TypeOK, TaskState
<1>20. ASSUME NEW t \in Ticket, MarkRunning(t) PROVE TypeOK'
  BY <1>20, TypeOK, TicketFacts DEF MarkRunning, Advance, SetJob, httpVars,
     dispVars, TypeOK, JobState, TaskState
<1>21. ASSUME NEW t \in Ticket, Evaluate(t) PROVE TypeOK'
  BY <1>21, TypeOK DEF Evaluate, Advance, dbVars, httpVars, dispVars, TypeOK,
     TaskState
<1>22. ASSUME NEW t \in Ticket, Store(t) PROVE TypeOK'
  BY <1>22, TypeOK, TicketFacts DEF Store, Advance, httpVars, dispVars,
     TypeOK, TaskState
<1>23. ASSUME NEW t \in Ticket, MarkDone(t) PROVE TypeOK'
  BY <1>23, TypeOK, TicketFacts DEF MarkDone, Finish, Advance, SetJob,
     httpVars, dispVars, TypeOK, JobState, TaskState
<1>24. ASSUME NEW t \in Ticket, MarkFailed(t) PROVE TypeOK'
  BY <1>24, TypeOK, TicketFacts DEF MarkFailed, Finish, Advance, SetJob,
     httpVars, dispVars, TypeOK, JobState, TaskState
<1>25. ASSUME NEW t \in Ticket, MarkError(t) PROVE TypeOK'
  BY <1>25, TypeOK, TicketFacts, SpendType DEF MarkError, Advance, dbVars,
     httpVars, dispVars, TypeOK, Fault, TaskState
<1>26. ASSUME NEW t \in Ticket, Notify(t) PROVE TypeOK'
  BY <1>26, TypeOK, TicketFacts DEF Notify, dbVars, dispVars, TypeOK
<1>27. ASSUME UNCHANGED vars PROVE TypeOK'
  BY <1>27, TypeOK DEF vars, dbVars, httpVars, dispVars, poolVars, TypeOK
<1> QED
  BY <1>1, <1>2, <1>3, <1>4, <1>5, <1>6, <1>7, <1>8, <1>9, <1>10, <1>11,
     <1>12, <1>13, <1>14, <1>15, <1>16, <1>17, <1>18, <1>19, <1>20, <1>21,
     <1>22, <1>23, <1>24, <1>25, <1>26, <1>27 DEF Next, UploadStep,
     DispatchStep, TaskStep

-----------------------------------------------------------------------------
(* Tickets, dispatcher phases and rows.                                    *)

LEMMA TicketStep ==
  ASSUME TypeOK, TicketInOnePlace, BootPhases, RowsBehindTickets, [Next]_vars
  PROVE  TicketInOnePlace'
<1>1. ASSUME NEW f \in Flights, Persist(f) PROVE TicketInOnePlace'
  BY <1>1, TicketInOnePlace DEF Persist, Proceed, dispVars, poolVars,
     TicketInOnePlace, Active
<1>2. ASSUME NEW f \in Flights, Register(f) PROVE TicketInOnePlace'
  BY <1>2, TicketInOnePlace DEF Register, Proceed, dbVars, dispVars, poolVars,
     TicketInOnePlace, Active
<1>3. ASSUME NEW f \in Flights, EnqueueInsert(f) PROVE TicketInOnePlace'
  BY <1>3, TicketInOnePlace DEF EnqueueInsert, Proceed, dispVars, poolVars,
     TicketInOnePlace, Active
<1>4. ASSUME NEW f \in Flights, EnqueueRefused(f) PROVE TicketInOnePlace'
  BY <1>4, TicketInOnePlace DEF EnqueueRefused, Proceed, dbVars, dispVars,
     poolVars, TicketInOnePlace, Active
<1>5. ASSUME NEW f \in Flights, EnqueueError(f) PROVE TicketInOnePlace'
  BY <1>5, TicketInOnePlace DEF EnqueueError, Proceed, dbVars, dispVars,
     poolVars, TicketInOnePlace, Active
<1>6. ASSUME NEW f \in Flights, EnqueueSend(f) PROVE TicketInOnePlace'
  <2> DEFINE u == UploadTicket(f)
  <2>1. u \in Ticket /\ chan \in Seq(Ticket)
    BY TicketFacts, TypeOK DEF TypeOK
  <2>2. u \notin sent
    BY <1>6, RowsBehindTickets DEF RowsBehindTickets, EnqueueSend, Proceed
  <2>3. \A x : Contains(chan', x) <=> Contains(chan, x) \/ x = u
    BY <1>6, <2>1, AppendContains DEF EnqueueSend, Send
  <2>4. \A i, j \in 1..Len(chan') : chan'[i] = chan'[j] => i = j
    <3>1. ~Contains(chan, u)
      BY <2>1, <2>2, TicketInOnePlace DEF TicketInOnePlace
    <3>2. /\ Len(chan') = Len(chan) + 1
          /\ \A i \in 1..Len(chan) : chan'[i] = chan[i] /\ chan[i] # u
          /\ chan'[Len(chan) + 1] = u
      BY <1>6, <2>1, <3>1, AppendProperties DEF EnqueueSend, Send, Contains
    <3> QED
      BY <3>2, <2>1, LenProperties, TicketInOnePlace DEF TicketInOnePlace
  <2>5. held' = held /\ task' = task /\ sent' = sent \union {u}
    BY <1>6 DEF EnqueueSend, Send, poolVars
  <2> QED
    BY <2>1, <2>2, <2>3, <2>4, <2>5, TicketInOnePlace, TypeOK
    DEF TicketInOnePlace, Active, TypeOK
<1>7. ASSUME NEW f \in Flights, AnswerScored(f) PROVE TicketInOnePlace'
  BY <1>7, TicketInOnePlace DEF AnswerScored, Proceed, dbVars, dispVars,
     poolVars, TicketInOnePlace, Active
<1>8. ASSUME NEW f \in Flights, WaitExpires(f) PROVE TicketInOnePlace'
  BY <1>8, TicketInOnePlace DEF WaitExpires, Proceed, dbVars, dispVars,
     poolVars, TicketInOnePlace, Active
<1>9. ASSUME NEW f \in Flights, AnswerPosition(f) PROVE TicketInOnePlace'
  BY <1>9, TicketInOnePlace DEF AnswerPosition, Proceed, dbVars, dispVars,
     poolVars, TicketInOnePlace, Active
<1>10. ASSUME NEW f \in Flights, Disconnect(f) PROVE TicketInOnePlace'
  BY <1>10, TicketInOnePlace DEF Disconnect, dbVars, dispVars, poolVars,
     TicketInOnePlace, Active
<1>11. ASSUME NEW f \in Flights, Delete(f) PROVE TicketInOnePlace'
  BY <1>11, TicketInOnePlace DEF Delete, httpVars, dispVars, poolVars,
     TicketInOnePlace, Active
<1>12. ASSUME NEW f \in Flights, RecoverSend(f) PROVE TicketInOnePlace'
  <2> DEFINE u == RecoveryTicket(f)
  <2>1. u \in Ticket /\ chan \in Seq(Ticket)
    BY TicketFacts, TypeOK DEF TypeOK
  <2>2. u \notin sent
    BY <1>12, BootPhases DEF BootPhases, RecoverSend
  <2>3. \A x : Contains(chan', x) <=> Contains(chan, x) \/ x = u
    BY <1>12, <2>1, AppendContains DEF RecoverSend, Send
  <2>4. \A i, j \in 1..Len(chan') : chan'[i] = chan'[j] => i = j
    <3>1. ~Contains(chan, u)
      BY <2>1, <2>2, TicketInOnePlace DEF TicketInOnePlace
    <3>2. /\ Len(chan') = Len(chan) + 1
          /\ \A i \in 1..Len(chan) : chan'[i] = chan[i] /\ chan[i] # u
          /\ chan'[Len(chan) + 1] = u
      BY <1>12, <2>1, <3>1, AppendProperties DEF RecoverSend, Send, Contains
    <3> QED
      BY <3>2, <2>1, LenProperties, TicketInOnePlace DEF TicketInOnePlace
  <2>5. held' = held /\ task' = task /\ sent' = sent \union {u}
    BY <1>12 DEF RecoverSend, Send, poolVars
  <2> QED
    BY <2>1, <2>2, <2>3, <2>4, <2>5, TicketInOnePlace, TypeOK
    DEF TicketInOnePlace, Active, TypeOK
<1>13. ASSUME RecoverReset PROVE TicketInOnePlace'
  BY <1>13, TicketInOnePlace DEF RecoverReset, httpVars, poolVars,
     TicketInOnePlace, Active
<1>14. ASSUME RecoverSelect PROVE TicketInOnePlace'
  BY <1>14, TicketInOnePlace DEF RecoverSelect, dbVars, httpVars, poolVars,
     TicketInOnePlace, Active
<1>15. ASSUME RecoverDone PROVE TicketInOnePlace'
  BY <1>15, TicketInOnePlace DEF RecoverDone, dbVars, httpVars, poolVars,
     TicketInOnePlace, Active
<1>16. ASSUME RecoverError PROVE TicketInOnePlace'
  BY <1>16, TicketInOnePlace DEF RecoverError, dbVars, httpVars, poolVars,
     TicketInOnePlace, Active
<1>17. ASSUME Receive PROVE TicketInOnePlace'
  <2>1. chan \in Seq(Ticket) /\ chan # <<>> /\ chan' = Tail(chan)
    BY <1>17, TypeOK DEF Receive, TypeOK
  <2>2. /\ Len(chan) \in Nat \ {0}
        /\ Len(chan') = Len(chan) - 1
        /\ Head(chan) = chan[1]
        /\ \A i \in 1..Len(chan') : chan'[i] = chan[i + 1]
    BY <2>1, HeadTailProperties, EmptySeq, LenProperties
  <2>3. /\ Contains(chan, Head(chan))
        /\ \A x : Contains(chan', x) => Contains(chan, x)
    BY <2>1, TailContains
  <2>4. \A i, j \in 1..Len(chan') : chan'[i] = chan'[j] => i = j
    <3> SUFFICES ASSUME NEW i \in 1..Len(chan'), NEW j \in 1..Len(chan'),
                        chan'[i] = chan'[j]
                 PROVE  i = j
      OBVIOUS
    <3>1. i + 1 \in 1..Len(chan) /\ j + 1 \in 1..Len(chan)
      BY <2>2
    <3>2. chan[i + 1] = chan[j + 1]
      BY <2>2
    <3> QED
      BY <3>1, <3>2, TicketInOnePlace DEF TicketInOnePlace
  <2>5. ~Contains(chan', Head(chan))
    <3> SUFFICES ASSUME NEW i \in 1..Len(chan'), chan'[i] = Head(chan)
                 PROVE  FALSE
      BY DEF Contains
    <3>1. i + 1 \in 1..Len(chan) /\ 1 \in 1..Len(chan) /\ chan[i + 1] = chan[1]
      BY <2>2
    <3> QED
      BY <3>1, TicketInOnePlace DEF TicketInOnePlace
  <2>6. held' = {Head(chan)} /\ task' = task /\ sent' = sent
    BY <1>17 DEF Receive, poolVars
  <2>7. Head(chan) \in Ticket
    BY <2>1, HeadTailProperties
  <2> QED
    BY <2>3, <2>4, <2>5, <2>6, <2>7, TicketInOnePlace
    DEF TicketInOnePlace, Active
<1>18. ASSUME Restart PROVE TicketInOnePlace'
  <2>1. chan' = <<>> /\ held' = {} /\ Active' = {}
    BY <1>18 DEF Restart, Active
  <2>2. Len(chan') = 0 /\ \A x : ~Contains(chan', x)
    BY <2>1 DEF Contains
  <2> QED
    BY <2>1, <2>2 DEF TicketInOnePlace
<1>19. ASSUME NEW t \in Ticket, Spawn(t) PROVE TicketInOnePlace'
  BY <1>19, TicketInOnePlace, TypeOK DEF Spawn, dbVars, httpVars,
     TicketInOnePlace, Active, TypeOK, TaskState, None
<1>20. ASSUME NEW t \in Ticket, MarkRunning(t) PROVE TicketInOnePlace'
  BY <1>20, TicketInOnePlace, TypeOK DEF MarkRunning, Advance, SetJob,
     httpVars, dispVars, TicketInOnePlace, Active, TypeOK, TaskState, None
<1>21. ASSUME NEW t \in Ticket, Evaluate(t) PROVE TicketInOnePlace'
  BY <1>21, TicketInOnePlace, TypeOK DEF Evaluate, Advance, dbVars, httpVars,
     dispVars, TicketInOnePlace, Active, TypeOK, TaskState, None
<1>22. ASSUME NEW t \in Ticket, Store(t) PROVE TicketInOnePlace'
  BY <1>22, TicketInOnePlace, TypeOK DEF Store, Advance, httpVars, dispVars,
     TicketInOnePlace, Active, TypeOK, TaskState, None
<1>23. ASSUME NEW t \in Ticket, MarkDone(t) PROVE TicketInOnePlace'
  BY <1>23, TicketInOnePlace, TypeOK DEF MarkDone, Finish, Advance, SetJob,
     httpVars, dispVars, TicketInOnePlace, Active, TypeOK, TaskState, None
<1>24. ASSUME NEW t \in Ticket, MarkFailed(t) PROVE TicketInOnePlace'
  BY <1>24, TicketInOnePlace, TypeOK DEF MarkFailed, Finish, Advance, SetJob,
     httpVars, dispVars, TicketInOnePlace, Active, TypeOK, TaskState, None
<1>25. ASSUME NEW t \in Ticket, MarkError(t) PROVE TicketInOnePlace'
  BY <1>25, TicketInOnePlace, TypeOK DEF MarkError, Advance, dbVars, httpVars,
     dispVars, TicketInOnePlace, Active, TypeOK, TaskState, None
<1>26. ASSUME NEW t \in Ticket, Notify(t) PROVE TicketInOnePlace'
  BY <1>26, TicketInOnePlace, TypeOK DEF Notify, dbVars, dispVars,
     TicketInOnePlace, Active, TypeOK, TaskState, None
<1>27. ASSUME UNCHANGED vars PROVE TicketInOnePlace'
  BY <1>27, TicketInOnePlace DEF vars, dbVars, httpVars, dispVars, poolVars,
     TicketInOnePlace, Active
<1> QED
  BY <1>1, <1>2, <1>3, <1>4, <1>5, <1>6, <1>7, <1>8, <1>9, <1>10, <1>11,
     <1>12, <1>13, <1>14, <1>15, <1>16, <1>17, <1>18, <1>19, <1>20, <1>21,
     <1>22, <1>23, <1>24, <1>25, <1>26, <1>27 DEF Next, UploadStep,
     DispatchStep, TaskStep

LEMMA BootStep ==
  ASSUME TypeOK, TicketInOnePlace, BootPhases, RowsBehindTickets, [Next]_vars
  PROVE  BootPhases'
<1>1. ASSUME NEW f \in Flights, Persist(f) PROVE BootPhases'
  BY <1>1, BootPhases, TypeOK DEF Persist, Proceed, dispVars, poolVars,
     BootPhases, Active, TypeOK
<1>2. ASSUME NEW f \in Flights, Register(f) PROVE BootPhases'
  BY <1>2, BootPhases, TypeOK DEF Register, Proceed, dbVars, dispVars,
     poolVars, BootPhases, Active, TypeOK
<1>3. ASSUME NEW f \in Flights, EnqueueInsert(f) PROVE BootPhases'
  BY <1>3, BootPhases, TypeOK DEF EnqueueInsert, Proceed, dispVars, poolVars,
     BootPhases, Active, TypeOK
<1>4. ASSUME NEW f \in Flights, EnqueueRefused(f) PROVE BootPhases'
  BY <1>4, BootPhases, TypeOK DEF EnqueueRefused, Proceed, dbVars, dispVars,
     poolVars, BootPhases, Active, TypeOK
<1>5. ASSUME NEW f \in Flights, EnqueueError(f) PROVE BootPhases'
  BY <1>5, BootPhases, TypeOK DEF EnqueueError, Proceed, dbVars, dispVars,
     poolVars, BootPhases, Active, TypeOK
<1>6. ASSUME NEW f \in Flights, EnqueueSend(f) PROVE BootPhases'
  BY <1>6, BootPhases, TypeOK, TicketFacts DEF EnqueueSend, Proceed, Send,
     dbVars, poolVars, BootPhases, Active, TypeOK
<1>7. ASSUME NEW f \in Flights, AnswerScored(f) PROVE BootPhases'
  BY <1>7, BootPhases, TypeOK DEF AnswerScored, Proceed, dbVars, dispVars,
     poolVars, BootPhases, Active, TypeOK
<1>8. ASSUME NEW f \in Flights, WaitExpires(f) PROVE BootPhases'
  BY <1>8, BootPhases, TypeOK DEF WaitExpires, Proceed, dbVars, dispVars,
     poolVars, BootPhases, Active, TypeOK
<1>9. ASSUME NEW f \in Flights, AnswerPosition(f) PROVE BootPhases'
  BY <1>9, BootPhases, TypeOK DEF AnswerPosition, Proceed, dbVars, dispVars,
     poolVars, BootPhases, Active, TypeOK
<1>10. ASSUME NEW f \in Flights, Disconnect(f) PROVE BootPhases'
  BY <1>10, BootPhases, TypeOK DEF Disconnect, dbVars, dispVars, poolVars,
     BootPhases, Active, TypeOK
<1>11. ASSUME NEW f \in Flights, Delete(f) PROVE BootPhases'
  BY <1>11, BootPhases, TypeOK DEF Delete, httpVars, dispVars, poolVars,
     BootPhases, Active, TypeOK, None
<1>12. ASSUME NEW f \in Flights, RecoverSend(f) PROVE BootPhases'
  BY <1>12, BootPhases, TypeOK, TicketFacts DEF RecoverSend, Send, dbVars,
     httpVars, poolVars, BootPhases, Active, TypeOK, UploadTicket,
     RecoveryTicket
<1>13. ASSUME RecoverReset PROVE BootPhases'
  BY <1>13, BootPhases, TypeOK DEF RecoverReset, httpVars, poolVars,
     BootPhases, Active, TypeOK
<1>14. ASSUME RecoverSelect PROVE BootPhases'
  BY <1>14, BootPhases, TypeOK DEF RecoverSelect, dbVars, httpVars, poolVars,
     BootPhases, Active, TypeOK, Queued
<1>15. ASSUME RecoverDone PROVE BootPhases'
  BY <1>15, BootPhases, TypeOK DEF RecoverDone, dbVars, httpVars, poolVars,
     BootPhases, Active, TypeOK
<1>16. ASSUME RecoverError PROVE BootPhases'
  BY <1>16, BootPhases, TypeOK DEF RecoverError, dbVars, httpVars, poolVars,
     BootPhases, Active, TypeOK
<1>17. ASSUME Receive PROVE BootPhases'
  BY <1>17, BootPhases, TypeOK DEF Receive, dbVars, httpVars, poolVars,
     BootPhases, Active, TypeOK
<1>18. ASSUME Restart PROVE BootPhases'
  BY <1>18, BootPhases, TypeOK DEF Restart, dbVars, BootPhases, Active, TypeOK
<1>19. ASSUME NEW t \in Ticket, Spawn(t) PROVE BootPhases'
  BY <1>19, BootPhases, TypeOK, TicketFacts DEF Spawn, dbVars, httpVars,
     BootPhases, Active, TypeOK, TaskState, None
<1>20. ASSUME NEW t \in Ticket, MarkRunning(t) PROVE BootPhases'
  BY <1>20, BootPhases, TypeOK, TicketFacts DEF MarkRunning, Advance, SetJob,
     httpVars, dispVars, BootPhases, Active, TypeOK, TaskState, None
<1>21. ASSUME NEW t \in Ticket, Evaluate(t) PROVE BootPhases'
  BY <1>21, BootPhases, TypeOK, TicketFacts DEF Evaluate, Advance, dbVars,
     httpVars, dispVars, BootPhases, Active, TypeOK, TaskState, None
<1>22. ASSUME NEW t \in Ticket, Store(t) PROVE BootPhases'
  BY <1>22, BootPhases, TypeOK, TicketFacts DEF Store, Advance, httpVars,
     dispVars, BootPhases, Active, TypeOK, TaskState, None
<1>23. ASSUME NEW t \in Ticket, MarkDone(t) PROVE BootPhases'
  BY <1>23, BootPhases, TypeOK, TicketFacts DEF MarkDone, Finish, Advance,
     SetJob, httpVars, dispVars, BootPhases, Active, TypeOK, TaskState, None
<1>24. ASSUME NEW t \in Ticket, MarkFailed(t) PROVE BootPhases'
  BY <1>24, BootPhases, TypeOK, TicketFacts DEF MarkFailed, Finish, Advance,
     SetJob, httpVars, dispVars, BootPhases, Active, TypeOK, TaskState, None
<1>25. ASSUME NEW t \in Ticket, MarkError(t) PROVE BootPhases'
  BY <1>25, BootPhases, TypeOK, TicketFacts DEF MarkError, Advance, dbVars,
     httpVars, dispVars, BootPhases, Active, TypeOK, TaskState, None
<1>26. ASSUME NEW t \in Ticket, Notify(t) PROVE BootPhases'
  BY <1>26, BootPhases, TypeOK, TicketFacts DEF Notify, dbVars, dispVars,
     BootPhases, Active, TypeOK, TaskState, None
<1>27. ASSUME UNCHANGED vars PROVE BootPhases'
  BY <1>27, BootPhases DEF vars, dbVars, httpVars, dispVars, poolVars,
     BootPhases, Active
<1> QED
  BY <1>1, <1>2, <1>3, <1>4, <1>5, <1>6, <1>7, <1>8, <1>9, <1>10, <1>11,
     <1>12, <1>13, <1>14, <1>15, <1>16, <1>17, <1>18, <1>19, <1>20, <1>21,
     <1>22, <1>23, <1>24, <1>25, <1>26, <1>27 DEF Next, UploadStep,
     DispatchStep, TaskStep

LEMMA RowsStep ==
  ASSUME TypeOK, TicketInOnePlace, BootPhases, RowsBehindTickets, [Next]_vars
  PROVE  RowsBehindTickets'
<1>1. ASSUME NEW f \in Flights, Persist(f) PROVE RowsBehindTickets'
  BY <1>1, RowsBehindTickets, TypeOK DEF Persist, Proceed, dispVars, poolVars,
     RowsBehindTickets, Announced, TypeOK
<1>2. ASSUME NEW f \in Flights, Register(f) PROVE RowsBehindTickets'
  BY <1>2, RowsBehindTickets, TypeOK DEF Register, Proceed, dbVars, dispVars,
     poolVars, RowsBehindTickets, Announced, TypeOK
<1>3. ASSUME NEW f \in Flights, EnqueueInsert(f) PROVE RowsBehindTickets'
  BY <1>3, RowsBehindTickets, TypeOK DEF EnqueueInsert, Proceed, dispVars,
     poolVars, RowsBehindTickets, Announced, TypeOK, None
<1>4. ASSUME NEW f \in Flights, EnqueueRefused(f) PROVE RowsBehindTickets'
  BY <1>4, RowsBehindTickets, TypeOK DEF EnqueueRefused, Proceed, dbVars,
     dispVars, poolVars, RowsBehindTickets, Announced, TypeOK
<1>5. ASSUME NEW f \in Flights, EnqueueError(f) PROVE RowsBehindTickets'
  BY <1>5, RowsBehindTickets, TypeOK DEF EnqueueError, Proceed, dbVars,
     dispVars, poolVars, RowsBehindTickets, Announced, TypeOK
<1>6. ASSUME NEW f \in Flights, EnqueueSend(f) PROVE RowsBehindTickets'
  <2>1. /\ sent' = sent \union {UploadTicket(f)}
        /\ UNCHANGED <<dbVars, backlog, waiters, notified>>
        /\ f \in flights => job[f] # None
    BY <1>6, RowsBehindTickets DEF EnqueueSend, Proceed, Send, RowsBehindTickets
  <2>2. \A g \in Flights : Announced(g)' => Announced(g) \/ g = f
    BY <2>1, TicketFacts DEF Announced
  <2>3. \A g \in Flights : g # f =>
           (UploadTicket(g) \in sent' => UploadTicket(g) \in sent)
    BY <2>1, TicketFacts
  <2>4. handler[f] = "inserted" /\ handler' = [handler EXCEPT ![f] = "waiting"]
    BY <1>6 DEF EnqueueSend, Proceed
  <2> QED
    BY <2>1, <2>2, <2>3, <2>4, RowsBehindTickets, TypeOK
    DEF RowsBehindTickets, TypeOK, dbVars
<1>7. ASSUME NEW f \in Flights, AnswerScored(f) PROVE RowsBehindTickets'
  BY <1>7, RowsBehindTickets, TypeOK DEF AnswerScored, Proceed, dbVars,
     dispVars, poolVars, RowsBehindTickets, Announced, TypeOK
<1>8. ASSUME NEW f \in Flights, WaitExpires(f) PROVE RowsBehindTickets'
  BY <1>8, RowsBehindTickets, TypeOK DEF WaitExpires, Proceed, dbVars,
     dispVars, poolVars, RowsBehindTickets, Announced, TypeOK
<1>9. ASSUME NEW f \in Flights, AnswerPosition(f) PROVE RowsBehindTickets'
  BY <1>9, RowsBehindTickets, TypeOK DEF AnswerPosition, Proceed, dbVars,
     dispVars, poolVars, RowsBehindTickets, Announced, TypeOK
<1>10. ASSUME NEW f \in Flights, Disconnect(f) PROVE RowsBehindTickets'
  BY <1>10, RowsBehindTickets, TypeOK DEF Disconnect, dbVars, dispVars,
     poolVars, RowsBehindTickets, Announced, TypeOK
<1>11. ASSUME NEW f \in Flights, Delete(f) PROVE RowsBehindTickets'
  BY <1>11, RowsBehindTickets, TypeOK DEF Delete, httpVars, dispVars,
     poolVars, RowsBehindTickets, Announced, TypeOK, None
<1>12. ASSUME NEW f \in Flights, RecoverSend(f) PROVE RowsBehindTickets'
  BY <1>12, RowsBehindTickets, TypeOK, TicketFacts DEF RecoverSend, Send,
     dbVars, httpVars, poolVars, RowsBehindTickets, Announced, TypeOK,
     UploadTicket, RecoveryTicket
<1>13. ASSUME RecoverReset PROVE RowsBehindTickets'
  BY <1>13, RowsBehindTickets, TypeOK DEF RecoverReset, httpVars, poolVars,
     RowsBehindTickets, Announced, TypeOK, None
<1>14. ASSUME RecoverSelect PROVE RowsBehindTickets'
  BY <1>14, RowsBehindTickets, TypeOK DEF RecoverSelect, dbVars, httpVars,
     poolVars, RowsBehindTickets, Announced, TypeOK, Queued, None
<1>15. ASSUME RecoverDone PROVE RowsBehindTickets'
  BY <1>15, RowsBehindTickets, TypeOK DEF RecoverDone, dbVars, httpVars,
     poolVars, RowsBehindTickets, Announced, TypeOK
<1>16. ASSUME RecoverError PROVE RowsBehindTickets'
  BY <1>16, RowsBehindTickets, TypeOK DEF RecoverError, dbVars, httpVars,
     poolVars, RowsBehindTickets, Announced, TypeOK
<1>17. ASSUME Receive PROVE RowsBehindTickets'
  BY <1>17, RowsBehindTickets, TypeOK DEF Receive, dbVars, httpVars, poolVars,
     RowsBehindTickets, Announced, TypeOK
<1>18. ASSUME Restart PROVE RowsBehindTickets'
  BY <1>18, RowsBehindTickets, TypeOK DEF Restart, dbVars, RowsBehindTickets,
     Announced, TypeOK
<1>19. ASSUME NEW t \in Ticket, Spawn(t) PROVE RowsBehindTickets'
  BY <1>19, RowsBehindTickets, TypeOK, TicketInOnePlace, TicketFacts DEF
     Spawn, dbVars, httpVars, RowsBehindTickets, Announced, TypeOK,
     TicketInOnePlace, Active, TaskState, None
<1>20. ASSUME NEW t \in Ticket, MarkRunning(t) PROVE RowsBehindTickets'
  BY <1>20, RowsBehindTickets, TypeOK, TicketInOnePlace, TicketFacts DEF
     MarkRunning, Advance, SetJob, httpVars, dispVars, RowsBehindTickets,
     Announced, TypeOK, TicketInOnePlace, Active, TaskState, None
<1>21. ASSUME NEW t \in Ticket, Evaluate(t) PROVE RowsBehindTickets'
  BY <1>21, RowsBehindTickets, TypeOK, TicketInOnePlace, TicketFacts DEF
     Evaluate, Advance, dbVars, httpVars, dispVars, RowsBehindTickets,
     Announced, TypeOK, TicketInOnePlace, Active, TaskState, None
<1>22. ASSUME NEW t \in Ticket, Store(t) PROVE RowsBehindTickets'
  BY <1>22, RowsBehindTickets, TypeOK, TicketInOnePlace, TicketFacts DEF
     Store, Advance, httpVars, dispVars, RowsBehindTickets, Announced, TypeOK,
     TicketInOnePlace, Active, TaskState, None
<1>23. ASSUME NEW t \in Ticket, MarkDone(t) PROVE RowsBehindTickets'
  BY <1>23, RowsBehindTickets, TypeOK, TicketInOnePlace, TicketFacts DEF
     MarkDone, Finish, Advance, SetJob, httpVars, dispVars, RowsBehindTickets,
     Announced, TypeOK, TicketInOnePlace, Active, TaskState, None
<1>24. ASSUME NEW t \in Ticket, MarkFailed(t) PROVE RowsBehindTickets'
  BY <1>24, RowsBehindTickets, TypeOK, TicketInOnePlace, TicketFacts DEF
     MarkFailed, Finish, Advance, SetJob, httpVars, dispVars,
     RowsBehindTickets, Announced, TypeOK, TicketInOnePlace, Active,
     TaskState, None
<1>25. ASSUME NEW t \in Ticket, MarkError(t) PROVE RowsBehindTickets'
  BY <1>25, RowsBehindTickets, TypeOK, TicketInOnePlace, TicketFacts DEF
     MarkError, Advance, dbVars, httpVars, dispVars, RowsBehindTickets,
     Announced, TypeOK, TicketInOnePlace, Active, TaskState, None
<1>26. ASSUME NEW t \in Ticket, Notify(t) PROVE RowsBehindTickets'
  BY <1>26, RowsBehindTickets, TypeOK, TicketInOnePlace, TicketFacts DEF
     Notify, dbVars, dispVars, RowsBehindTickets, Announced, TypeOK,
     TicketInOnePlace, Active, TaskState, None
<1>27. ASSUME UNCHANGED vars PROVE RowsBehindTickets'
  BY <1>27, RowsBehindTickets DEF vars, dbVars, httpVars, dispVars, poolVars,
     RowsBehindTickets, Announced
<1> QED
  BY <1>1, <1>2, <1>3, <1>4, <1>5, <1>6, <1>7, <1>8, <1>9, <1>10, <1>11,
     <1>12, <1>13, <1>14, <1>15, <1>16, <1>17, <1>18, <1>19, <1>20, <1>21,
     <1>22, <1>23, <1>24, <1>25, <1>26, <1>27 DEF Next, UploadStep,
     DispatchStep, TaskStep

-----------------------------------------------------------------------------
(* Permits.                                                                *)

LEMMA ActiveFinite == IsFiniteSet(Active) /\ IsFiniteSet(Active')
<1>1. IsFiniteSet({"upload", "recovery"})
  <2>1. IsFiniteSet({"upload"})
    BY FS_Singleton
  <2>2. {"upload", "recovery"} = {"upload"} \union {"recovery"}
    OBVIOUS
  <2> QED
    BY <2>1, <2>2, FS_AddElement
<1>2. IsFiniteSet(Ticket)
  BY <1>1, FlightsAssumption, FS_Product DEF Ticket
<1> QED
  BY <1>2, FS_Subset DEF Active

LEMMA PermitsStep ==
  ASSUME TypeOK, TicketInOnePlace, PermitsAccountedFor, [Next]_vars
  PROVE  PermitsAccountedFor'
<1> SUFFICES permits' + Cardinality(Active') = permits + Cardinality(Active)
             \/ permits' + Cardinality(Active') = WorkerCount
  BY PermitsAccountedFor DEF PermitsAccountedFor
<1>1. ASSUME NEW f \in Flights, Persist(f) PROVE
            \/ permits' + Cardinality(Active') = permits + Cardinality(Active)
            \/ permits' + Cardinality(Active') = WorkerCount
  <2>1. Active' = Active /\ permits' = permits
    BY <1>1 DEF Persist, dispVars, poolVars, Active
  <2> QED
    BY <2>1
<1>2. ASSUME NEW f \in Flights, Register(f) PROVE
            \/ permits' + Cardinality(Active') = permits + Cardinality(Active)
            \/ permits' + Cardinality(Active') = WorkerCount
  <2>1. Active' = Active /\ permits' = permits
    BY <1>2 DEF Register, dbVars, dispVars, poolVars, Active
  <2> QED
    BY <2>1
<1>3. ASSUME NEW f \in Flights, EnqueueInsert(f) PROVE
            \/ permits' + Cardinality(Active') = permits + Cardinality(Active)
            \/ permits' + Cardinality(Active') = WorkerCount
  <2>1. Active' = Active /\ permits' = permits
    BY <1>3 DEF EnqueueInsert, dispVars, poolVars, Active
  <2> QED
    BY <2>1
<1>4. ASSUME NEW f \in Flights, EnqueueRefused(f) PROVE
            \/ permits' + Cardinality(Active') = permits + Cardinality(Active)
            \/ permits' + Cardinality(Active') = WorkerCount
  <2>1. Active' = Active /\ permits' = permits
    BY <1>4 DEF EnqueueRefused, dbVars, dispVars, poolVars, Active
  <2> QED
    BY <2>1
<1>5. ASSUME NEW f \in Flights, EnqueueError(f) PROVE
            \/ permits' + Cardinality(Active') = permits + Cardinality(Active)
            \/ permits' + Cardinality(Active') = WorkerCount
  <2>1. Active' = Active /\ permits' = permits
    BY <1>5 DEF EnqueueError, dbVars, dispVars, poolVars, Active
  <2> QED
    BY <2>1
<1>6. ASSUME NEW f \in Flights, EnqueueSend(f) PROVE
            \/ permits' + Cardinality(Active') = permits + Cardinality(Active)
            \/ permits' + Cardinality(Active') = WorkerCount
  <2>1. Active' = Active /\ permits' = permits
    BY <1>6 DEF EnqueueSend, dbVars, poolVars, Active
  <2> QED
    BY <2>1
<1>7. ASSUME NEW f \in Flights, AnswerScored(f) PROVE
            \/ permits' + Cardinality(Active') = permits + Cardinality(Active)
            \/ permits' + Cardinality(Active') = WorkerCount
  <2>1. Active' = Active /\ permits' = permits
    BY <1>7 DEF AnswerScored, dbVars, dispVars, poolVars, Active
  <2> QED
    BY <2>1
<1>8. ASSUME NEW f \in Flights, WaitExpires(f) PROVE
            \/ permits' + Cardinality(Active') = permits + Cardinality(Active)
            \/ permits' + Cardinality(Active') = WorkerCount
  <2>1. Active' = Active /\ permits' = permits
    BY <1>8 DEF WaitExpires, dbVars, dispVars, poolVars, Active
  <2> QED
    BY <2>1
<1>9. ASSUME NEW f \in Flights, AnswerPosition(f) PROVE
            \/ permits' + Cardinality(Active') = permits + Cardinality(Active)
            \/ permits' + Cardinality(Active') = WorkerCount
  <2>1. Active' = Active /\ permits' = permits
    BY <1>9 DEF AnswerPosition, dbVars, dispVars, poolVars, Active
  <2> QED
    BY <2>1
<1>10. ASSUME NEW f \in Flights, Disconnect(f) PROVE
            \/ permits' + Cardinality(Active') = permits + Cardinality(Active)
            \/ permits' + Cardinality(Active') = WorkerCount
  <2>1. Active' = Active /\ permits' = permits
    BY <1>10 DEF Disconnect, dbVars, dispVars, poolVars, Active
  <2> QED
    BY <2>1
<1>11. ASSUME NEW f \in Flights, Delete(f) PROVE
            \/ permits' + Cardinality(Active') = permits + Cardinality(Active)
            \/ permits' + Cardinality(Active') = WorkerCount
  <2>1. Active' = Active /\ permits' = permits
    BY <1>11 DEF Delete, httpVars, dispVars, poolVars, Active
  <2> QED
    BY <2>1
<1>12. ASSUME NEW f \in Flights, RecoverSend(f) PROVE
            \/ permits' + Cardinality(Active') = permits + Cardinality(Active)
            \/ permits' + Cardinality(Active') = WorkerCount
  <2>1. Active' = Active /\ permits' = permits
    BY <1>12 DEF RecoverSend, dbVars, httpVars, poolVars, Active
  <2> QED
    BY <2>1
<1>13. ASSUME RecoverReset PROVE
            \/ permits' + Cardinality(Active') = permits + Cardinality(Active)
            \/ permits' + Cardinality(Active') = WorkerCount
  <2>1. Active' = Active /\ permits' = permits
    BY <1>13 DEF RecoverReset, httpVars, poolVars, Active
  <2> QED
    BY <2>1
<1>14. ASSUME RecoverSelect PROVE
            \/ permits' + Cardinality(Active') = permits + Cardinality(Active)
            \/ permits' + Cardinality(Active') = WorkerCount
  <2>1. Active' = Active /\ permits' = permits
    BY <1>14 DEF RecoverSelect, dbVars, httpVars, poolVars, Active
  <2> QED
    BY <2>1
<1>15. ASSUME RecoverDone PROVE
            \/ permits' + Cardinality(Active') = permits + Cardinality(Active)
            \/ permits' + Cardinality(Active') = WorkerCount
  <2>1. Active' = Active /\ permits' = permits
    BY <1>15 DEF RecoverDone, dbVars, httpVars, poolVars, Active
  <2> QED
    BY <2>1
<1>16. ASSUME RecoverError PROVE
            \/ permits' + Cardinality(Active') = permits + Cardinality(Active)
            \/ permits' + Cardinality(Active') = WorkerCount
  <2>1. Active' = Active /\ permits' = permits
    BY <1>16 DEF RecoverError, dbVars, httpVars, poolVars, Active
  <2> QED
    BY <2>1
<1>17. ASSUME Receive PROVE
            \/ permits' + Cardinality(Active') = permits + Cardinality(Active)
            \/ permits' + Cardinality(Active') = WorkerCount
  <2>1. Active' = Active /\ permits' = permits
    BY <1>17 DEF Receive, dbVars, httpVars, poolVars, Active
  <2> QED
    BY <2>1
<1>18. ASSUME Restart PROVE
            \/ permits' + Cardinality(Active') = permits + Cardinality(Active)
            \/ permits' + Cardinality(Active') = WorkerCount
  <2>1. Active' = {} /\ permits' = WorkerCount
    BY <1>18 DEF Restart, Active
  <2> QED
    BY <2>1, FS_EmptySet, WorkerCountAssumption
<1>19. ASSUME NEW t \in Ticket, Spawn(t) PROVE
            \/ permits' + Cardinality(Active') = permits + Cardinality(Active)
            \/ permits' + Cardinality(Active') = WorkerCount
  <2>1. t \notin Active /\ Active' = Active \union {t}
    BY <1>19, TypeOK, TicketInOnePlace
    DEF Spawn, TypeOK, TicketInOnePlace, Active, None
  <2>2. Cardinality(Active') = Cardinality(Active) + 1
    BY <2>1, ActiveFinite, FS_AddElement
  <2>3. permits' = permits - 1 /\ permits \in Nat
    BY <1>19, TypeOK DEF Spawn, TypeOK
  <2> QED
    BY <2>2, <2>3, ActiveFinite, FS_CardinalityType
<1>20. ASSUME NEW t \in Ticket, MarkRunning(t) PROVE
            \/ permits' + Cardinality(Active') = permits + Cardinality(Active)
            \/ permits' + Cardinality(Active') = WorkerCount
  <2>1. Active' = Active /\ permits' = permits
    BY <1>20, TypeOK DEF MarkRunning, Advance, SetJob, httpVars, dispVars,
       TypeOK, Active, None
  <2> QED
    BY <2>1
<1>21. ASSUME NEW t \in Ticket, Evaluate(t) PROVE
            \/ permits' + Cardinality(Active') = permits + Cardinality(Active)
            \/ permits' + Cardinality(Active') = WorkerCount
  <2>1. Active' = Active /\ permits' = permits
    BY <1>21, TypeOK DEF Evaluate, Advance, dbVars, httpVars, dispVars, TypeOK,
       Active, None
  <2> QED
    BY <2>1
<1>22. ASSUME NEW t \in Ticket, Store(t) PROVE
            \/ permits' + Cardinality(Active') = permits + Cardinality(Active)
            \/ permits' + Cardinality(Active') = WorkerCount
  <2>1. Active' = Active /\ permits' = permits
    BY <1>22, TypeOK DEF Store, Advance, httpVars, dispVars, TypeOK, Active, None
  <2> QED
    BY <2>1
<1>23. ASSUME NEW t \in Ticket, MarkDone(t) PROVE
            \/ permits' + Cardinality(Active') = permits + Cardinality(Active)
            \/ permits' + Cardinality(Active') = WorkerCount
  <2>1. Active' = Active /\ permits' = permits
    BY <1>23, TypeOK DEF MarkDone, Finish, Advance, SetJob, httpVars, dispVars,
       TypeOK, Active, None
  <2> QED
    BY <2>1
<1>24. ASSUME NEW t \in Ticket, MarkFailed(t) PROVE
            \/ permits' + Cardinality(Active') = permits + Cardinality(Active)
            \/ permits' + Cardinality(Active') = WorkerCount
  <2>1. Active' = Active /\ permits' = permits
    BY <1>24, TypeOK DEF MarkFailed, Finish, Advance, SetJob, httpVars, dispVars,
       TypeOK, Active, None
  <2> QED
    BY <2>1
<1>25. ASSUME NEW t \in Ticket, MarkError(t) PROVE
            \/ permits' + Cardinality(Active') = permits + Cardinality(Active)
            \/ permits' + Cardinality(Active') = WorkerCount
  <2>1. Active' = Active /\ permits' = permits
    BY <1>25, TypeOK DEF MarkError, Advance, dbVars, httpVars, dispVars, TypeOK,
       Active, None
  <2> QED
    BY <2>1
<1>26. ASSUME NEW t \in Ticket, Notify(t) PROVE
            \/ permits' + Cardinality(Active') = permits + Cardinality(Active)
            \/ permits' + Cardinality(Active') = WorkerCount
  <2>1. t \in Active /\ Active' = Active \ {t}
    BY <1>26, TypeOK DEF Notify, TypeOK, Active, None
  <2>2. Cardinality(Active') = Cardinality(Active) - 1
    BY <2>1, ActiveFinite, FS_RemoveElement
  <2>3. permits' = permits + 1 /\ permits \in Nat
    BY <1>26, TypeOK DEF Notify, TypeOK
  <2> QED
    BY <2>2, <2>3, ActiveFinite, FS_CardinalityType
<1>27. ASSUME UNCHANGED vars PROVE
            \/ permits' + Cardinality(Active') = permits + Cardinality(Active)
            \/ permits' + Cardinality(Active') = WorkerCount
  <2>1. Active' = Active /\ permits' = permits
    BY <1>27 DEF vars, poolVars, Active
  <2> QED
    BY <2>1
<1> QED
  BY <1>1, <1>2, <1>3, <1>4, <1>5, <1>6, <1>7, <1>8, <1>9, <1>10, <1>11,
     <1>12, <1>13, <1>14, <1>15, <1>16, <1>17, <1>18, <1>19, <1>20, <1>21,
     <1>22, <1>23, <1>24, <1>25, <1>26, <1>27 DEF Next, UploadStep,
     DispatchStep, TaskStep

-----------------------------------------------------------------------------
(* Nothing is stranded.                                                    *)

LEMMA StrandedStep ==
  ASSUME TypeOK, TicketInOnePlace, BootPhases, RowsBehindTickets,
         NothingStranded, [Next]_vars
  PROVE  NothingStranded'
<1>1. ASSUME NEW f \in Flights, Persist(f) PROVE NothingStranded'
  BY <1>1, NothingStranded, TypeOK DEF Persist, Proceed, dispVars, poolVars,
     NothingStranded, Open, Owned, TypeOK
<1>2. ASSUME NEW f \in Flights, Register(f) PROVE NothingStranded'
  BY <1>2, NothingStranded, TypeOK DEF Register, Proceed, dbVars, dispVars,
     poolVars, NothingStranded, Open, Owned, TypeOK
<1>3. ASSUME NEW f \in Flights, EnqueueInsert(f) PROVE NothingStranded'
  BY <1>3, NothingStranded, TypeOK DEF EnqueueInsert, Proceed, dispVars,
     poolVars, NothingStranded, Open, Owned, TypeOK
<1>4. ASSUME NEW f \in Flights, EnqueueRefused(f) PROVE NothingStranded'
  BY <1>4, NothingStranded, TypeOK DEF EnqueueRefused, Proceed, dbVars,
     dispVars, poolVars, NothingStranded, Open, Owned, TypeOK
<1>5. ASSUME NEW f \in Flights, EnqueueError(f) PROVE NothingStranded'
  BY <1>5, NothingStranded, TypeOK DEF EnqueueError, Proceed, dbVars,
     dispVars, poolVars, NothingStranded, Open, Owned, TypeOK
<1>6. ASSUME NEW f \in Flights, EnqueueSend(f) PROVE NothingStranded'
  <2>1. Open' = Open /\ waived' = waived
    BY <1>6 DEF EnqueueSend, dbVars, Open
  <2>2. ASSUME NEW g \in Flights, Owned(g) PROVE Owned(g)'
    <3>1. \A x : Contains(chan', x) <=> Contains(chan, x) \/ x = UploadTicket(f)
      BY <1>6, TypeOK, TicketFacts, AppendContains DEF EnqueueSend, Send, TypeOK
    <3>2. g # f => handler'[g] = handler[g]
      BY <1>6, TypeOK DEF EnqueueSend, Proceed, TypeOK
    <3>3. UNCHANGED <<boot, backlog, held, task>>
      BY <1>6 DEF EnqueueSend, poolVars
    <3> QED
      BY <2>2, <3>1, <3>2, <3>3, TicketFacts DEF Owned
  <2> QED
    BY <2>1, <2>2, NothingStranded DEF NothingStranded, Open
<1>7. ASSUME NEW f \in Flights, AnswerScored(f) PROVE NothingStranded'
  BY <1>7, NothingStranded, TypeOK DEF AnswerScored, Proceed, dbVars,
     dispVars, poolVars, NothingStranded, Open, Owned, TypeOK
<1>8. ASSUME NEW f \in Flights, WaitExpires(f) PROVE NothingStranded'
  BY <1>8, NothingStranded, TypeOK DEF WaitExpires, Proceed, dbVars, dispVars,
     poolVars, NothingStranded, Open, Owned, TypeOK
<1>9. ASSUME NEW f \in Flights, AnswerPosition(f) PROVE NothingStranded'
  BY <1>9, NothingStranded, TypeOK DEF AnswerPosition, Proceed, dbVars,
     dispVars, poolVars, NothingStranded, Open, Owned, TypeOK
<1>10. ASSUME NEW f \in Flights, Disconnect(f) PROVE NothingStranded'
  BY <1>10, NothingStranded, TypeOK DEF Disconnect, dbVars, dispVars,
     poolVars, NothingStranded, Open, Owned, TypeOK
<1>11. ASSUME NEW f \in Flights, Delete(f) PROVE NothingStranded'
  <2>1. Open' \subseteq Open /\ waived' = waived
    BY <1>11, TypeOK DEF Delete, Open, TypeOK, None
  <2>2. \A g \in Flights : Owned(g) => Owned(g)'
    BY <1>11 DEF Delete, httpVars, dispVars, poolVars, Owned
  <2> QED
    BY <2>1, <2>2, NothingStranded DEF NothingStranded, Open
<1>12. ASSUME NEW f \in Flights, RecoverSend(f) PROVE NothingStranded'
  <2>1. Open' = Open /\ waived' = waived
    BY <1>12 DEF RecoverSend, dbVars, Open
  <2>2. ASSUME NEW g \in Flights, Owned(g) PROVE Owned(g)'
    <3>1. \A x : Contains(chan', x) <=> Contains(chan, x) \/ x = RecoveryTicket(f)
      BY <1>12, TypeOK, TicketFacts, AppendContains DEF RecoverSend, Send, TypeOK
    <3>2. g # f /\ g \in backlog => g \in backlog'
      BY <1>12 DEF RecoverSend
    <3>3. UNCHANGED <<boot, handler, held, task>>
      BY <1>12 DEF RecoverSend, httpVars, poolVars
    <3> QED
      BY <2>2, <3>1, <3>2, <3>3, TicketFacts DEF Owned
  <2> QED
    BY <2>1, <2>2, NothingStranded DEF NothingStranded, Open
<1>13. ASSUME RecoverReset PROVE NothingStranded'
  BY <1>13, NothingStranded, TypeOK DEF RecoverReset, httpVars, poolVars,
     NothingStranded, Open, Owned, TypeOK
<1>14. ASSUME RecoverSelect PROVE NothingStranded'
  <2>1. UNCHANGED <<job, waived>> /\ backlog' = Queued
    BY <1>14 DEF RecoverSelect, dbVars
  <2>2. Open = Queued
    BY <1>14, BootPhases DEF BootPhases, RecoverSelect, Open, Queued
  <2> QED
    BY <2>1, <2>2 DEF NothingStranded, Owned, Open
<1>15. ASSUME RecoverDone PROVE NothingStranded'
  BY <1>15, NothingStranded, TypeOK DEF RecoverDone, dbVars, httpVars,
     poolVars, NothingStranded, Open, Owned, TypeOK
<1>16. ASSUME RecoverError PROVE NothingStranded'
  BY <1>16, NothingStranded, TypeOK DEF RecoverError, dbVars, httpVars,
     poolVars, NothingStranded, Open, Owned, TypeOK
<1>17. ASSUME Receive PROVE NothingStranded'
  <2>1. Open' = Open /\ waived' = waived
    BY <1>17 DEF Receive, dbVars, Open
  <2>2. ASSUME NEW g \in Flights, Owned(g) PROVE Owned(g)'
    <3>1. \A x : Contains(chan, x) => Contains(chan', x) \/ x \in held'
      BY <1>17, TypeOK, TailContains DEF Receive, TypeOK
    <3>2. held = {} /\ UNCHANGED <<boot, backlog, handler, task>>
      BY <1>17 DEF Receive, httpVars, poolVars
    <3> QED
      BY <2>2, <3>1, <3>2 DEF Owned
  <2> QED
    BY <2>1, <2>2, NothingStranded DEF NothingStranded, Open
<1>18. ASSUME Restart PROVE NothingStranded'
  BY <1>18, NothingStranded, TypeOK DEF Restart, dbVars, NothingStranded,
     Open, Owned, TypeOK
<1>19. ASSUME NEW t \in Ticket, Spawn(t) PROVE NothingStranded'
  <2>1. Open' = Open /\ waived' = waived
    BY <1>19 DEF Spawn, dbVars, Open
  <2>2. ASSUME NEW g \in Flights, Owned(g) PROVE Owned(g)'
    <3>1. \A u \in held : u = t
      BY <1>19, TicketInOnePlace DEF Spawn, TicketInOnePlace
    <3>2. task'[t] = "marking" /\ \A u \in Ticket \ {t} : task'[u] = task[u]
      BY <1>19, TypeOK DEF Spawn, TypeOK
    <3>3. UNCHANGED <<boot, backlog, handler, chan>>
      BY <1>19 DEF Spawn, httpVars
    <3> QED
      BY <2>2, <3>1, <3>2, <3>3 DEF Owned, TaskState
  <2> QED
    BY <2>1, <2>2, NothingStranded DEF NothingStranded, Open
<1>20. ASSUME NEW t \in Ticket, MarkRunning(t) PROVE NothingStranded'
  BY <1>20, NothingStranded, TypeOK, TicketFacts DEF MarkRunning, Advance,
     SetJob, httpVars, dispVars, NothingStranded, Open, Owned, TypeOK,
     TaskState, None
<1>21. ASSUME NEW t \in Ticket, Evaluate(t) PROVE NothingStranded'
  <2>1. Open' = Open /\ waived' = waived
    BY <1>21 DEF Evaluate, dbVars, Open
  <2>2. ASSUME NEW g \in Flights, Owned(g) PROVE Owned(g)'
    <3>1. /\ task'[t] \in {"storing", "marking_failed"}
          /\ \A u \in Ticket \ {t} : task'[u] = task[u]
      BY <1>21, TypeOK DEF Evaluate, Advance, TypeOK
    <3>2. UNCHANGED <<boot, backlog, handler, chan, held>>
      BY <1>21 DEF Evaluate, httpVars, dispVars
    <3> QED
      BY <2>2, <3>1, <3>2 DEF Owned, TaskState
  <2> QED
    BY <2>1, <2>2, NothingStranded DEF NothingStranded, Open
<1>22. ASSUME NEW t \in Ticket, Store(t) PROVE NothingStranded'
  <2>1. Open' = Open /\ waived' = waived
    BY <1>22 DEF Store, dbVars, Open
  <2>2. ASSUME NEW g \in Flights, Owned(g) PROVE Owned(g)'
    <3>1. /\ task'[t] \in {"marking_done", "marking_failed"}
          /\ \A u \in Ticket \ {t} : task'[u] = task[u]
      BY <1>22, TypeOK DEF Store, Advance, TypeOK
    <3>2. UNCHANGED <<boot, backlog, handler, chan, held>>
      BY <1>22 DEF Store, httpVars, dispVars
    <3> QED
      BY <2>2, <3>1, <3>2 DEF Owned, TaskState
  <2> QED
    BY <2>1, <2>2, NothingStranded DEF NothingStranded, Open
<1>23. ASSUME NEW t \in Ticket, MarkDone(t) PROVE NothingStranded'
  BY <1>23, NothingStranded, TypeOK, TicketFacts DEF MarkDone, Finish,
     Advance, SetJob, httpVars, dispVars, NothingStranded, Open, Owned,
     TypeOK, TaskState, None
<1>24. ASSUME NEW t \in Ticket, MarkFailed(t) PROVE NothingStranded'
  BY <1>24, NothingStranded, TypeOK, TicketFacts DEF MarkFailed, Finish,
     Advance, SetJob, httpVars, dispVars, NothingStranded, Open, Owned,
     TypeOK, TaskState, None
<1>25. ASSUME NEW t \in Ticket, MarkError(t) PROVE NothingStranded'
  BY <1>25, NothingStranded, TypeOK, TicketFacts DEF MarkError, Advance,
     dbVars, httpVars, dispVars, NothingStranded, Open, Owned, TypeOK,
     TaskState, None
<1>26. ASSUME NEW t \in Ticket, Notify(t) PROVE NothingStranded'
  BY <1>26, NothingStranded, TypeOK, TicketFacts DEF Notify, dbVars, dispVars,
     NothingStranded, Open, Owned, TypeOK, TaskState, None
<1>27. ASSUME UNCHANGED vars PROVE NothingStranded'
  BY <1>27, NothingStranded DEF vars, dbVars, httpVars, dispVars, poolVars,
     NothingStranded, Open, Owned, TypeOK
<1> QED
  BY <1>1, <1>2, <1>3, <1>4, <1>5, <1>6, <1>7, <1>8, <1>9, <1>10, <1>11,
     <1>12, <1>13, <1>14, <1>15, <1>16, <1>17, <1>18, <1>19, <1>20, <1>21,
     <1>22, <1>23, <1>24, <1>25, <1>26, <1>27 DEF Next, UploadStep,
     DispatchStep, TaskStep

-----------------------------------------------------------------------------
(* What a released uploader may conclude, and what done means.             *)

LEMMA NotifyStep ==
  ASSUME TypeOK, TicketInOnePlace, BootPhases, RowsBehindTickets,
         NotifyingMeansFinished, NotifiedMeansFinished, [Next]_vars
  PROVE  NotifyingMeansFinished' /\ NotifiedMeansFinished'
<1>1. ASSUME NEW f \in Flights, Persist(f) PROVE NotifyingMeansFinished' /\ NotifiedMeansFinished'
  BY <1>1, NotifyingMeansFinished, NotifiedMeansFinished, TypeOK, TicketFacts,
     TicketInOnePlace, RowsBehindTickets DEF Persist, Proceed, dispVars,
     poolVars, NotifyingMeansFinished, NotifiedMeansFinished, Active,
     TicketInOnePlace, RowsBehindTickets, Announced, TypeOK
<1>2. ASSUME NEW f \in Flights, Register(f) PROVE NotifyingMeansFinished' /\ NotifiedMeansFinished'
  BY <1>2, NotifyingMeansFinished, NotifiedMeansFinished DEF Register,
     Proceed, dbVars, dispVars, poolVars, NotifyingMeansFinished,
     NotifiedMeansFinished, Active
<1>3. ASSUME NEW f \in Flights, EnqueueInsert(f) PROVE NotifyingMeansFinished' /\ NotifiedMeansFinished'
  BY <1>3, NotifyingMeansFinished, NotifiedMeansFinished DEF EnqueueInsert,
     Proceed, dispVars, poolVars, NotifyingMeansFinished,
     NotifiedMeansFinished, Active
<1>4. ASSUME NEW f \in Flights, EnqueueRefused(f) PROVE NotifyingMeansFinished' /\ NotifiedMeansFinished'
  BY <1>4, NotifyingMeansFinished, NotifiedMeansFinished DEF EnqueueRefused,
     Proceed, dbVars, dispVars, poolVars, NotifyingMeansFinished,
     NotifiedMeansFinished, Active
<1>5. ASSUME NEW f \in Flights, EnqueueError(f) PROVE NotifyingMeansFinished' /\ NotifiedMeansFinished'
  BY <1>5, NotifyingMeansFinished, NotifiedMeansFinished DEF EnqueueError,
     Proceed, dbVars, dispVars, poolVars, NotifyingMeansFinished,
     NotifiedMeansFinished, Active
<1>6. ASSUME NEW f \in Flights, EnqueueSend(f) PROVE NotifyingMeansFinished' /\ NotifiedMeansFinished'
  BY <1>6, NotifyingMeansFinished, NotifiedMeansFinished DEF EnqueueSend,
     Proceed, Send, dbVars, poolVars, NotifyingMeansFinished,
     NotifiedMeansFinished, Active
<1>7. ASSUME NEW f \in Flights, AnswerScored(f) PROVE NotifyingMeansFinished' /\ NotifiedMeansFinished'
  BY <1>7, NotifyingMeansFinished, NotifiedMeansFinished DEF AnswerScored,
     Proceed, dbVars, dispVars, poolVars, NotifyingMeansFinished,
     NotifiedMeansFinished, Active
<1>8. ASSUME NEW f \in Flights, WaitExpires(f) PROVE NotifyingMeansFinished' /\ NotifiedMeansFinished'
  BY <1>8, NotifyingMeansFinished, NotifiedMeansFinished DEF WaitExpires,
     Proceed, dbVars, dispVars, poolVars, NotifyingMeansFinished,
     NotifiedMeansFinished, Active
<1>9. ASSUME NEW f \in Flights, AnswerPosition(f) PROVE NotifyingMeansFinished' /\ NotifiedMeansFinished'
  BY <1>9, NotifyingMeansFinished, NotifiedMeansFinished DEF AnswerPosition,
     Proceed, dbVars, dispVars, poolVars, NotifyingMeansFinished,
     NotifiedMeansFinished, Active
<1>10. ASSUME NEW f \in Flights, Disconnect(f) PROVE NotifyingMeansFinished' /\ NotifiedMeansFinished'
  BY <1>10, NotifyingMeansFinished, NotifiedMeansFinished DEF Disconnect,
     dbVars, dispVars, poolVars, NotifyingMeansFinished,
     NotifiedMeansFinished, Active
<1>11. ASSUME NEW f \in Flights, Delete(f) PROVE NotifyingMeansFinished' /\ NotifiedMeansFinished'
  BY <1>11, NotifyingMeansFinished, NotifiedMeansFinished, TypeOK DEF Delete,
     httpVars, dispVars, poolVars, NotifyingMeansFinished,
     NotifiedMeansFinished, Active, TypeOK
<1>12. ASSUME NEW f \in Flights, RecoverSend(f) PROVE NotifyingMeansFinished' /\ NotifiedMeansFinished'
  BY <1>12, NotifyingMeansFinished, NotifiedMeansFinished DEF RecoverSend,
     Send, dbVars, httpVars, poolVars, NotifyingMeansFinished,
     NotifiedMeansFinished, Active
<1>13. ASSUME RecoverReset PROVE NotifyingMeansFinished' /\ NotifiedMeansFinished'
  BY <1>13, NotifyingMeansFinished, NotifiedMeansFinished DEF RecoverReset,
     httpVars, poolVars, NotifyingMeansFinished, NotifiedMeansFinished, Active
<1>14. ASSUME RecoverSelect PROVE NotifyingMeansFinished' /\ NotifiedMeansFinished'
  BY <1>14, NotifyingMeansFinished, NotifiedMeansFinished DEF RecoverSelect,
     dbVars, httpVars, poolVars, NotifyingMeansFinished,
     NotifiedMeansFinished, Active
<1>15. ASSUME RecoverDone PROVE NotifyingMeansFinished' /\ NotifiedMeansFinished'
  BY <1>15, NotifyingMeansFinished, NotifiedMeansFinished DEF RecoverDone,
     dbVars, httpVars, poolVars, NotifyingMeansFinished,
     NotifiedMeansFinished, Active
<1>16. ASSUME RecoverError PROVE NotifyingMeansFinished' /\ NotifiedMeansFinished'
  BY <1>16, NotifyingMeansFinished, NotifiedMeansFinished DEF RecoverError,
     dbVars, httpVars, poolVars, NotifyingMeansFinished,
     NotifiedMeansFinished, Active
<1>17. ASSUME Receive PROVE NotifyingMeansFinished' /\ NotifiedMeansFinished'
  BY <1>17, NotifyingMeansFinished, NotifiedMeansFinished DEF Receive, dbVars,
     httpVars, poolVars, NotifyingMeansFinished, NotifiedMeansFinished, Active
<1>18. ASSUME Restart PROVE NotifyingMeansFinished' /\ NotifiedMeansFinished'
  BY <1>18, NotifyingMeansFinished, NotifiedMeansFinished DEF Restart, dbVars,
     NotifyingMeansFinished, NotifiedMeansFinished, Active
<1>19. ASSUME NEW t \in Ticket, Spawn(t) PROVE NotifyingMeansFinished' /\ NotifiedMeansFinished'
  BY <1>19, NotifyingMeansFinished, NotifiedMeansFinished, TypeOK, TicketFacts
     DEF Spawn, dbVars, httpVars, NotifyingMeansFinished,
     NotifiedMeansFinished, Active, TypeOK, TaskState, None
<1>20. ASSUME NEW t \in Ticket, MarkRunning(t) PROVE NotifyingMeansFinished' /\ NotifiedMeansFinished'
  BY <1>20, NotifyingMeansFinished, NotifiedMeansFinished, TypeOK, TicketFacts
     DEF MarkRunning, Advance, SetJob, httpVars, dispVars,
     NotifyingMeansFinished, NotifiedMeansFinished, Active, TypeOK, TaskState,
     None
<1>21. ASSUME NEW t \in Ticket, Evaluate(t) PROVE NotifyingMeansFinished' /\ NotifiedMeansFinished'
  <2>1. /\ task'[t] # "notifying"
        /\ \A u \in Ticket \ {t} : task'[u] = task[u]
        /\ UNCHANGED <<dbVars, notified, waived>>
    BY <1>21, TypeOK DEF Evaluate, Advance, httpVars, TypeOK
  <2> QED
    BY <2>1, NotifyingMeansFinished, NotifiedMeansFinished
    DEF NotifyingMeansFinished, NotifiedMeansFinished, Active, dbVars
<1>22. ASSUME NEW t \in Ticket, Store(t) PROVE NotifyingMeansFinished' /\ NotifiedMeansFinished'
  BY <1>22, NotifyingMeansFinished, NotifiedMeansFinished, TypeOK, TicketFacts
     DEF Store, Advance, httpVars, dispVars, NotifyingMeansFinished,
     NotifiedMeansFinished, Active, TypeOK, TaskState, None
<1>23. ASSUME NEW t \in Ticket, MarkDone(t) PROVE NotifyingMeansFinished' /\ NotifiedMeansFinished'
  BY <1>23, NotifyingMeansFinished, NotifiedMeansFinished, TypeOK,
     TicketFacts, TicketInOnePlace, RowsBehindTickets DEF MarkDone, Finish,
     Advance, SetJob, httpVars, dispVars, NotifyingMeansFinished,
     NotifiedMeansFinished, Active, TypeOK, TaskState, None, TicketInOnePlace,
     RowsBehindTickets, Announced
<1>24. ASSUME NEW t \in Ticket, MarkFailed(t) PROVE NotifyingMeansFinished' /\ NotifiedMeansFinished'
  BY <1>24, NotifyingMeansFinished, NotifiedMeansFinished, TypeOK,
     TicketFacts, TicketInOnePlace, RowsBehindTickets DEF MarkFailed, Finish,
     Advance, SetJob, httpVars, dispVars, NotifyingMeansFinished,
     NotifiedMeansFinished, Active, TypeOK, TaskState, None, TicketInOnePlace,
     RowsBehindTickets, Announced
<1>25. ASSUME NEW t \in Ticket, MarkError(t) PROVE NotifyingMeansFinished' /\ NotifiedMeansFinished'
  BY <1>25, NotifyingMeansFinished, NotifiedMeansFinished, TypeOK, TicketFacts
     DEF MarkError, Advance, dbVars, httpVars, dispVars,
     NotifyingMeansFinished, NotifiedMeansFinished, Active, TypeOK, TaskState,
     None
<1>26. ASSUME NEW t \in Ticket, Notify(t) PROVE NotifyingMeansFinished' /\ NotifiedMeansFinished'
  BY <1>26, NotifyingMeansFinished, NotifiedMeansFinished, TypeOK, TicketFacts
     DEF Notify, dbVars, dispVars, NotifyingMeansFinished,
     NotifiedMeansFinished, Active, TypeOK, TaskState, None
<1>27. ASSUME UNCHANGED vars PROVE NotifyingMeansFinished' /\ NotifiedMeansFinished'
  BY <1>27, NotifyingMeansFinished, NotifiedMeansFinished DEF vars, dbVars,
     httpVars, dispVars, poolVars, NotifyingMeansFinished,
     NotifiedMeansFinished, Active
<1> QED
  BY <1>1, <1>2, <1>3, <1>4, <1>5, <1>6, <1>7, <1>8, <1>9, <1>10, <1>11,
     <1>12, <1>13, <1>14, <1>15, <1>16, <1>17, <1>18, <1>19, <1>20, <1>21,
     <1>22, <1>23, <1>24, <1>25, <1>26, <1>27 DEF Next, UploadStep,
     DispatchStep, TaskStep

LEMMA DoneStep ==
  ASSUME TypeOK, TicketInOnePlace, BootPhases, RowsBehindTickets,
         CommittedBeforeDone, DoneMeansScored, [Next]_vars
  PROVE  CommittedBeforeDone' /\ DoneMeansScored'
<1>1. ASSUME NEW f \in Flights, Persist(f) PROVE CommittedBeforeDone' /\ DoneMeansScored'
  BY <1>1, CommittedBeforeDone, DoneMeansScored, TypeOK, TicketFacts,
     TicketInOnePlace, RowsBehindTickets DEF Persist, Proceed, dispVars,
     poolVars, CommittedBeforeDone, DoneMeansScored, Active, TicketInOnePlace,
     RowsBehindTickets, Announced, TypeOK
<1>2. ASSUME NEW f \in Flights, Register(f) PROVE CommittedBeforeDone' /\ DoneMeansScored'
  BY <1>2, CommittedBeforeDone, DoneMeansScored DEF Register, Proceed, dbVars,
     dispVars, poolVars, CommittedBeforeDone, DoneMeansScored, Active
<1>3. ASSUME NEW f \in Flights, EnqueueInsert(f) PROVE CommittedBeforeDone' /\ DoneMeansScored'
  BY <1>3, CommittedBeforeDone, DoneMeansScored, TypeOK DEF EnqueueInsert,
     Proceed, dispVars, poolVars, CommittedBeforeDone, DoneMeansScored,
     Active, TypeOK
<1>4. ASSUME NEW f \in Flights, EnqueueRefused(f) PROVE CommittedBeforeDone' /\ DoneMeansScored'
  BY <1>4, CommittedBeforeDone, DoneMeansScored DEF EnqueueRefused, Proceed,
     dbVars, dispVars, poolVars, CommittedBeforeDone, DoneMeansScored, Active
<1>5. ASSUME NEW f \in Flights, EnqueueError(f) PROVE CommittedBeforeDone' /\ DoneMeansScored'
  BY <1>5, CommittedBeforeDone, DoneMeansScored DEF EnqueueError, Proceed,
     dbVars, dispVars, poolVars, CommittedBeforeDone, DoneMeansScored, Active
<1>6. ASSUME NEW f \in Flights, EnqueueSend(f) PROVE CommittedBeforeDone' /\ DoneMeansScored'
  BY <1>6, CommittedBeforeDone, DoneMeansScored DEF EnqueueSend, Proceed,
     Send, dbVars, poolVars, CommittedBeforeDone, DoneMeansScored, Active
<1>7. ASSUME NEW f \in Flights, AnswerScored(f) PROVE CommittedBeforeDone' /\ DoneMeansScored'
  BY <1>7, CommittedBeforeDone, DoneMeansScored DEF AnswerScored, Proceed,
     dbVars, dispVars, poolVars, CommittedBeforeDone, DoneMeansScored, Active
<1>8. ASSUME NEW f \in Flights, WaitExpires(f) PROVE CommittedBeforeDone' /\ DoneMeansScored'
  BY <1>8, CommittedBeforeDone, DoneMeansScored DEF WaitExpires, Proceed,
     dbVars, dispVars, poolVars, CommittedBeforeDone, DoneMeansScored, Active
<1>9. ASSUME NEW f \in Flights, AnswerPosition(f) PROVE CommittedBeforeDone' /\ DoneMeansScored'
  BY <1>9, CommittedBeforeDone, DoneMeansScored DEF AnswerPosition, Proceed,
     dbVars, dispVars, poolVars, CommittedBeforeDone, DoneMeansScored, Active
<1>10. ASSUME NEW f \in Flights, Disconnect(f) PROVE CommittedBeforeDone' /\ DoneMeansScored'
  BY <1>10, CommittedBeforeDone, DoneMeansScored DEF Disconnect, dbVars,
     dispVars, poolVars, CommittedBeforeDone, DoneMeansScored, Active
<1>11. ASSUME NEW f \in Flights, Delete(f) PROVE CommittedBeforeDone' /\ DoneMeansScored'
  <2>1. /\ flights' = flights \ {f} /\ scored' = scored \ {f}
        /\ \A g \in Flights : job'[g] = "done" => g # f /\ job[g] = "done"
        /\ task' = task
    BY <1>11, TypeOK DEF Delete, poolVars, TypeOK, None
  <2>2. CommittedBeforeDone'
    BY <2>1, CommittedBeforeDone DEF CommittedBeforeDone, Active
  <2>3. DoneMeansScored'
    BY <2>1, DoneMeansScored DEF DoneMeansScored
  <2> QED
    BY <2>2, <2>3
<1>12. ASSUME NEW f \in Flights, RecoverSend(f) PROVE CommittedBeforeDone' /\ DoneMeansScored'
  BY <1>12, CommittedBeforeDone, DoneMeansScored DEF RecoverSend, Send,
     dbVars, httpVars, poolVars, CommittedBeforeDone, DoneMeansScored, Active
<1>13. ASSUME RecoverReset PROVE CommittedBeforeDone' /\ DoneMeansScored'
  BY <1>13, CommittedBeforeDone, DoneMeansScored, TypeOK DEF RecoverReset,
     httpVars, poolVars, CommittedBeforeDone, DoneMeansScored, Active, TypeOK
<1>14. ASSUME RecoverSelect PROVE CommittedBeforeDone' /\ DoneMeansScored'
  BY <1>14, CommittedBeforeDone, DoneMeansScored DEF RecoverSelect, dbVars,
     httpVars, poolVars, CommittedBeforeDone, DoneMeansScored, Active
<1>15. ASSUME RecoverDone PROVE CommittedBeforeDone' /\ DoneMeansScored'
  BY <1>15, CommittedBeforeDone, DoneMeansScored DEF RecoverDone, dbVars,
     httpVars, poolVars, CommittedBeforeDone, DoneMeansScored, Active
<1>16. ASSUME RecoverError PROVE CommittedBeforeDone' /\ DoneMeansScored'
  BY <1>16, CommittedBeforeDone, DoneMeansScored DEF RecoverError, dbVars,
     httpVars, poolVars, CommittedBeforeDone, DoneMeansScored, Active
<1>17. ASSUME Receive PROVE CommittedBeforeDone' /\ DoneMeansScored'
  BY <1>17, CommittedBeforeDone, DoneMeansScored DEF Receive, dbVars,
     httpVars, poolVars, CommittedBeforeDone, DoneMeansScored, Active
<1>18. ASSUME Restart PROVE CommittedBeforeDone' /\ DoneMeansScored'
  BY <1>18, CommittedBeforeDone, DoneMeansScored DEF Restart, dbVars,
     CommittedBeforeDone, DoneMeansScored, Active
<1>19. ASSUME NEW t \in Ticket, Spawn(t) PROVE CommittedBeforeDone' /\ DoneMeansScored'
  BY <1>19, CommittedBeforeDone, DoneMeansScored, TypeOK, TicketFacts DEF
     Spawn, dbVars, httpVars, CommittedBeforeDone, DoneMeansScored, Active,
     TypeOK, TaskState, None
<1>20. ASSUME NEW t \in Ticket, MarkRunning(t) PROVE CommittedBeforeDone' /\ DoneMeansScored'
  BY <1>20, CommittedBeforeDone, DoneMeansScored, TypeOK, TicketFacts DEF
     MarkRunning, Advance, SetJob, httpVars, dispVars, CommittedBeforeDone,
     DoneMeansScored, Active, TypeOK, TaskState, None
<1>21. ASSUME NEW t \in Ticket, Evaluate(t) PROVE CommittedBeforeDone' /\ DoneMeansScored'
  <2>1. /\ task'[t] # "marking_done"
        /\ \A u \in Ticket \ {t} : task'[u] = task[u]
        /\ UNCHANGED dbVars
    BY <1>21, TypeOK DEF Evaluate, Advance, TypeOK
  <2> QED
    BY <2>1, CommittedBeforeDone, DoneMeansScored
    DEF CommittedBeforeDone, DoneMeansScored, Active, dbVars
<1>22. ASSUME NEW t \in Ticket, Store(t) PROVE CommittedBeforeDone' /\ DoneMeansScored'
  <2>1. UNCHANGED <<flights, job>> /\ scored \subseteq scored'
    BY <1>22 DEF Store
  <2>2. task'[t] = "marking_done" =>
          FlightOf(t) \in scored' \/ FlightOf(t) \notin flights
    BY <1>22, TypeOK DEF Store, Advance, TypeOK
  <2>3. \A u \in Ticket \ {t} : task'[u] = task[u]
    BY <1>22, TypeOK DEF Store, Advance, TypeOK
  <2>4. CommittedBeforeDone'
    BY <2>1, <2>2, <2>3, CommittedBeforeDone DEF CommittedBeforeDone, Active
  <2>5. DoneMeansScored'
    BY <2>1, DoneMeansScored DEF DoneMeansScored
  <2> QED
    BY <2>4, <2>5
<1>23. ASSUME NEW t \in Ticket, MarkDone(t) PROVE CommittedBeforeDone' /\ DoneMeansScored'
  BY <1>23, CommittedBeforeDone, DoneMeansScored, TypeOK, TicketFacts,
     TicketInOnePlace, RowsBehindTickets DEF MarkDone, Finish, Advance,
     SetJob, httpVars, dispVars, CommittedBeforeDone, DoneMeansScored, Active,
     TypeOK, TaskState, None, TicketInOnePlace, RowsBehindTickets, Announced
<1>24. ASSUME NEW t \in Ticket, MarkFailed(t) PROVE CommittedBeforeDone' /\ DoneMeansScored'
  BY <1>24, CommittedBeforeDone, DoneMeansScored, TypeOK, TicketFacts,
     TicketInOnePlace, RowsBehindTickets DEF MarkFailed, Finish, Advance,
     SetJob, httpVars, dispVars, CommittedBeforeDone, DoneMeansScored, Active,
     TypeOK, TaskState, None, TicketInOnePlace, RowsBehindTickets, Announced
<1>25. ASSUME NEW t \in Ticket, MarkError(t) PROVE CommittedBeforeDone' /\ DoneMeansScored'
  BY <1>25, CommittedBeforeDone, DoneMeansScored, TypeOK, TicketFacts DEF
     MarkError, Advance, dbVars, httpVars, dispVars, CommittedBeforeDone,
     DoneMeansScored, Active, TypeOK, TaskState, None
<1>26. ASSUME NEW t \in Ticket, Notify(t) PROVE CommittedBeforeDone' /\ DoneMeansScored'
  BY <1>26, CommittedBeforeDone, DoneMeansScored, TypeOK, TicketFacts DEF
     Notify, dbVars, dispVars, CommittedBeforeDone, DoneMeansScored, Active,
     TypeOK, TaskState, None
<1>27. ASSUME UNCHANGED vars PROVE CommittedBeforeDone' /\ DoneMeansScored'
  BY <1>27, CommittedBeforeDone, DoneMeansScored DEF vars, dbVars, httpVars,
     dispVars, poolVars, CommittedBeforeDone, DoneMeansScored, Active
<1> QED
  BY <1>1, <1>2, <1>3, <1>4, <1>5, <1>6, <1>7, <1>8, <1>9, <1>10, <1>11,
     <1>12, <1>13, <1>14, <1>15, <1>16, <1>17, <1>18, <1>19, <1>20, <1>21,
     <1>22, <1>23, <1>24, <1>25, <1>26, <1>27 DEF Next, UploadStep,
     DispatchStep, TaskStep

LEMMA ServedStep ==
  ASSUME TypeOK, TicketInOnePlace, WaitersServed, [Next]_vars
  PROVE  WaitersServed'
<1>1. ASSUME NEW f \in Flights, Persist(f) PROVE WaitersServed'
  BY <1>1, WaitersServed, TypeOK DEF Persist, Proceed, dispVars, poolVars,
     WaitersServed, Active, TypeOK
<1>2. ASSUME NEW f \in Flights, Register(f) PROVE WaitersServed'
  BY <1>2, WaitersServed, TypeOK DEF Register, Proceed, dbVars, dispVars,
     poolVars, WaitersServed, Active, TypeOK
<1>3. ASSUME NEW f \in Flights, EnqueueInsert(f) PROVE WaitersServed'
  BY <1>3, WaitersServed, TypeOK DEF EnqueueInsert, Proceed, dispVars,
     poolVars, WaitersServed, Active, TypeOK
<1>4. ASSUME NEW f \in Flights, EnqueueRefused(f) PROVE WaitersServed'
  BY <1>4, WaitersServed, TypeOK DEF EnqueueRefused, Proceed, dbVars,
     dispVars, poolVars, WaitersServed, Active, TypeOK
<1>5. ASSUME NEW f \in Flights, EnqueueError(f) PROVE WaitersServed'
  BY <1>5, WaitersServed, TypeOK DEF EnqueueError, Proceed, dbVars, dispVars,
     poolVars, WaitersServed, Active, TypeOK
<1>6. ASSUME NEW f \in Flights, EnqueueSend(f) PROVE WaitersServed'
  <2>1. waiters' = waiters /\ waiters \subseteq Flights
    BY <1>6, TypeOK DEF EnqueueSend, TypeOK
  <2>2. \A x : Contains(chan', x) <=> Contains(chan, x) \/ x = UploadTicket(f)
    BY <1>6, TypeOK, TicketFacts, AppendContains DEF EnqueueSend, Send, TypeOK
  <2>3. \A g \in Flights : handler'[g] = "waiting" => handler[g] = "waiting" \/ g = f
    BY <1>6, TypeOK DEF EnqueueSend, Proceed, TypeOK
  <2>4. held' = held /\ Active' = Active
    BY <1>6 DEF EnqueueSend, poolVars, Active
  <2> QED
    BY <2>1, <2>2, <2>3, <2>4, TicketFacts, WaitersServed DEF WaitersServed
<1>7. ASSUME NEW f \in Flights, AnswerScored(f) PROVE WaitersServed'
  BY <1>7, WaitersServed, TypeOK DEF AnswerScored, Proceed, dbVars, dispVars,
     poolVars, WaitersServed, Active, TypeOK
<1>8. ASSUME NEW f \in Flights, WaitExpires(f) PROVE WaitersServed'
  BY <1>8, WaitersServed, TypeOK DEF WaitExpires, Proceed, dbVars, dispVars,
     poolVars, WaitersServed, Active, TypeOK
<1>9. ASSUME NEW f \in Flights, AnswerPosition(f) PROVE WaitersServed'
  BY <1>9, WaitersServed, TypeOK DEF AnswerPosition, Proceed, dbVars,
     dispVars, poolVars, WaitersServed, Active, TypeOK
<1>10. ASSUME NEW f \in Flights, Disconnect(f) PROVE WaitersServed'
  BY <1>10, WaitersServed, TypeOK DEF Disconnect, dbVars, dispVars, poolVars,
     WaitersServed, Active, TypeOK
<1>11. ASSUME NEW f \in Flights, Delete(f) PROVE WaitersServed'
  BY <1>11, WaitersServed, TypeOK DEF Delete, httpVars, dispVars, poolVars,
     WaitersServed, Active, TypeOK
<1>12. ASSUME NEW f \in Flights, RecoverSend(f) PROVE WaitersServed'
  <2>1. waiters' = waiters /\ waiters \subseteq Flights
    BY <1>12, TypeOK DEF RecoverSend, httpVars, TypeOK
  <2>2. \A x : Contains(chan', x) <=> Contains(chan, x) \/ x = RecoveryTicket(f)
    BY <1>12, TypeOK, TicketFacts, AppendContains DEF RecoverSend, Send, TypeOK
  <2>3. UNCHANGED <<handler, held, Active>>
    BY <1>12 DEF RecoverSend, httpVars, poolVars, Active
  <2> QED
    BY <2>1, <2>2, <2>3, WaitersServed DEF WaitersServed
<1>13. ASSUME RecoverReset PROVE WaitersServed'
  BY <1>13, WaitersServed, TypeOK DEF RecoverReset, httpVars, poolVars,
     WaitersServed, Active, TypeOK
<1>14. ASSUME RecoverSelect PROVE WaitersServed'
  BY <1>14, WaitersServed, TypeOK DEF RecoverSelect, dbVars, httpVars,
     poolVars, WaitersServed, Active, TypeOK
<1>15. ASSUME RecoverDone PROVE WaitersServed'
  BY <1>15, WaitersServed, TypeOK DEF RecoverDone, dbVars, httpVars, poolVars,
     WaitersServed, Active, TypeOK
<1>16. ASSUME RecoverError PROVE WaitersServed'
  BY <1>16, WaitersServed, TypeOK DEF RecoverError, dbVars, httpVars,
     poolVars, WaitersServed, Active, TypeOK
<1>17. ASSUME Receive PROVE WaitersServed'
  <2>1. waiters' = waiters /\ waiters \subseteq Flights
    BY <1>17, TypeOK DEF Receive, httpVars, TypeOK
  <2>2. chan \in Seq(Ticket) /\ chan # <<>> /\ held = {} /\ held' = {Head(chan)}
    BY <1>17, TypeOK DEF Receive, TypeOK
  <2>3. \A x : Contains(chan, x) => Contains(chan', x) \/ x \in held'
    BY <1>17, <2>2, TailContains DEF Receive
  <2>4. UNCHANGED <<handler, Active>>
    BY <1>17 DEF Receive, httpVars, poolVars, Active
  <2> QED
    BY <2>1, <2>2, <2>3, <2>4, WaitersServed DEF WaitersServed
<1>18. ASSUME Restart PROVE WaitersServed'
  BY <1>18, WaitersServed, TypeOK DEF Restart, dbVars, WaitersServed, Active,
     TypeOK
<1>19. ASSUME NEW t \in Ticket, Spawn(t) PROVE WaitersServed'
  <2>1. waiters' = waiters /\ waiters \subseteq Flights
    BY <1>19, TypeOK DEF Spawn, httpVars, TypeOK
  <2>2. held' = {} /\ Active' = Active \union held
    <3>1. held = {t} /\ held' = {}
      BY <1>19, TicketInOnePlace DEF Spawn, TicketInOnePlace
    <3>2. Active' = Active \union {t}
      BY <1>19, TypeOK DEF Spawn, Active, TypeOK, None
    <3> QED
      BY <3>1, <3>2
  <2>3. UNCHANGED <<handler, chan>>
    BY <1>19 DEF Spawn, httpVars
  <2> QED
    BY <2>1, <2>2, <2>3, WaitersServed DEF WaitersServed
<1>20. ASSUME NEW t \in Ticket, MarkRunning(t) PROVE WaitersServed'
  BY <1>20, WaitersServed, TypeOK, TicketFacts DEF MarkRunning, Advance,
     SetJob, httpVars, dispVars, WaitersServed, Active, TypeOK, TaskState,
     None
<1>21. ASSUME NEW t \in Ticket, Evaluate(t) PROVE WaitersServed'
  BY <1>21, WaitersServed, TypeOK, TicketFacts DEF Evaluate, Advance, dbVars,
     httpVars, dispVars, WaitersServed, Active, TypeOK, TaskState, None
<1>22. ASSUME NEW t \in Ticket, Store(t) PROVE WaitersServed'
  BY <1>22, WaitersServed, TypeOK, TicketFacts DEF Store, Advance, httpVars,
     dispVars, WaitersServed, Active, TypeOK, TaskState, None
<1>23. ASSUME NEW t \in Ticket, MarkDone(t) PROVE WaitersServed'
  BY <1>23, WaitersServed, TypeOK, TicketFacts DEF MarkDone, Finish, Advance,
     SetJob, httpVars, dispVars, WaitersServed, Active, TypeOK, TaskState,
     None
<1>24. ASSUME NEW t \in Ticket, MarkFailed(t) PROVE WaitersServed'
  BY <1>24, WaitersServed, TypeOK, TicketFacts DEF MarkFailed, Finish,
     Advance, SetJob, httpVars, dispVars, WaitersServed, Active, TypeOK,
     TaskState, None
<1>25. ASSUME NEW t \in Ticket, MarkError(t) PROVE WaitersServed'
  BY <1>25, WaitersServed, TypeOK, TicketFacts DEF MarkError, Advance, dbVars,
     httpVars, dispVars, WaitersServed, Active, TypeOK, TaskState, None
<1>26. ASSUME NEW t \in Ticket, Notify(t) PROVE WaitersServed'
  BY <1>26, WaitersServed, TypeOK, TicketFacts DEF Notify, dbVars, dispVars,
     WaitersServed, Active, TypeOK, TaskState, None
<1>27. ASSUME UNCHANGED vars PROVE WaitersServed'
  BY <1>27, WaitersServed DEF vars, dbVars, httpVars, dispVars, poolVars,
     WaitersServed, Active, TypeOK
<1> QED
  BY <1>1, <1>2, <1>3, <1>4, <1>5, <1>6, <1>7, <1>8, <1>9, <1>10, <1>11,
     <1>12, <1>13, <1>14, <1>15, <1>16, <1>17, <1>18, <1>19, <1>20, <1>21,
     <1>22, <1>23, <1>24, <1>25, <1>26, <1>27 DEF Next, UploadStep,
     DispatchStep, TaskStep

LEMMA LateStep ==
  ASSUME TypeOK, TicketInOnePlace, BootPhases, RowsBehindTickets,
         LateTickets, [Next]_vars
  PROVE  LateTickets'
<1>1. ASSUME NEW f \in Flights, Persist(f) PROVE LateTickets'
  BY <1>1, LateTickets, TypeOK DEF Persist, Proceed, dispVars, poolVars,
     LateTickets, TypeOK
<1>2. ASSUME NEW f \in Flights, Register(f) PROVE LateTickets'
  BY <1>2, LateTickets, TypeOK DEF Register, Proceed, dbVars, dispVars,
     poolVars, LateTickets, TypeOK
<1>3. ASSUME NEW f \in Flights, EnqueueInsert(f) PROVE LateTickets'
  BY <1>3, LateTickets, TypeOK, TicketFacts DEF EnqueueInsert, Proceed,
     dispVars, poolVars, LateTickets, TypeOK, None
<1>4. ASSUME NEW f \in Flights, EnqueueRefused(f) PROVE LateTickets'
  BY <1>4, LateTickets, TypeOK DEF EnqueueRefused, Proceed, dbVars, dispVars,
     poolVars, LateTickets, TypeOK
<1>5. ASSUME NEW f \in Flights, EnqueueError(f) PROVE LateTickets'
  BY <1>5, LateTickets, TypeOK DEF EnqueueError, Proceed, dbVars, dispVars,
     poolVars, LateTickets, TypeOK
<1>6. ASSUME NEW f \in Flights, EnqueueSend(f) PROVE LateTickets'
  <2>1. \A x : Contains(chan', x) <=> Contains(chan, x) \/ x = UploadTicket(f)
    BY <1>6, TypeOK, TicketFacts, AppendContains DEF EnqueueSend, Send, TypeOK
  <2>2. /\ UNCHANGED <<job, held, task, backlog>>
        /\ sent' = sent \union {UploadTicket(f)}
    BY <1>6 DEF EnqueueSend, Send, dbVars, httpVars, poolVars
  <2>3. job[f] \in {"done", "failed"} => RecoveryTicket(f) \in sent
    BY <1>6, LateTickets DEF EnqueueSend, Proceed, LateTickets, None
  <2>4. \A g \in Flights : handler'[g] = "inserted" => handler[g] = "inserted"
    BY <1>6, TypeOK DEF EnqueueSend, Proceed, httpVars, TypeOK
  <2>5. ASSUME NEW t \in Ticket, job[FlightOf(t)] \in {"done", "failed"},
               Contains(chan', t) \/ t \in held \/ task[t] = "marking"
        PROVE  {UploadTicket(FlightOf(t)), RecoveryTicket(FlightOf(t))}
                 \subseteq sent'
    <3>1. CASE t = UploadTicket(f)
      BY <2>2, <2>3, <2>5, <3>1, TicketFacts
    <3>2. CASE t # UploadTicket(f)
      BY <2>1, <2>2, <2>5, <3>2, LateTickets DEF LateTickets
    <3> QED
      BY <3>1, <3>2
  <2> QED
    BY <2>2, <2>4, <2>5, LateTickets DEF LateTickets
<1>7. ASSUME NEW f \in Flights, AnswerScored(f) PROVE LateTickets'
  BY <1>7, LateTickets, TypeOK DEF AnswerScored, Proceed, dbVars, dispVars,
     poolVars, LateTickets, TypeOK
<1>8. ASSUME NEW f \in Flights, WaitExpires(f) PROVE LateTickets'
  BY <1>8, LateTickets, TypeOK DEF WaitExpires, Proceed, dbVars, dispVars,
     poolVars, LateTickets, TypeOK
<1>9. ASSUME NEW f \in Flights, AnswerPosition(f) PROVE LateTickets'
  BY <1>9, LateTickets, TypeOK DEF AnswerPosition, Proceed, dbVars, dispVars,
     poolVars, LateTickets, TypeOK
<1>10. ASSUME NEW f \in Flights, Disconnect(f) PROVE LateTickets'
  BY <1>10, LateTickets, TypeOK DEF Disconnect, dbVars, dispVars, poolVars,
     LateTickets, TypeOK
<1>11. ASSUME NEW f \in Flights, Delete(f) PROVE LateTickets'
  BY <1>11, LateTickets, TypeOK, TicketFacts DEF Delete, httpVars, dispVars,
     poolVars, LateTickets, TypeOK, None
<1>12. ASSUME NEW f \in Flights, RecoverSend(f) PROVE LateTickets'
  <2>1. \A x : Contains(chan', x) <=> Contains(chan, x) \/ x = RecoveryTicket(f)
    BY <1>12, TypeOK, TicketFacts, AppendContains DEF RecoverSend, Send, TypeOK
  <2>2. /\ UNCHANGED <<job, held, task, handler>> /\ backlog' \subseteq backlog
        /\ sent' = sent \union {RecoveryTicket(f)}
    BY <1>12 DEF RecoverSend, Send, dbVars, httpVars, poolVars
  <2>3. job[f] \notin {"done", "failed"}
    BY <1>12, LateTickets DEF RecoverSend, Proceed, LateTickets, None
  <2>4. \A g \in Flights : handler'[g] = "inserted" => handler[g] = "inserted"
    BY <1>12, TypeOK DEF RecoverSend, Proceed, httpVars, TypeOK
  <2>5. ASSUME NEW t \in Ticket, job[FlightOf(t)] \in {"done", "failed"},
               Contains(chan', t) \/ t \in held \/ task[t] = "marking"
        PROVE  {UploadTicket(FlightOf(t)), RecoveryTicket(FlightOf(t))}
                 \subseteq sent'
    <3>1. CASE t = RecoveryTicket(f)
      BY <2>2, <2>3, <2>5, <3>1, TicketFacts
    <3>2. CASE t # RecoveryTicket(f)
      BY <2>1, <2>2, <2>5, <3>2, LateTickets DEF LateTickets
    <3> QED
      BY <3>1, <3>2
  <2> QED
    BY <2>2, <2>4, <2>5, LateTickets DEF LateTickets
<1>13. ASSUME RecoverReset PROVE LateTickets'
  BY <1>13, LateTickets, TypeOK, TicketFacts DEF RecoverReset, httpVars,
     poolVars, LateTickets, TypeOK, None
<1>14. ASSUME RecoverSelect PROVE LateTickets'
  BY <1>14, LateTickets, TypeOK DEF RecoverSelect, dbVars, httpVars, poolVars,
     LateTickets, TypeOK, Queued
<1>15. ASSUME RecoverDone PROVE LateTickets'
  BY <1>15, LateTickets, TypeOK DEF RecoverDone, dbVars, httpVars, poolVars,
     LateTickets, TypeOK
<1>16. ASSUME RecoverError PROVE LateTickets'
  BY <1>16, LateTickets, TypeOK DEF RecoverError, dbVars, httpVars, poolVars,
     LateTickets, TypeOK
<1>17. ASSUME Receive PROVE LateTickets'
  <2>1. chan \in Seq(Ticket) /\ chan # <<>>
    BY <1>17, TypeOK DEF Receive, TypeOK
  <2>2. \A x : Contains(chan', x) \/ x \in held' => Contains(chan, x)
    BY <1>17, <2>1, TailContains DEF Receive
  <2>3. UNCHANGED <<job, handler, backlog, task, sent>>
    BY <1>17 DEF Receive, dbVars, httpVars, poolVars
  <2> QED
    BY <2>2, <2>3, LateTickets DEF LateTickets
<1>18. ASSUME Restart PROVE LateTickets'
  <2>1. /\ chan' = <<>> /\ held' = {} /\ backlog' = {}
        /\ \A u \in Ticket : task'[u] = None
        /\ \A x : ~Contains(chan', x)
    BY <1>18 DEF Restart, Contains
  <2>2. \A g \in Flights : handler'[g] # "inserted"
    BY <1>18, TypeOK DEF Restart, TypeOK
  <2> QED
    BY <2>1, <2>2 DEF LateTickets, None
<1>19. ASSUME NEW t \in Ticket, Spawn(t) PROVE LateTickets'
  BY <1>19, LateTickets, TypeOK, TicketFacts DEF Spawn, dbVars, httpVars,
     LateTickets, TypeOK, TaskState, None
<1>20. ASSUME NEW t \in Ticket, MarkRunning(t) PROVE LateTickets'
  <2> DEFINE g == FlightOf(t)
  <2>1. /\ \A h \in Flights : job'[h] = job[h] \/ job'[h] = "running"
        /\ \A u \in Ticket : task'[u] = "marking" => task[u] = "marking"
        /\ UNCHANGED <<handler, backlog, chan, held, sent>>
    BY <1>20, TypeOK DEF MarkRunning, Advance, SetJob, httpVars, dispVars, TypeOK
  <2>2. backlog = {}
    BY <1>20, BootPhases
    DEF MarkRunning, Advance, BootPhases, Active, None
  <2> QED
    BY <2>1, <2>2, TicketFacts, LateTickets DEF LateTickets
<1>21. ASSUME NEW t \in Ticket, Evaluate(t) PROVE LateTickets'
  <2>1. /\ \A u \in Ticket : task'[u] = "marking" => task[u] = "marking"
        /\ UNCHANGED <<job, handler, backlog, chan, held, sent>>
    BY <1>21, TypeOK DEF Evaluate, Advance, dbVars, httpVars, dispVars, TypeOK
  <2> QED
    BY <2>1, LateTickets DEF LateTickets
<1>22. ASSUME NEW t \in Ticket, Store(t) PROVE LateTickets'
  BY <1>22, LateTickets, TypeOK, TicketFacts DEF Store, Advance, httpVars,
     dispVars, LateTickets, TypeOK, TaskState, None
<1>23. ASSUME NEW t \in Ticket, MarkDone(t) PROVE LateTickets'
  <2> DEFINE g == FlightOf(t)
  <2>1. /\ t \in sent /\ backlog = {} /\ g \in Flights
        /\ ~Contains(chan, t) /\ t \notin held /\ task'[t] # "marking"
    BY <1>23, TypeOK, TicketInOnePlace, BootPhases, TicketFacts
    DEF MarkDone, Finish, Advance, TypeOK, TicketInOnePlace, BootPhases, Active, None
  <2>2. /\ \A h \in Flights \ {g} : job'[h] = job[h]
        /\ \A u \in Ticket \ {t} : task'[u] = task[u]
        /\ UNCHANGED <<handler, backlog, chan, held, sent>>
    BY <1>23, <2>1, TypeOK
    DEF MarkDone, Finish, Advance, SetJob, httpVars, dispVars, TypeOK
  <2>3. handler[g] = "inserted" => RecoveryTicket(g) \in sent
    BY <2>1, RowsBehindTickets, TicketFacts DEF RowsBehindTickets
  <2>4. ASSUME NEW u \in Ticket, FlightOf(u) = g,
               Contains(chan, u) \/ u \in held \/ task'[u] = "marking"
        PROVE  {UploadTicket(g), RecoveryTicket(g)} \subseteq sent
    <3>1. u # t /\ u \in sent
      BY <2>1, <2>2, <2>4, TicketInOnePlace DEF TicketInOnePlace, Active, None
    <3> QED
      BY <2>1, <2>4, <3>1, TicketFacts
  <2> QED
    BY <2>1, <2>2, <2>3, <2>4, TicketFacts, LateTickets DEF LateTickets
<1>24. ASSUME NEW t \in Ticket, MarkFailed(t) PROVE LateTickets'
  <2> DEFINE g == FlightOf(t)
  <2>1. /\ t \in sent /\ backlog = {} /\ g \in Flights
        /\ ~Contains(chan, t) /\ t \notin held /\ task'[t] # "marking"
    BY <1>24, TypeOK, TicketInOnePlace, BootPhases, TicketFacts
    DEF MarkFailed, Finish, Advance, TypeOK, TicketInOnePlace, BootPhases, Active, None
  <2>2. /\ \A h \in Flights \ {g} : job'[h] = job[h]
        /\ \A u \in Ticket \ {t} : task'[u] = task[u]
        /\ UNCHANGED <<handler, backlog, chan, held, sent>>
    BY <1>24, <2>1, TypeOK
    DEF MarkFailed, Finish, Advance, SetJob, httpVars, dispVars, TypeOK
  <2>3. handler[g] = "inserted" => RecoveryTicket(g) \in sent
    BY <2>1, RowsBehindTickets, TicketFacts DEF RowsBehindTickets
  <2>4. ASSUME NEW u \in Ticket, FlightOf(u) = g,
               Contains(chan, u) \/ u \in held \/ task'[u] = "marking"
        PROVE  {UploadTicket(g), RecoveryTicket(g)} \subseteq sent
    <3>1. u # t /\ u \in sent
      BY <2>1, <2>2, <2>4, TicketInOnePlace DEF TicketInOnePlace, Active, None
    <3> QED
      BY <2>1, <2>4, <3>1, TicketFacts
  <2> QED
    BY <2>1, <2>2, <2>3, <2>4, TicketFacts, LateTickets DEF LateTickets
<1>25. ASSUME NEW t \in Ticket, MarkError(t) PROVE LateTickets'
  BY <1>25, LateTickets, TypeOK, TicketFacts DEF MarkError, Advance, dbVars,
     httpVars, dispVars, LateTickets, TypeOK, TaskState, None
<1>26. ASSUME NEW t \in Ticket, Notify(t) PROVE LateTickets'
  BY <1>26, LateTickets, TypeOK, TicketFacts DEF Notify, dbVars, dispVars,
     LateTickets, TypeOK, TaskState, None
<1>27. ASSUME UNCHANGED vars PROVE LateTickets'
  BY <1>27, LateTickets DEF vars, dbVars, httpVars, dispVars, poolVars,
     LateTickets
<1> QED
  BY <1>1, <1>2, <1>3, <1>4, <1>5, <1>6, <1>7, <1>8, <1>9, <1>10, <1>11,
     <1>12, <1>13, <1>14, <1>15, <1>16, <1>17, <1>18, <1>19, <1>20, <1>21,
     <1>22, <1>23, <1>24, <1>25, <1>26, <1>27 DEF Next, UploadStep,
     DispatchStep, TaskStep

-----------------------------------------------------------------------------
(* The invariant of the specification.                                     *)

LEMMA InvInit == Init => IInv
<1> SUFFICES ASSUME Init PROVE IInv
  OBVIOUS
<1>1. TypeOK
  BY TypeInit
<1>2. Active = {} /\ Open = {} /\ \A x : ~Contains(chan, x)
  BY DEF Init, Active, Open, Contains, None
<1>3. TicketInOnePlace
  BY <1>2 DEF Init, TicketInOnePlace
<1>4. BootPhases
  BY <1>2, TicketFacts DEF Init, BootPhases, None
<1>5. RowsBehindTickets
  BY DEF Init, RowsBehindTickets, Announced
<1>6. PermitsAccountedFor
  BY <1>2, FS_EmptySet, WorkerCountAssumption DEF Init, PermitsAccountedFor
<1>7. NothingStranded
  BY <1>2 DEF NothingStranded
<1>8. /\ NotifyingMeansFinished /\ NotifiedMeansFinished
      /\ CommittedBeforeDone /\ DoneMeansScored
  BY <1>2 DEF Init, NotifyingMeansFinished, NotifiedMeansFinished,
     CommittedBeforeDone, DoneMeansScored, None
<1>9. LateTickets /\ WaitersServed
  BY <1>2 DEF Init, LateTickets, WaitersServed, None
<1> QED
  BY <1>1, <1>3, <1>4, <1>5, <1>6, <1>7, <1>8, <1>9 DEF IInv

LEMMA InvStep == IInv /\ [Next]_vars => IInv'
BY TypeStep, TicketStep, BootStep, RowsStep, PermitsStep, StrandedStep,
   NotifyStep, DoneStep, LateStep, ServedStep DEF IInv

\* The strengthened invariant holds in every reachable state of the queue.
THEOREM Invariance == Spec => []IInv
BY InvInit, InvStep, PTL DEF Spec

\* Types.
THEOREM TypesCorrect == Spec => []TypeOK
BY Invariance, PTL DEF IInv

\* Free permits and job tasks always add up to worker_count: the pool neither
\* overruns its bound nor loses a permit on any exit of run_job.
THEOREM PoolBound == Spec => []PermitsAccountedFor
BY Invariance, PTL DEF IInv

\* A queued or running job that no fault touched always has somebody who will
\* work on it: recovery, an id on its way, or a task.
THEOREM NoJobStranded == Spec => []NothingStranded
BY Invariance, PTL DEF IInv

\* Every request that waits on its oneshot will be notified by a ticket that is
\* still on its way or by a task that has yet to end.
THEOREM NoWaiterForgotten == Spec => []WaitersServed
BY Invariance, PTL DEF IInv

\* An uploader is released only for a job whose end is recorded, or a deleted
\* flight, unless a fault touched it.
THEOREM ReleasedMeansFinished == Spec => []NotifiedMeansFinished
BY Invariance, PTL DEF IInv

\* done is never visible before the routes are.
THEOREM DoneOnlyAfterCommit == Spec => []DoneMeansScored
BY Invariance, PTL DEF IInv

-----------------------------------------------------------------------------
(* Reruns.                                                                 *)

LEMMA RerunStep ==
  ASSUME IInv, [Next]_vars, NEW h \in Flights,
         job[h] \in {"done", "failed"}, job'[h] = "running"
  PROVE  {UploadTicket(h), RecoveryTicket(h)} \subseteq sent
<1> USE DEF None
<1>0. TypeOK /\ LateTickets
  BY DEF IInv
<1>1. ASSUME NEW f \in Flights, Persist(f) PROVE {UploadTicket(h), RecoveryTicket(h)} \subseteq sent
  BY <1>1 DEF Persist, Proceed, dispVars, poolVars
<1>2. ASSUME NEW f \in Flights, Register(f) PROVE {UploadTicket(h), RecoveryTicket(h)} \subseteq sent
  BY <1>2 DEF Register, Proceed, dbVars, dispVars, poolVars
<1>3. ASSUME NEW f \in Flights, EnqueueInsert(f) PROVE {UploadTicket(h), RecoveryTicket(h)} \subseteq sent
  BY <1>3, <1>0 DEF EnqueueInsert, Proceed, dispVars, poolVars, TypeOK
<1>4. ASSUME NEW f \in Flights, EnqueueRefused(f) PROVE {UploadTicket(h), RecoveryTicket(h)} \subseteq sent
  BY <1>4 DEF EnqueueRefused, Proceed, dbVars, dispVars, poolVars
<1>5. ASSUME NEW f \in Flights, EnqueueError(f) PROVE {UploadTicket(h), RecoveryTicket(h)} \subseteq sent
  BY <1>5 DEF EnqueueError, Proceed, dbVars, dispVars, poolVars
<1>6. ASSUME NEW f \in Flights, EnqueueSend(f) PROVE {UploadTicket(h), RecoveryTicket(h)} \subseteq sent
  BY <1>6 DEF EnqueueSend, Proceed, Send, dbVars, poolVars
<1>7. ASSUME NEW f \in Flights, AnswerScored(f) PROVE {UploadTicket(h), RecoveryTicket(h)} \subseteq sent
  BY <1>7 DEF AnswerScored, Proceed, dbVars, dispVars, poolVars
<1>8. ASSUME NEW f \in Flights, WaitExpires(f) PROVE {UploadTicket(h), RecoveryTicket(h)} \subseteq sent
  BY <1>8 DEF WaitExpires, Proceed, dbVars, dispVars, poolVars
<1>9. ASSUME NEW f \in Flights, AnswerPosition(f) PROVE {UploadTicket(h), RecoveryTicket(h)} \subseteq sent
  BY <1>9 DEF AnswerPosition, Proceed, dbVars, dispVars, poolVars
<1>10. ASSUME NEW f \in Flights, Disconnect(f) PROVE {UploadTicket(h), RecoveryTicket(h)} \subseteq sent
  BY <1>10 DEF Disconnect, dbVars, dispVars, poolVars
<1>11. ASSUME NEW f \in Flights, Delete(f) PROVE {UploadTicket(h), RecoveryTicket(h)} \subseteq sent
  BY <1>11, <1>0 DEF Delete, httpVars, dispVars, poolVars, TypeOK
<1>12. ASSUME NEW f \in Flights, RecoverSend(f) PROVE {UploadTicket(h), RecoveryTicket(h)} \subseteq sent
  BY <1>12 DEF RecoverSend, Send, dbVars, httpVars, poolVars
<1>13. ASSUME RecoverReset PROVE {UploadTicket(h), RecoveryTicket(h)} \subseteq sent
  BY <1>13, <1>0 DEF RecoverReset, httpVars, poolVars, TypeOK
<1>14. ASSUME RecoverSelect PROVE {UploadTicket(h), RecoveryTicket(h)} \subseteq sent
  BY <1>14 DEF RecoverSelect, dbVars, httpVars, poolVars
<1>15. ASSUME RecoverDone PROVE {UploadTicket(h), RecoveryTicket(h)} \subseteq sent
  BY <1>15 DEF RecoverDone, dbVars, httpVars, poolVars
<1>16. ASSUME RecoverError PROVE {UploadTicket(h), RecoveryTicket(h)} \subseteq sent
  BY <1>16 DEF RecoverError, dbVars, httpVars, poolVars
<1>17. ASSUME Receive PROVE {UploadTicket(h), RecoveryTicket(h)} \subseteq sent
  BY <1>17 DEF Receive, dbVars, httpVars, poolVars
<1>18. ASSUME Restart PROVE {UploadTicket(h), RecoveryTicket(h)} \subseteq sent
  BY <1>18 DEF Restart, dbVars
<1>19. ASSUME NEW t \in Ticket, Spawn(t) PROVE {UploadTicket(h), RecoveryTicket(h)} \subseteq sent
  BY <1>19 DEF Spawn, dbVars, httpVars
<1>20. ASSUME NEW t \in Ticket, MarkRunning(t) PROVE {UploadTicket(h), RecoveryTicket(h)} \subseteq sent
  <2>1. h = FlightOf(t) /\ task[t] = "marking"
    BY <1>20, <1>0, TicketFacts DEF MarkRunning, Advance, SetJob, TypeOK
  <2> QED
    BY <2>1, <1>0 DEF LateTickets
<1>21. ASSUME NEW t \in Ticket, Evaluate(t) PROVE {UploadTicket(h), RecoveryTicket(h)} \subseteq sent
  BY <1>21 DEF Evaluate, Advance, dbVars, httpVars, dispVars
<1>22. ASSUME NEW t \in Ticket, Store(t) PROVE {UploadTicket(h), RecoveryTicket(h)} \subseteq sent
  BY <1>22 DEF Store, Advance, httpVars, dispVars
<1>23. ASSUME NEW t \in Ticket, MarkDone(t) PROVE {UploadTicket(h), RecoveryTicket(h)} \subseteq sent
  BY <1>23, <1>0 DEF MarkDone, Finish, Advance, SetJob, httpVars, dispVars,
     TypeOK
<1>24. ASSUME NEW t \in Ticket, MarkFailed(t) PROVE {UploadTicket(h), RecoveryTicket(h)} \subseteq sent
  BY <1>24, <1>0 DEF MarkFailed, Finish, Advance, SetJob, httpVars, dispVars,
     TypeOK
<1>25. ASSUME NEW t \in Ticket, MarkError(t) PROVE {UploadTicket(h), RecoveryTicket(h)} \subseteq sent
  BY <1>25 DEF MarkError, Advance, dbVars, httpVars, dispVars
<1>26. ASSUME NEW t \in Ticket, Notify(t) PROVE {UploadTicket(h), RecoveryTicket(h)} \subseteq sent
  BY <1>26 DEF Notify, dbVars, dispVars
<1>27. ASSUME UNCHANGED vars PROVE {UploadTicket(h), RecoveryTicket(h)} \subseteq sent
  BY <1>27 DEF vars, dbVars, httpVars, dispVars, poolVars
<1> QED
  BY <1>1, <1>2, <1>3, <1>4, <1>5, <1>6, <1>7, <1>8, <1>9, <1>10, <1>11,
     <1>12, <1>13, <1>14, <1>15, <1>16, <1>17, <1>18, <1>19, <1>20, <1>21,
     <1>22, <1>23, <1>24, <1>25, <1>26, <1>27 DEF Next, UploadStep,
     DispatchStep, TaskStep

\* A finished job is run again only when the upload and boot recovery have both
\* put its id on the channel.
THEOREM RerunNeedsBothTickets == Spec => RerunOnlyIfSentTwice
<1>1. IInv /\ [Next]_vars =>
        [\A f \in Flights :
           job[f] \in {"done", "failed"} /\ job'[f] = "running"
             => {UploadTicket(f), RecoveryTicket(f)} \subseteq sent]_vars
  BY RerunStep
<1> QED
  BY <1>1, Invariance, PTL DEF Spec, RerunOnlyIfSentTwice

-----------------------------------------------------------------------------
(* The queue implements ScoringPromise.                                    *)

LEMMA SameView ==
  ASSUME UNCHANGED <<flights, finished, notified, waived>>,
         \A f \in Flights : /\ (handler'[f] = "idle") = (handler[f] = "idle")
                            /\ (job'[f] = None) = (job[f] = None)
  PROVE  UNCHANGED <<UploaderView, notified, waived>>
BY DEF UploaderView

LEMMA PromiseStep ==
  ASSUME IInv, [Next]_vars
  PROVE  [Promise!Next]_<<UploaderView, notified, waived>>
<1> DEFINE Implemented == [Promise!Next]_<<UploaderView, notified, waived>>
<1> USE DEF None
<1>0. TypeOK /\ RowsBehindTickets /\ TicketInOnePlace
  BY DEF IInv
<1>1. ASSUME NEW f \in Flights, Persist(f) PROVE Implemented
  <2>1. UploaderView[f] = "absent"
    BY <1>1, <1>0 DEF Persist, Proceed, dispVars, poolVars, UploaderView,
       RowsBehindTickets, TypeOK
  <2>2. UploaderView' = [UploaderView EXCEPT ![f] = "stored"]
    BY <1>1, <1>0 DEF Persist, Proceed, dispVars, poolVars, UploaderView,
       RowsBehindTickets, TypeOK
  <2>3. UNCHANGED <<notified, waived>>
    BY <1>1 DEF Persist
  <2> QED
    BY <2>1, <2>2, <2>3 DEF Promise!Next, Promise!Submit, Promise!Move
<1>2. ASSUME NEW f \in Flights, Register(f) PROVE Implemented
  <2>1. /\ UNCHANGED <<flights, finished, notified, waived>>
        /\ \A g \in Flights : /\ (handler'[g] = "idle") = (handler[g] = "idle")
                             /\ (job'[g] = None) = (job[g] = None)
    BY <1>2, <1>0, TicketFacts DEF Register, Proceed, dbVars, dispVars,
       poolVars, TypeOK
  <2> QED
    BY <2>1, SameView
<1>3. ASSUME NEW f \in Flights, EnqueueInsert(f) PROVE Implemented
  <2>1. UploaderView[f] = "stored"
    BY <1>3, <1>0 DEF EnqueueInsert, Proceed, dispVars, poolVars, UploaderView,
       RowsBehindTickets, TypeOK
  <2>2. UploaderView' = [UploaderView EXCEPT ![f] = "pending"]
    BY <1>3, <1>0 DEF EnqueueInsert, Proceed, dispVars, poolVars, UploaderView,
       RowsBehindTickets, TypeOK
  <2>3. UNCHANGED <<notified, waived>>
    BY <1>3 DEF EnqueueInsert
  <2> QED
    BY <2>1, <2>2, <2>3 DEF Promise!Next, Promise!HandOver, Promise!Move
<1>4. ASSUME NEW f \in Flights, EnqueueRefused(f) PROVE Implemented
  <2>1. /\ UNCHANGED <<flights, finished, notified, waived>>
        /\ \A g \in Flights : /\ (handler'[g] = "idle") = (handler[g] = "idle")
                             /\ (job'[g] = None) = (job[g] = None)
    BY <1>4, <1>0, TicketFacts DEF EnqueueRefused, Proceed, dbVars, dispVars,
       poolVars, TypeOK
  <2> QED
    BY <2>1, SameView
<1>5. ASSUME NEW f \in Flights, EnqueueError(f) PROVE Implemented
  <2>1. /\ UNCHANGED <<flights, finished, notified, waived>>
        /\ \A g \in Flights : /\ (handler'[g] = "idle") = (handler[g] = "idle")
                             /\ (job'[g] = None) = (job[g] = None)
    BY <1>5, <1>0, TicketFacts DEF EnqueueError, Proceed, dbVars, dispVars,
       poolVars, TypeOK
  <2> QED
    BY <2>1, SameView
<1>6. ASSUME NEW f \in Flights, EnqueueSend(f) PROVE Implemented
  <2>1. /\ UNCHANGED <<flights, finished, notified, waived>>
        /\ \A g \in Flights : /\ (handler'[g] = "idle") = (handler[g] = "idle")
                             /\ (job'[g] = None) = (job[g] = None)
    BY <1>6, <1>0, TicketFacts DEF EnqueueSend, Proceed, Send, dbVars, poolVars,
       TypeOK
  <2> QED
    BY <2>1, SameView
<1>7. ASSUME NEW f \in Flights, AnswerScored(f) PROVE Implemented
  <2>1. /\ UNCHANGED <<flights, finished, notified, waived>>
        /\ \A g \in Flights : /\ (handler'[g] = "idle") = (handler[g] = "idle")
                             /\ (job'[g] = None) = (job[g] = None)
    BY <1>7, <1>0, TicketFacts DEF AnswerScored, Proceed, dbVars, dispVars,
       poolVars, TypeOK
  <2> QED
    BY <2>1, SameView
<1>8. ASSUME NEW f \in Flights, WaitExpires(f) PROVE Implemented
  <2>1. /\ UNCHANGED <<flights, finished, notified, waived>>
        /\ \A g \in Flights : /\ (handler'[g] = "idle") = (handler[g] = "idle")
                             /\ (job'[g] = None) = (job[g] = None)
    BY <1>8, <1>0, TicketFacts DEF WaitExpires, Proceed, dbVars, dispVars,
       poolVars, TypeOK
  <2> QED
    BY <2>1, SameView
<1>9. ASSUME NEW f \in Flights, AnswerPosition(f) PROVE Implemented
  <2>1. /\ UNCHANGED <<flights, finished, notified, waived>>
        /\ \A g \in Flights : /\ (handler'[g] = "idle") = (handler[g] = "idle")
                             /\ (job'[g] = None) = (job[g] = None)
    BY <1>9, <1>0, TicketFacts DEF AnswerPosition, Proceed, dbVars, dispVars,
       poolVars, TypeOK
  <2> QED
    BY <2>1, SameView
<1>10. ASSUME NEW f \in Flights, Disconnect(f) PROVE Implemented
  <2>1. UploaderView' = UploaderView /\ notified' = notified
    BY <1>10, <1>0 DEF Disconnect, dbVars, UploaderView, TypeOK
  <2>2. waived' = waived \/ waived' = waived \union {f}
    BY <1>10 DEF Disconnect
  <2> QED
    BY <2>1, <2>2 DEF Promise!Next, Promise!Waive
<1>11. ASSUME NEW f \in Flights, Delete(f) PROVE Implemented
  <2>1. UploaderView[f] \in {"stored", "pending", "settled"}
    BY <1>11, <1>0 DEF Delete, httpVars, dispVars, poolVars, UploaderView,
       RowsBehindTickets, TypeOK
  <2>2. UploaderView' = [UploaderView EXCEPT ![f] = "deleted"]
    BY <1>11, <1>0 DEF Delete, httpVars, dispVars, poolVars, UploaderView,
       RowsBehindTickets, TypeOK
  <2>3. UNCHANGED <<notified, waived>>
    BY <1>11 DEF Delete, httpVars
  <2> QED
    BY <2>1, <2>2, <2>3 DEF Promise!Next, Promise!Discard, Promise!Move
<1>12. ASSUME NEW f \in Flights, RecoverSend(f) PROVE Implemented
  <2>1. /\ UNCHANGED <<flights, finished, notified, waived>>
        /\ \A g \in Flights : /\ (handler'[g] = "idle") = (handler[g] = "idle")
                             /\ (job'[g] = None) = (job[g] = None)
    BY <1>12, <1>0, TicketFacts DEF RecoverSend, Send, dbVars, httpVars,
       poolVars, TypeOK
  <2> QED
    BY <2>1, SameView
<1>13. ASSUME RecoverReset PROVE Implemented
  <2>1. /\ UNCHANGED <<flights, finished, notified, waived>>
        /\ \A g \in Flights : /\ (handler'[g] = "idle") = (handler[g] = "idle")
                             /\ (job'[g] = None) = (job[g] = None)
    BY <1>13, <1>0, TicketFacts DEF RecoverReset, httpVars, poolVars, TypeOK
  <2> QED
    BY <2>1, SameView
<1>14. ASSUME RecoverSelect PROVE Implemented
  <2>1. /\ UNCHANGED <<flights, finished, notified, waived>>
        /\ \A g \in Flights : /\ (handler'[g] = "idle") = (handler[g] = "idle")
                             /\ (job'[g] = None) = (job[g] = None)
    BY <1>14, <1>0, TicketFacts DEF RecoverSelect, dbVars, httpVars, poolVars,
       TypeOK
  <2> QED
    BY <2>1, SameView
<1>15. ASSUME RecoverDone PROVE Implemented
  <2>1. /\ UNCHANGED <<flights, finished, notified, waived>>
        /\ \A g \in Flights : /\ (handler'[g] = "idle") = (handler[g] = "idle")
                             /\ (job'[g] = None) = (job[g] = None)
    BY <1>15, <1>0, TicketFacts DEF RecoverDone, dbVars, httpVars, poolVars,
       TypeOK
  <2> QED
    BY <2>1, SameView
<1>16. ASSUME RecoverError PROVE Implemented
  <2>1. UploaderView' = UploaderView /\ notified' = notified
    BY <1>16 DEF RecoverError, dbVars, httpVars, UploaderView
  <2>2. waived' = waived \union Open /\ Open \in SUBSET Flights
    BY <1>16 DEF RecoverError, Open
  <2> QED
    BY <2>1, <2>2 DEF Promise!Next, Promise!Waive
<1>17. ASSUME Receive PROVE Implemented
  <2>1. /\ UNCHANGED <<flights, finished, notified, waived>>
        /\ \A g \in Flights : /\ (handler'[g] = "idle") = (handler[g] = "idle")
                             /\ (job'[g] = None) = (job[g] = None)
    BY <1>17, <1>0, TicketFacts DEF Receive, dbVars, httpVars, poolVars, TypeOK
  <2> QED
    BY <2>1, SameView
<1>18. ASSUME Restart PROVE Implemented
  <2>1. UploaderView' = UploaderView
    BY <1>18, <1>0 DEF Restart, dbVars, UploaderView, TypeOK
  <2>2. notified' = {} /\ waived' = {}
    BY <1>18 DEF Restart
  <2> QED
    BY <2>1, <2>2 DEF Promise!Next, Promise!Restart
<1>19. ASSUME NEW t \in Ticket, Spawn(t) PROVE Implemented
  <2>1. /\ UNCHANGED <<flights, finished, notified, waived>>
        /\ \A g \in Flights : /\ (handler'[g] = "idle") = (handler[g] = "idle")
                             /\ (job'[g] = None) = (job[g] = None)
    BY <1>19, <1>0, TicketFacts DEF Spawn, dbVars, httpVars, TypeOK
  <2> QED
    BY <2>1, SameView
<1>20. ASSUME NEW t \in Ticket, MarkRunning(t) PROVE Implemented
  <2>1. /\ UNCHANGED <<flights, finished, notified, waived>>
        /\ \A g \in Flights : /\ (handler'[g] = "idle") = (handler[g] = "idle")
                             /\ (job'[g] = None) = (job[g] = None)
    BY <1>20, <1>0, TicketFacts DEF MarkRunning, Advance, SetJob, httpVars,
       dispVars, TypeOK
  <2> QED
    BY <2>1, SameView
<1>21. ASSUME NEW t \in Ticket, Evaluate(t) PROVE Implemented
  <2>1. /\ UNCHANGED <<flights, finished, notified, waived>>
        /\ \A g \in Flights : /\ (handler'[g] = "idle") = (handler[g] = "idle")
                             /\ (job'[g] = None) = (job[g] = None)
    BY <1>21, <1>0, TicketFacts DEF Evaluate, Advance, dbVars, httpVars,
       dispVars, TypeOK
  <2> QED
    BY <2>1, SameView
<1>22. ASSUME NEW t \in Ticket, Store(t) PROVE Implemented
  <2>1. /\ UNCHANGED <<flights, finished, notified, waived>>
        /\ \A g \in Flights : /\ (handler'[g] = "idle") = (handler[g] = "idle")
                             /\ (job'[g] = None) = (job[g] = None)
    BY <1>22, <1>0, TicketFacts DEF Store, Advance, httpVars, dispVars, TypeOK
  <2> QED
    BY <2>1, SameView
<1>23. ASSUME NEW t \in Ticket, MarkDone(t) PROVE Implemented
  <2> DEFINE g == FlightOf(t)
  <2>1. /\ g \in Flights /\ UNCHANGED <<flights, handler, notified, waived>>
        /\ \A h \in Flights : (job'[h] = None) = (job[h] = None)
        /\ finished' = IF job[g] = None THEN finished ELSE finished \union {g}
    BY <1>23, <1>0, TicketFacts DEF MarkDone, Finish, SetJob, httpVars, TypeOK
  <2>2. CASE g \in finished \/ g \notin flights \/ job[g] = None
    <3>1. UploaderView' = UploaderView
      BY <2>1, <2>2 DEF UploaderView
    <3> QED
      BY <2>1, <3>1
  <2>3. CASE g \in flights \ finished /\ job[g] # None
    <3>1. UploaderView[g] = "pending"
      BY <2>1, <2>3 DEF UploaderView
    <3>2. UploaderView' = [UploaderView EXCEPT ![g] = "settled"]
      BY <2>1, <2>3 DEF UploaderView
    <3> QED
      BY <2>1, <3>1, <3>2 DEF Promise!Next, Promise!Settle, Promise!Move
  <2> QED
    BY <2>2, <2>3
<1>24. ASSUME NEW t \in Ticket, MarkFailed(t) PROVE Implemented
  <2> DEFINE g == FlightOf(t)
  <2>1. /\ g \in Flights /\ UNCHANGED <<flights, handler, notified, waived>>
        /\ \A h \in Flights : (job'[h] = None) = (job[h] = None)
        /\ finished' = IF job[g] = None THEN finished ELSE finished \union {g}
    BY <1>24, <1>0, TicketFacts DEF MarkFailed, Finish, SetJob, httpVars, TypeOK
  <2>2. CASE g \in finished \/ g \notin flights \/ job[g] = None
    <3>1. UploaderView' = UploaderView
      BY <2>1, <2>2 DEF UploaderView
    <3> QED
      BY <2>1, <3>1
  <2>3. CASE g \in flights \ finished /\ job[g] # None
    <3>1. UploaderView[g] = "pending"
      BY <2>1, <2>3 DEF UploaderView
    <3>2. UploaderView' = [UploaderView EXCEPT ![g] = "settled"]
      BY <2>1, <2>3 DEF UploaderView
    <3> QED
      BY <2>1, <3>1, <3>2 DEF Promise!Next, Promise!Settle, Promise!Move
  <2> QED
    BY <2>2, <2>3
<1>25. ASSUME NEW t \in Ticket, MarkError(t) PROVE Implemented
  <2>1. UploaderView' = UploaderView /\ notified' = notified
    BY <1>25 DEF MarkError, dbVars, httpVars, UploaderView
  <2>2. waived' = waived \union {FlightOf(t)} /\ {FlightOf(t)} \in SUBSET Flights
    BY <1>25, TicketFacts DEF MarkError
  <2> QED
    BY <2>1, <2>2 DEF Promise!Next, Promise!Waive
<1>26. ASSUME NEW t \in Ticket, Notify(t) PROVE Implemented
  <2> DEFINE g == FlightOf(t)
  <2>1. UploaderView' = UploaderView /\ waived' = waived /\ g \in Flights
    BY <1>26, TicketFacts DEF Notify, dbVars, UploaderView
  <2>2. CASE g \notin waiters
    <3>1. notified' = notified
      BY <1>26, <2>2 DEF Notify
    <3> QED
      BY <2>1, <3>1
  <2>3. CASE g \in waiters
    <3>1. notified' = notified \union {g}
      BY <1>26, <2>3 DEF Notify
    <3>2. g \in waived \/ g \in finished \/ g \notin flights
      BY <1>26, <1>0 DEF IInv, NotifyingMeansFinished, Notify, Active, TypeOK
    <3>3. handler[g] # "idle"
      BY <2>1, <2>3, <1>0 DEF RowsBehindTickets
    <3>4. g \in waived \/ UploaderView[g] \in {"settled", "deleted"}
      BY <2>1, <3>2, <3>3 DEF UploaderView
    <3> QED
      BY <2>1, <3>1, <3>4 DEF Promise!Next, Promise!Release
  <2> QED
    BY <2>2, <2>3
<1>27. ASSUME UNCHANGED vars PROVE Implemented
  <2>1. /\ UNCHANGED <<flights, finished, notified, waived>>
        /\ \A g \in Flights : /\ (handler'[g] = "idle") = (handler[g] = "idle")
                             /\ (job'[g] = None) = (job[g] = None)
    BY <1>27 DEF vars, dbVars, httpVars
  <2> QED
    BY <2>1, SameView
<1> QED
  BY <1>1, <1>2, <1>3, <1>4, <1>5, <1>6, <1>7, <1>8, <1>9, <1>10, <1>11,
     <1>12, <1>13, <1>14, <1>15, <1>16, <1>17, <1>18, <1>19, <1>20, <1>21,
     <1>22, <1>23, <1>24, <1>25, <1>26, <1>27 DEF Next, UploadStep,
     DispatchStep, TaskStep

\* The whole queue, with its faults and restarts, does no more to an uploader
\* than ScoringPromise allows.
THEOREM QueueKeepsPromise == Spec => KeepsPromise
<1>1. Init => Promise!Init
  BY DEF Init, Promise!Init, UploaderView
<1>2. IInv /\ [Next]_vars => [Promise!Next]_<<UploaderView, notified, waived>>
  BY PromiseStep
<1> QED
  BY <1>1, <1>2, Invariance, PTL
  DEF Spec, KeepsPromise, Promise!Spec, Promise!promiseVars

=============================================================================
