---- MODULE ServerProofs ----
(***************************************************************************)
(* Proofs about Server, for every finite set of connections and any bound  *)
(* on the frames they carry.                                               *)
(***************************************************************************)
EXTENDS Server, FiniteSetTheorems, TLAPS

LiveConns == {c \in Conns : pc[c] \in Live}

\* The wait group is the number of goroutines that have not ended.
WgCounts == wg = Cardinality(LiveConns)

\* The accept loop waits only after cancellation, and no goroutine is left
\* when it has returned nil.
MainInv == /\ main \in {"wait", "nil"} => ctx
           /\ main = "nil" => LiveConns = {}

\* Strengthening of AtMostOneLateRequest: a session whose last request was
\* late has not polled its context since.
LateInv == \A c \in Conns :
  /\ late[c] \in {0, 1}
  /\ late[c] = 1 => ctx /\ pc[c] \notin Before \cup Handshaking \cup {"store", "read"}

\* Strengthening of OneReplyPerRequest: where a session stands tells how many
\* replies it owes.
ReplyInv == \A c \in Conns :
  peer[c] # "gone" =>
    begun[c] = answered[c] + IF pc[c] \in {"handle", "reply"} THEN 1 ELSE 0

IInv == /\ TypeOK /\ WgCounts /\ MainInv
        /\ SessionsAreRunning /\ DeadlineOnlyInHandshake /\ NoContextLeak
        /\ LateInv /\ ReplyInv

USE ConnsAssumption, MaxFramesAssumption

LEMMA LiveFinite == IsFiniteSet(LiveConns) /\ Cardinality(LiveConns) \in Nat
BY FS_Subset, FS_CardinalityType DEF LiveConns

\* Moving one goroutine between two live or two dead states leaves LiveConns
\* alone.
LEMMA LiveMove ==
  ASSUME TypeOK, NEW c \in Conns, NEW to, pc' = [pc EXCEPT ![c] = to],
         pc[c] \in Live <=> to \in Live
  PROVE  LiveConns' = LiveConns
BY DEF LiveConns, TypeOK

\* The steps of a goroutine between its start and its wg.Done.
InnerStep(c) == Handshake(c) \/ StoreSession(c) \/ Run(c) \/ DeleteSession(c) \/ CloseConn(c)

LEMMA InnerStepLive ==
  ASSUME TypeOK, NEW c \in Conns, InnerStep(c)
  PROVE  LiveConns' = LiveConns /\ wg' = wg
<1> USE DEF Goto, Live, Handshaking, Running, server, LeaveRun, HandshakeFails
<1>1. CASE Handshake(c)
  BY <1>1, LiveMove DEF Handshake, ReadHello, HandshakeBroken, WriteAck
<1>2. CASE StoreSession(c)
  BY <1>2, LiveMove DEF StoreSession
<1>3. CASE Poll(c) \/ ReadRequest(c) \/ ReadLast(c) \/ ReadFails(c)
  BY <1>3, LiveMove DEF Poll, ReadRequest, ReadLast, ReadFails
<1>4. CASE \E o \in {"result", "error", "panic"} : HandlerReturns(c, o)
  <2>1. pc[c] \in Live /\ wg' = wg
    BY <1>4 DEF HandlerReturns
  <2>2. PICK to \in {"reply"} : pc' = [pc EXCEPT ![c] = to]
    BY <1>4 DEF HandlerReturns, HandlerErrorGoto
  <2> QED
    BY <2>1, <2>2, LiveMove
<1>5. CASE WriteReply(c) \/ WriteReplyFails(c)
  BY <1>5, LiveMove DEF WriteReply, WriteReplyFails
<1>6. CASE DeleteSession(c) \/ CloseConn(c)
  BY <1>6, LiveMove DEF DeleteSession, CloseConn
<1> QED
  BY <1>1, <1>2, <1>3, <1>4, <1>5, <1>6 DEF InnerStep, Run

LEMMA WgStep ==
  ASSUME TypeOK, WgCounts, [Next]_vars
  PROVE  WgCounts' /\ wg' \in Nat
<1> USE DEF WgCounts
<1>0. SUFFICES WgCounts'
  BY LiveFinite, FS_Subset, FS_CardinalityType DEF LiveConns
<1>1. CASE Cancel \/ AcceptFails \/ WaitReturns
  BY <1>1 DEF Cancel, AcceptFails, WaitReturns, LiveConns
<1>2. CASE CloseListener
  <2>1. LiveConns' = LiveConns
    BY <1>2 DEF CloseListener, LiveConns, TypeOK, Live, Handshaking, Running
  <2> QED
    BY <1>2, <2>1 DEF CloseListener
<1>3. ASSUME NEW c \in Conns, Dial(c) \/ Leave(c) PROVE WgCounts'
  <2>1. LiveConns' = LiveConns /\ wg' = wg
    BY <1>3 DEF Dial, Leave, Goto, LiveConns, TypeOK, Live, Handshaking, Running, server
  <2> QED
    BY <2>1
<1>4. ASSUME NEW c \in Conns, Accept(c) PROVE WgCounts'
  <2>1. c \notin LiveConns
    BY <1>4 DEF Accept, LiveConns, Live, Handshaking, Running
  <2>2. LiveConns' = LiveConns \cup {c}
    BY <1>4 DEF Accept, Goto, LiveConns, TypeOK, Live, Handshaking
  <2> QED
    BY <1>4, <2>1, <2>2, LiveFinite, FS_AddElement DEF Accept, WgAdd
<1>5. ASSUME NEW c \in Conns, InnerStep(c) PROVE WgCounts'
  BY <1>5, InnerStepLive
<1>6. ASSUME NEW c \in Conns, WgDone(c) PROVE WgCounts'
  <2>1. c \in LiveConns
    BY <1>6 DEF WgDone, LiveConns, Live
  <2>2. LiveConns' = LiveConns \ {c}
    BY <1>6 DEF WgDone, Goto, LiveConns, TypeOK, Live, Handshaking, Running
  <2> QED
    BY <1>6, <2>1, <2>2, LiveFinite, FS_RemoveElement DEF WgDone, WgMinus
<1>7. CASE UNCHANGED vars
  BY <1>7 DEF vars, LiveConns
<1> QED
  BY <1>1, <1>2, <1>3, <1>4, <1>5, <1>6, <1>7 DEF Next, Exit, InnerStep

LEMMA TypeStep ==
  ASSUME TypeOK, WgCounts, [Next]_vars
  PROVE  TypeOK'
<1>0. wg' \in Nat
  BY WgStep
<1> USE <1>0 DEF TypeOK, Goto, server, counts, PCs, Live, Before, Handshaking, Running
<1>1. CASE Cancel \/ CloseListener \/ AcceptFails \/ WaitReturns
  BY <1>1 DEF Cancel, CloseListener, AcceptFails, AfterAcceptError, WaitReturns
<1>2. ASSUME NEW c \in Conns, Dial(c) \/ Leave(c) \/ Accept(c) PROVE TypeOK'
  BY <1>2 DEF Dial, Leave, Accept, DeadlineArmed
<1>3. ASSUME NEW c \in Conns, Handshake(c) PROVE TypeOK'
  BY <1>3 DEF Handshake, ReadHello, HandshakeBroken, HandshakeFails, WriteAck,
              DeadlineCleared, CancelContext
<1>4. ASSUME NEW c \in Conns, StoreSession(c) \/ Exit(c) PROVE TypeOK'
  BY <1>4 DEF StoreSession, Exit, DeleteSession, WithoutSession, CloseConn, WgDone
<1>5. ASSUME NEW c \in Conns, Run(c) PROVE TypeOK'
  <2>1. CASE Poll(c) \/ ReadRequest(c) \/ ReadLast(c) \/ ReadFails(c)
    BY <1>5, <2>1 DEF Poll, ReadRequest, ReadLast, ReadFails, LeaveRun, CancelContext
  <2>2. CASE \E o \in {"result", "error", "panic"} : HandlerReturns(c, o)
    BY <2>2 DEF HandlerReturns, HandlerErrorGoto
  <2>3. CASE WriteReply(c) \/ WriteReplyFails(c)
    BY <2>3 DEF WriteReply, WriteReplyFails
  <2> QED
    BY <1>5, <2>1, <2>2, <2>3 DEF Run
<1>6. CASE UNCHANGED vars
  BY <1>6 DEF vars
<1> QED
  BY <1>1, <1>2, <1>3, <1>4, <1>5, <1>6 DEF Next

\* The parts of the invariant that speak of one connection at a time.
ConnInv == SessionsAreRunning /\ DeadlineOnlyInHandshake /\ NoContextLeak /\ LateInv /\ ReplyInv

LEMMA ConnStep ==
  ASSUME TypeOK, ConnInv, [Next]_vars
  PROVE  ConnInv'
<1> USE DEF ConnInv, SessionsAreRunning, DeadlineOnlyInHandshake, NoContextLeak, LateInv, ReplyInv,
            TypeOK, Goto, server, counts, PCs, Live, Before, Handshaking, Running
<1>1. CASE Cancel \/ AcceptFails \/ WaitReturns
  BY <1>1 DEF Cancel, AcceptFails, WaitReturns
<1>2. CASE CloseListener
  BY <1>2 DEF CloseListener
<1>3. ASSUME NEW c \in Conns, Dial(c) \/ Leave(c) PROVE ConnInv'
  BY <1>3 DEF Dial, Leave
<1>4. ASSUME NEW c \in Conns, Accept(c) PROVE ConnInv'
  BY <1>4 DEF Accept, DeadlineArmed
<1>5. ASSUME NEW c \in Conns, Handshake(c) PROVE ConnInv'
  <2>1. CASE \E f \in HelloFrames : ReadHello(c, f)
    BY <2>1 DEF ReadHello, HandshakeFails, DeadlineCleared, CancelContext
  <2>2. CASE HandshakeBroken(c)
    BY <2>2 DEF HandshakeBroken, HandshakeFails, DeadlineCleared, CancelContext
  <2>3. CASE WriteAck(c)
    BY <2>3 DEF WriteAck, DeadlineCleared
  <2> QED
    BY <1>5, <2>1, <2>2, <2>3 DEF Handshake
<1>6. ASSUME NEW c \in Conns, StoreSession(c) PROVE ConnInv'
  BY <1>6 DEF StoreSession
<1>7. ASSUME NEW c \in Conns, Exit(c) PROVE ConnInv'
  BY <1>7 DEF Exit, DeleteSession, WithoutSession, CloseConn, WgDone
<1>8. ASSUME NEW c \in Conns, Run(c) PROVE ConnInv'
  <2>1. CASE Poll(c)
    BY <2>1 DEF Poll, LeaveRun, CancelContext, ContextDone
  <2>2. CASE ReadRequest(c)
    BY <2>2 DEF ReadRequest
  <2>3. CASE ReadLast(c) \/ ReadFails(c)
    BY <2>3 DEF ReadLast, ReadFails, LeaveRun, CancelContext
  <2>4. CASE \E o \in {"result", "error", "panic"} : HandlerReturns(c, o)
    BY <2>4 DEF HandlerReturns, HandlerErrorGoto
  <2>5. CASE WriteReply(c) \/ WriteReplyFails(c)
    BY <2>5 DEF WriteReply, WriteReplyFails
  <2> QED
    BY <1>8, <2>1, <2>2, <2>3, <2>4, <2>5 DEF Run
<1>9. CASE UNCHANGED vars
  BY <1>9 DEF vars
<1> QED
  BY <1>1, <1>2, <1>3, <1>4, <1>5, <1>6, <1>7, <1>8, <1>9 DEF Next

LEMMA MainStep ==
  ASSUME TypeOK, WgCounts, MainInv, [Next]_vars
  PROVE  MainInv'
<1> USE DEF MainInv
<1>1. CASE Cancel \/ AcceptFails
  BY <1>1 DEF Cancel, AcceptFails, AfterAcceptError, LiveConns
<1>2. CASE WaitReturns
  BY <1>2, LiveFinite, FS_EmptySet DEF WaitReturns, Drained, WgCounts, LiveConns
<1>3. CASE CloseListener
  BY <1>3 DEF CloseListener, LiveConns, TypeOK, Live, Handshaking, Running
<1>4. ASSUME NEW c \in Conns, Dial(c) \/ Leave(c) PROVE MainInv'
  BY <1>4 DEF Dial, Leave, Goto, server, LiveConns, TypeOK, Live, Handshaking, Running
<1>5. ASSUME NEW c \in Conns, Accept(c) PROVE MainInv'
  BY <1>5 DEF Accept
<1>6. ASSUME NEW c \in Conns, InnerStep(c) PROVE MainInv'
  <2>1. UNCHANGED <<ctx, main>>
    BY <1>6 DEF InnerStep, Handshake, ReadHello, HandshakeBroken, HandshakeFails, WriteAck,
                StoreSession, Run, Poll, ReadRequest, ReadLast, ReadFails, HandlerReturns,
                WriteReply, WriteReplyFails, DeleteSession, CloseConn, server
  <2> QED
    BY <1>6, <2>1, InnerStepLive
<1>7. ASSUME NEW c \in Conns, WgDone(c) PROVE MainInv'
  BY <1>7 DEF WgDone, Goto, LiveConns, TypeOK, Live, Handshaking, Running
<1>8. CASE UNCHANGED vars
  BY <1>8 DEF vars, LiveConns
<1> QED
  BY <1>1, <1>2, <1>3, <1>4, <1>5, <1>6, <1>7, <1>8 DEF Next, Exit, InnerStep

LEMMA InitInv == Init => IInv
<1> SUFFICES ASSUME Init PROVE IInv
  OBVIOUS
<1>1. LiveConns = {}
  BY DEF Init, LiveConns, Live, Handshaking, Running
<1>2. WgCounts
  BY <1>1, FS_EmptySet DEF Init, WgCounts
<1>3. TypeOK
  BY DEF Init, TypeOK, PCs, Before
<1> QED
  BY <1>1, <1>2, <1>3 DEF Init, IInv, MainInv, SessionsAreRunning, DeadlineOnlyInHandshake,
     NoContextLeak, LateInv, ReplyInv, Handshaking, Running

LEMMA StepInv == IInv /\ [Next]_vars => IInv'
BY WgStep, TypeStep, ConnStep, MainStep DEF IInv, ConnInv

\* The inductive invariant of the server: every reachable state satisfies it.
THEOREM Invariance == Spec => []IInv
BY InitInv, StepInv, PTL DEF Spec

\* Server.tla's types, in particular a wait group that is never negative.
THEOREM TypeCorrect == Spec => []TypeOK
<1>1. IInv => TypeOK
  BY DEF IInv
<1> QED
  BY <1>1, Invariance, PTL

\* ListenAndServe returns nil only when every goroutine it started has ended,
\* no session is registered and no session context is live.
THEOREM DrainedReturn == Spec => []DrainedBeforeNil
<1>1. IInv => DrainedBeforeNil
  <2> SUFFICES ASSUME IInv, main = "nil" PROVE sessions = {} /\ \A c \in Conns : pc[c] \notin Live /\ sctx[c] # "live"
    BY DEF DrainedBeforeNil
  <2>1. \A c \in Conns : pc[c] \notin Live
    BY DEF IInv, MainInv, LiveConns
  <2> QED
    BY <2>1 DEF IInv, SessionsAreRunning, NoContextLeak, Live
<1> QED
  BY <1>1, Invariance, PTL

\* handleConn's Store and Delete bracket Run on every path.
THEOREM SessionsMap == Spec => []SessionsAreRunning
<1>1. IInv => SessionsAreRunning
  BY DEF IInv
<1> QED
  BY <1>1, Invariance, PTL

\* The handshake's deadline is cleared before the session starts.
THEOREM HandshakeDeadline == Spec => []DeadlineOnlyInHandshake
<1>1. IInv => DeadlineOnlyInHandshake
  BY DEF IInv
<1> QED
  BY <1>1, Invariance, PTL

\* newSession and Run release the context they derive.
THEOREM ContextsReleased == Spec => []NoContextLeak
<1>1. IInv => NoContextLeak
  BY DEF IInv
<1> QED
  BY <1>1, Invariance, PTL

\* Together: handleConn's deferred calls, newSession and Run release what a
\* connection acquires.
THEOREM ResourcesReleased == Spec => []NothingLeaks
<1>1. IInv => NothingLeaks
  BY DEF IInv, NothingLeaks
<1> QED
  BY <1>1, Invariance, PTL

\* A session begins at most one test after cancellation.
THEOREM OneLateRequest == Spec => []AtMostOneLateRequest
<1>1. IInv => AtMostOneLateRequest
  BY DEF IInv, LateInv, AtMostOneLateRequest
<1> QED
  BY <1>1, Invariance, PTL

\* A client that is there gets one answer per request.
THEOREM RepliesMatch == Spec => []OneReplyPerRequest
<1>1. IInv => OneReplyPerRequest
  BY DEF IInv, ReplyInv, OneReplyPerRequest, TypeOK
<1> QED
  BY <1>1, Invariance, PTL

\* No test, failing or panicking, takes a session out of Run's loop.
THEOREM TestsSpareSessions == Spec => SessionSurvivesTests
<1> DEFINE Kept == \A c \in Conns : pc[c] \in {"handle", "reply"} => pc'[c] \in {"handle", "reply", "poll"}
<1>1. TypeOK /\ [Next]_vars => [Kept]_vars
  <2> SUFFICES ASSUME TypeOK, Next PROVE Kept
    BY DEF vars
  <2> USE DEF Goto, TypeOK
  <2>1. CASE Cancel \/ CloseListener \/ AcceptFails \/ WaitReturns
    BY <2>1 DEF Cancel, CloseListener, AcceptFails, WaitReturns
  <2>2. ASSUME NEW c \in Conns, Dial(c) \/ Leave(c) \/ Accept(c) \/ Handshake(c) \/ StoreSession(c) \/ Exit(c)
        PROVE  Kept
    BY <2>2 DEF Dial, Leave, Accept, Handshake, ReadHello, HandshakeBroken, HandshakeFails, WriteAck,
                StoreSession, Exit, DeleteSession, CloseConn, WgDone, Handshaking
  <2>3. ASSUME NEW c \in Conns, Run(c) PROVE Kept
    BY <2>3 DEF Run, Poll, ReadRequest, ReadLast, ReadFails, LeaveRun, HandlerReturns,
                HandlerErrorGoto, WriteReply, WriteReplyFails
  <2> QED
    BY <2>1, <2>2, <2>3 DEF Next
<1> QED
  BY <1>1, TypeCorrect, PTL DEF Spec, SessionSurvivesTests

(***************************************************************************)
(* Refinement.                                                             *)
(***************************************************************************)
Lifes == [c \in Conns |-> LifeOf(c)]

\* One goroutine moves: at most its own life changes.
LEMMA OneLife ==
  ASSUME TypeOK, NEW c \in Conns, NEW to \in PCs, pc' = [pc EXCEPT ![c] = to]
  PROVE  Lifes' = [Lifes EXCEPT ![c] = LifeOf(c)']
BY DEF Lifes, LifeOf, TypeOK

LEMMA SameStage == UNCHANGED <<ctx, main>> => StageOf' = StageOf
BY DEF StageOf

LEMMA RefinesInit == Init => Promise!Init
BY DEF Init, Promise!Init, StageOf, LifeOf, Before

LEMMA RefinesStep ==
  ASSUME IInv, [Next]_vars
  PROVE  [Promise!Next]_(Promise!vars)
<1> USE DEF Before, Handshaking, Running
<1>t. TypeOK /\ MainInv
  BY DEF IInv
<1>1. CASE Cancel \/ AcceptFails
  <2>1. Lifes' = Lifes
    BY <1>1 DEF Cancel, AcceptFails, Lifes, LifeOf
  <2>2. StageOf' = StageOf \/ Promise!Cancel \/ Promise!Fail
    BY <1>1, <2>1, <1>t DEF Cancel, AcceptFails, AfterAcceptError, StageOf, TypeOK,
       Promise!Cancel, Promise!Fail, Lifes, MainInv
  <2> QED
    BY <2>1, <2>2 DEF Promise!Next, Promise!vars, Lifes
<1>2. CASE WaitReturns
  <2>1. Lifes' = Lifes
    BY <1>2 DEF WaitReturns, Lifes, LifeOf
  <2>2. \A c \in Conns : pc[c] \notin Live
    <3>1. Cardinality(LiveConns) = 0
      BY <1>2 DEF WaitReturns, Drained, IInv, WgCounts
    <3> QED
      BY <3>1, LiveFinite, FS_EmptySet DEF LiveConns
  <2>3. \A c \in Conns : Lifes[c] \in {"outside", "ended"}
    BY <2>2, <1>t DEF Lifes, LifeOf, Live, TypeOK, PCs
  <2>4. StageOf = "cancelled" /\ StageOf' = "returned"
    BY <1>2, <1>t DEF WaitReturns, StageOf, MainInv
  <2> QED
    BY <2>1, <2>3, <2>4 DEF Promise!Next, Promise!Return, Lifes
<1>3. CASE CloseListener
  <2>1. Lifes' = Lifes
    BY <1>3, <1>t DEF CloseListener, Lifes, LifeOf, TypeOK
  <2> QED
    BY <1>3, <2>1, SameStage DEF CloseListener, Promise!vars, Lifes
<1>4. ASSUME NEW c \in Conns, Dial(c) \/ Leave(c) PROVE [Promise!Next]_(Promise!vars)
  <2>1. Lifes' = Lifes
    BY <1>4, <1>t DEF Dial, Leave, Goto, Lifes, LifeOf, TypeOK
  <2> QED
    BY <1>4, <2>1, SameStage DEF Dial, Leave, server, Promise!vars, Lifes
<1>5. ASSUME NEW c \in Conns, Accept(c) PROVE [Promise!Next]_(Promise!vars)
  <2>1. Lifes' = [Lifes EXCEPT ![c] = "admitted"] /\ Lifes[c] = "outside"
    BY <1>5, <1>t, OneLife DEF Accept, Goto, Lifes, LifeOf, TypeOK, PCs, Live
  <2>2. StageOf \in {"serving", "cancelled"} /\ StageOf' = StageOf
    BY <1>5, SameStage DEF Accept, StageOf
  <2> QED
    BY <2>1, <2>2 DEF Promise!Next, Promise!Admit, Lifes
<1>6. ASSUME NEW c \in Conns, Handshake(c) \/ StoreSession(c) \/ Run(c) \/ Exit(c)
      PROVE  [Promise!Next]_(Promise!vars)
  <2>1. StageOf' = StageOf
    BY <1>6, SameStage DEF Handshake, ReadHello, HandshakeBroken, HandshakeFails, WriteAck,
       StoreSession, Run, Poll, ReadRequest, ReadLast, ReadFails, HandlerReturns,
       WriteReply, WriteReplyFails, Exit, DeleteSession, CloseConn, WgDone, server
  <2>2. PICK to \in PCs : /\ pc' = [pc EXCEPT ![c] = to]
                          /\ \/ pc[c] \in Handshaking /\ to \in Handshaking \cup {"store", "close"}
                             \/ pc[c] = "store" /\ to = "poll"
                             \/ pc[c] \in Running /\ to \in Running \cup {"delete"}
                             \/ pc[c] = "delete" /\ to = "close"
                             \/ pc[c] = "close" /\ to = "done"
                             \/ pc[c] = "done" /\ to = "exited"
    <3> USE DEF Goto, PCs, Live
    <3>1. CASE Handshake(c)
      BY <3>1 DEF Handshake, ReadHello, HandshakeBroken, HandshakeFails, WriteAck
    <3>2. CASE StoreSession(c)
      BY <3>2 DEF StoreSession
    <3>3. CASE Poll(c) \/ ReadRequest(c) \/ ReadLast(c) \/ ReadFails(c)
      BY <3>3 DEF Poll, ReadRequest, ReadLast, ReadFails, LeaveRun
    <3>4. CASE \E o \in {"result", "error", "panic"} : HandlerReturns(c, o)
      BY <3>4 DEF HandlerReturns, HandlerErrorGoto
    <3>5. CASE WriteReply(c) \/ WriteReplyFails(c)
      BY <3>5 DEF WriteReply, WriteReplyFails
    <3>6. CASE Exit(c)
      BY <3>6 DEF Exit, DeleteSession, CloseConn, WgDone
    <3> QED
      BY <1>6, <3>1, <3>2, <3>3, <3>4, <3>5, <3>6 DEF Run
  <2>3. /\ Lifes' = [Lifes EXCEPT ![c] = LifeOf(c)']
        /\ Lifes[c] = LifeOf(c) /\ Lifes \in [Conns -> {"outside", "admitted", "session", "closing", "ended"}]
    BY <1>t, <2>2, OneLife DEF Lifes, LifeOf
  <2>4. \/ LifeOf(c)' = LifeOf(c)
        \/ LifeOf(c) = "admitted" /\ LifeOf(c)' = "session"
        \/ LifeOf(c) \in {"admitted", "session"} /\ LifeOf(c)' = "closing"
        \/ LifeOf(c) = "closing" /\ LifeOf(c)' = "ended"
    BY <1>t, <2>2 DEF LifeOf, TypeOK, PCs, Live
  <2>5. Lifes' = Lifes \/ Promise!Establish(c) \/ Promise!End(c) \/ Promise!Release(c)
    BY <2>1, <2>3, <2>4 DEF Promise!Establish, Promise!End, Promise!Release, Lifes
  <2> QED
    BY <2>1, <2>5 DEF Promise!Next, Promise!vars, Lifes
<1>7. CASE UNCHANGED vars
  BY <1>7 DEF vars, Promise!vars, StageOf, LifeOf
<1> QED
  BY <1>1, <1>2, <1>3, <1>4, <1>5, <1>6, <1>7 DEF Next

\* The goroutines, the listener and the wait group implement the abstract
\* server of ServerPromise.
THEOREM Refinement == Spec => ImplementsPromise
BY Invariance, RefinesInit, RefinesStep, PTL DEF Spec, ImplementsPromise, Promise!Spec
====
