---- MODULE Server ----
(***************************************************************************)
(* internal/server: the accept loop, one goroutine per connection, the     *)
(* handshake, the session loop, the sessions map, the wait group and the   *)
(* cancellation of the server's context.                                   *)
(*                                                                         *)
(* A control connection is FIFO and the server never looks at two frames   *)
(* together, so the frame a ReadMsg returns is chosen when it is read; a   *)
(* connection whose peer has left may still deliver what was buffered.  A  *)
(* session's random 64-bit ID is taken to be unique, so the connection     *)
(* stands for it in the sessions map.  What a test handler does with the   *)
(* connection is the subject of Control and of MTUDiscovery:               *)
(* here it takes some time and returns a result, an error or a panic.      *)
(***************************************************************************)
EXTENDS Naturals, FiniteSets

CONSTANTS Conns,        \* the connections clients may open
          MaxFrames     \* bound: frames a session reads from one connection

ASSUME ConnsAssumption     == IsFiniteSet(Conns)
ASSUME MaxFramesAssumption == MaxFrames \in Nat

VARIABLES
  method,     \* which serving method was called: "retry" after an accept error
              \* (ListenAndServe, ListenAndServeTLS) or "return" it (...WithListener)
  ctx,        \* the server's context is cancelled
  ln,         \* the listener: "open" or "closed"
  main,       \* the serving call: "accept", "wait" (wg.Wait), "nil" or "err" (returned)
  wg,         \* the counter of Server.wg
  peer,       \* the client of each connection: "away", "up" or "gone"
  pc,         \* where the goroutine of each connection is
  deadline,   \* the handshake's deadline is armed on the connection
  sctx,       \* the session's own context: "none", "live" or "cancelled"
  sessions,   \* Server.sessions
  frames,     \* frames read by the session loop
  begun,      \* test requests handed to a handler
  answered,   \* test_result and error frames written
  late        \* requests begun after the server's context was cancelled

vars == <<method, ctx, ln, main, wg, peer, pc, deadline, sctx, sessions, frames, begun, answered, late>>

HelloFrames == {"hello", "goodbye", "malformed"}
RunFrames   == {"test_req", "goodbye", "other"}

Before == {"none", "backlog", "refused"}
Handshaking == {"hello", "ack"}
Running == {"poll", "read", "handle", "reply"}
Live == Handshaking \cup {"store"} \cup Running \cup {"delete", "close", "done"}
PCs == Before \cup Live \cup {"exited"}

TypeOK ==
  /\ method \in {"retry", "return"}
  /\ ctx \in BOOLEAN
  /\ ln \in {"open", "closed"}
  /\ main \in {"accept", "wait", "nil", "err"}
  /\ wg \in Nat
  /\ peer \in [Conns -> {"away", "up", "gone"}]
  /\ pc \in [Conns -> PCs]
  /\ deadline \in [Conns -> BOOLEAN]
  /\ sctx \in [Conns -> {"none", "live", "cancelled"}]
  /\ sessions \in SUBSET Conns
  /\ frames \in [Conns -> Nat]
  /\ begun \in [Conns -> Nat]
  /\ answered \in [Conns -> Nat]
  /\ late \in [Conns -> Nat]

Init ==
  /\ method \in {"retry", "return"}
  /\ ctx = FALSE /\ ln = "open" /\ main = "accept" /\ wg = 0
  /\ peer = [c \in Conns |-> "away"]
  /\ pc = [c \in Conns |-> "none"]
  /\ deadline = [c \in Conns |-> FALSE]
  /\ sctx = [c \in Conns |-> "none"]
  /\ sessions = {}
  /\ frames = [c \in Conns |-> 0]
  /\ begun = [c \in Conns |-> 0]
  /\ answered = [c \in Conns |-> 0]
  /\ late = [c \in Conns |-> 0]

counts == <<frames, begun, answered, late>>
server == <<method, ctx, ln, main, wg>>

Goto(c, to) == pc' = [pc EXCEPT ![c] = to]

(***************************************************************************)
(* The environment: clients, and the signal that cancels the context.      *)
(***************************************************************************)
Dial(c) ==                      \* the kernel completes the connection
  /\ peer[c] = "away" /\ pc[c] = "none" /\ ln = "open"
  /\ peer' = [peer EXCEPT ![c] = "up"]
  /\ Goto(c, "backlog")
  /\ UNCHANGED <<server, deadline, sctx, sessions, counts>>

Leave(c) ==
  /\ peer[c] = "up"
  /\ peer' = [peer EXCEPT ![c] = "gone"]
  /\ UNCHANGED <<server, pc, deadline, sctx, sessions, counts>>

Cancel ==
  /\ ~ctx /\ ctx' = TRUE
  /\ UNCHANGED <<method, ln, main, wg, peer, pc, deadline, sctx, sessions, counts>>

(***************************************************************************)
(* The accept loop and the goroutine that closes the listener.  Closing    *)
(* resets the connections nobody accepted.                                 *)
(***************************************************************************)
CloseListener ==
  /\ ctx /\ ln = "open"
  /\ ln' = "closed"
  /\ pc' = [c \in Conns |-> IF pc[c] = "backlog" THEN "refused" ELSE pc[c]]
  /\ UNCHANGED <<method, ctx, main, wg, peer, deadline, sctx, sessions, counts>>

WgAdd(n) == n + 1

NoDeadline(c) == deadline        \* mutant: handshake without a deadline
DeadlineArmed(c) == [deadline EXCEPT ![c] = TRUE]

Accept(c) ==
  /\ main = "accept" /\ ln = "open" /\ pc[c] = "backlog"
  /\ wg' = WgAdd(wg)
  /\ Goto(c, "hello")
  /\ deadline' = DeadlineArmed(c)
  /\ sctx' = [sctx EXCEPT ![c] = "live"]
  /\ UNCHANGED <<method, ctx, ln, main, peer, sessions, counts>>

NilAfterAcceptError == IF ctx THEN "nil" ELSE "accept"  \* mutant: no wg.Wait
AfterAcceptError == IF ctx THEN "wait" ELSE IF method = "retry" THEN "accept" ELSE "err"

AcceptFails ==                   \* the listener is closed, or a transient error
  /\ main = "accept"
  /\ main' = AfterAcceptError
  /\ UNCHANGED <<method, ctx, ln, wg, peer, pc, deadline, sctx, sessions, counts>>

ReturnAtOnce == TRUE             \* mutant: the loop returns without wg.Wait
Drained == wg = 0

WaitReturns ==
  /\ main = "wait" /\ Drained
  /\ main' = "nil"
  /\ UNCHANGED <<method, ctx, ln, wg, peer, pc, deadline, sctx, sessions, counts>>

(***************************************************************************)
(* newSession and handshake: a deadline covers the hello and the ack, and  *)
(* is cleared on every way out; an error cancels the session's context.    *)
(***************************************************************************)
DeadlineCleared(c) == [deadline EXCEPT ![c] = FALSE]

KeepContext(c) == sctx           \* mutant: the context of a failed or ended session leaks
CancelContext(c) == [sctx EXCEPT ![c] = "cancelled"]

HandshakeFails(c) ==
  /\ deadline' = DeadlineCleared(c)
  /\ sctx' = CancelContext(c)
  /\ Goto(c, "close")
  /\ UNCHANGED <<server, peer, sessions, counts>>

ReadHello(c, f) ==
  /\ pc[c] = "hello" /\ peer[c] # "away"
  /\ \/ /\ f = "hello"
        /\ Goto(c, "ack")
        /\ UNCHANGED <<server, peer, deadline, sctx, sessions, counts>>
     \/ /\ f # "hello"           \* another type, another version, no JSON
        /\ HandshakeFails(c)

HandshakeBroken(c) ==            \* end of file, reset, or the ten seconds are over
  /\ pc[c] \in Handshaking
  /\ peer[c] = "gone" \/ deadline[c]
  /\ HandshakeFails(c)

WriteAck(c) ==
  /\ pc[c] = "ack"
  /\ deadline' = DeadlineCleared(c)
  /\ Goto(c, "store")
  /\ UNCHANGED <<server, peer, sctx, sessions, counts>>

(***************************************************************************)
(* handleConn and Run.                                                     *)
(***************************************************************************)
StoreSession(c) ==
  /\ pc[c] = "store"
  /\ sessions' = sessions \cup {c}
  /\ Goto(c, "poll")
  /\ UNCHANGED <<server, peer, deadline, sctx, counts>>

LeaveRun(c) ==                   \* Run returns: the deferred cancel
  /\ sctx' = CancelContext(c)
  /\ Goto(c, "delete")

NeverDone(c) == FALSE            \* mutant: Run does not poll its context
ContextDone(c) == ctx \/ sctx[c] = "cancelled"

Poll(c) ==
  /\ pc[c] = "poll"
  /\ \/ /\ ContextDone(c)
        /\ LeaveRun(c)
        /\ UNCHANGED <<server, peer, deadline, sessions, counts>>
     \/ /\ ~ContextDone(c)
        /\ Goto(c, "read")
        /\ UNCHANGED <<server, peer, deadline, sctx, sessions, counts>>

ReadRequest(c) ==
  /\ pc[c] = "read" /\ frames[c] < MaxFrames
  /\ Goto(c, "handle")
  /\ frames' = [frames EXCEPT ![c] = @ + 1]
  /\ begun' = [begun EXCEPT ![c] = @ + 1]
  /\ late' = [late EXCEPT ![c] = IF ctx THEN @ + 1 ELSE @]
  /\ UNCHANGED <<server, peer, deadline, sctx, sessions, answered>>

ReadLast(c) ==                   \* goodbye, or a frame Run does not expect
  /\ pc[c] = "read" /\ frames[c] < MaxFrames
  /\ frames' = [frames EXCEPT ![c] = @ + 1]
  /\ LeaveRun(c)
  /\ UNCHANGED <<server, peer, deadline, sessions, begun, answered, late>>

ReadRetries(c) ==                \* mutant: Run polls again after a read error
  pc[c] = "read" /\ peer[c] = "gone" /\ Goto(c, "poll")
  /\ UNCHANGED <<server, peer, deadline, sctx, sessions, counts>>
ReadFails(c) ==                  \* ReadMsg has no deadline of its own here
  /\ pc[c] = "read"
  /\ peer[c] = "gone" \/ deadline[c]
  /\ LeaveRun(c)
  /\ UNCHANGED <<server, peer, deadline, sessions, counts>>

HandlerSilent == "poll"          \* mutant: a failing test is not reported
HandlerErrorGoto == "reply"

HandlerReturns(c, outcome) ==    \* a panic is recovered into an error
  /\ pc[c] = "handle"
  /\ Goto(c, IF outcome = "result" THEN "reply" ELSE HandlerErrorGoto)
  /\ UNCHANGED <<server, peer, deadline, sctx, sessions, counts>>

WriteReply(c) ==                 \* test_result, or error with code 500
  /\ pc[c] = "reply"
  /\ answered' = [answered EXCEPT ![c] = @ + 1]
  /\ Goto(c, "poll")
  /\ UNCHANGED <<server, peer, deadline, sctx, sessions, frames, begun, late>>

WriteReplyFails(c) ==            \* the error of the write is ignored
  /\ pc[c] = "reply" /\ peer[c] = "gone"
  /\ Goto(c, "poll")
  /\ UNCHANGED <<server, peer, deadline, sctx, sessions, counts>>

WithoutSession(c) == sessions \ {c}

DeleteSession(c) ==
  /\ pc[c] = "delete"
  /\ sessions' = WithoutSession(c)
  /\ Goto(c, "close")
  /\ UNCHANGED <<server, peer, deadline, sctx, counts>>

CloseConn(c) ==
  /\ pc[c] = "close"
  /\ Goto(c, "done")
  /\ UNCHANGED <<server, peer, deadline, sctx, sessions, counts>>

NoWgDone(n) == n                 \* mutant: no deferred wg.Done
WgMinus(n) == n - 1

WgDone(c) ==
  /\ pc[c] = "done"
  /\ wg' = WgMinus(wg)
  /\ Goto(c, "exited")
  /\ UNCHANGED <<method, ctx, ln, main, peer, deadline, sctx, sessions, counts>>

Handshake(c) ==
  \/ \E f \in HelloFrames : ReadHello(c, f)
  \/ HandshakeBroken(c)
  \/ WriteAck(c)

Exit(c) == DeleteSession(c) \/ CloseConn(c) \/ WgDone(c)

Run(c) ==
  \/ Poll(c) \/ ReadRequest(c) \/ ReadLast(c) \/ ReadFails(c)
  \/ \E o \in {"result", "error", "panic"} : HandlerReturns(c, o)
  \/ WriteReply(c) \/ WriteReplyFails(c)

Next ==
  \/ Cancel \/ CloseListener \/ AcceptFails \/ WaitReturns
  \/ \E c \in Conns : \/ Dial(c) \/ Leave(c) \/ Accept(c)
                      \/ Handshake(c) \/ StoreSession(c) \/ Run(c) \/ Exit(c)

Spec == Init /\ [][Next]_vars

(***************************************************************************)
(* Fairness.  Goroutines that can run do run, and a deadline that is armed *)
(* fires.  Nothing obliges a client to send or to leave, anyone to cancel, *)
(* or a handler to return: that of the TCP test accepts its streams with   *)
(* no deadline and does not look at its client, so a property that needs   *)
(* the return of a handler has to say so.                                  *)
(***************************************************************************)
Scheduled ==
  /\ WF_vars(CloseListener)
  /\ WF_vars(ln = "closed" /\ AcceptFails)
  /\ WF_vars(WaitReturns)
  /\ \A c \in Conns :
       /\ WF_vars(Accept(c))
       /\ WF_vars(HandshakeBroken(c) \/ WriteAck(c))
       /\ WF_vars(StoreSession(c))
       /\ WF_vars(Poll(c) \/ ReadFails(c))
       /\ WF_vars(WriteReply(c))
       /\ WF_vars(Exit(c))

FairSpec == Spec /\ Scheduled

(***************************************************************************)
(* Properties.                                                             *)
(***************************************************************************)
\* The wait group counts the goroutines that have not finished, so that the
\* call returns nil only when no accepted connection is being handled, none
\* is left in the sessions map and every session's context is cancelled: the
\* order accept, wg.Add, go and the deferred wg.Done of ListenAndServe.
DrainedBeforeNil ==
  main = "nil" =>
    /\ sessions = {}
    /\ \A c \in Conns : pc[c] \notin Live /\ sctx[c] # "live"

\* The sessions map holds exactly the connections between handleConn's Store
\* and Delete, whichever way Run ended: no session that failed its handshake,
\* none whose goroutine is gone.
SessionsAreRunning ==
  sessions = {c \in Conns : pc[c] \in Running \cup {"delete"}}

\* The ten seconds of the handshake bound the handshake alone: no later read
\* can meet that deadline, so an established session is never cut by it.
DeadlineOnlyInHandshake ==
  \A c \in Conns : deadline[c] => pc[c] \in Handshaking

\* A context is released on every way out of newSession and Run: nobody but
\* a session that can still serve requests holds a live one.
NoContextLeak ==
  \A c \in Conns : sctx[c] = "live" => pc[c] \in Handshaking \cup {"store"} \cup Running

\* What a connection acquires (an entry of the map, a context, a deadline) goes
\* when the part of handleConn that needs it is over, on every way out of it.
NothingLeaks == SessionsAreRunning /\ NoContextLeak /\ DeadlineOnlyInHandshake

\* Cancellation does not interrupt the ReadMsg a session is blocked in, but it
\* is seen before the next one: a session begins at most one test after it.
AtMostOneLateRequest == \A c \in Conns : late[c] <= 1

\* Every request a session took is answered once, with a result or an error,
\* before it reads another, as long as its client is there to read it.
OneReplyPerRequest ==
  \A c \in Conns :
    (pc[c] \in {"poll", "read"} /\ peer[c] = "up") => answered[c] = begun[c]

\* An established session ends only for a reason of its client (a goodbye, a
\* frame out of place, a lost connection) or by cancellation: a test that
\* fails or panics does not end it (Run: "don't kill the session").
SessionSurvivesTests ==
  [][\A c \in Conns : pc[c] \in {"handle", "reply"} => pc'[c] \in {"handle", "reply", "poll"}]_vars

\* A handler of this connection does not run for ever: a premise, since the code
\* does not see to it (handleTCPServer; SessionReleased in Control).
HandlersReturn(c) == []<>(pc[c] # "handle")

\* A client that leaves is noticed: the goroutine of its connection ends, from
\* whatever point of the handshake or of the session it was at, provided that
\* a handler it was in returns, with a result, an error or a panic.
DeadPeerReleased ==
  \A c \in Conns :
    HandlersReturn(c) => ((peer[c] = "gone" /\ pc[c] \in Live) ~> (pc[c] = "exited"))

\* No accepted connection stays in its handshake, however silent the client.
HandshakeEnds ==
  \A c \in Conns : pc[c] \in Handshaking ~> pc[c] \notin Handshaking

\* A cancelled server returns, if no client stays for ever and no handler runs
\* for ever: closing the listener and cancelling the context free nobody else.
ShutdownCompletes ==
  (\A c \in Conns : []<>(peer[c] # "up") /\ HandlersReturn(c))
    => (ctx ~> (main \in {"nil", "err"}))

\* Run "processes test requests until the client disconnects or context is
\* cancelled" (session.go): cancellation ends every session whose handlers
\* return, whatever its client does.
RunEndsOnCancel ==
  \A c \in Conns :
    HandlersReturn(c) => ((ctx /\ pc[c] \in Running) ~> (pc[c] \notin Running))

(***************************************************************************)
(* The abstract server this one implements.                                *)
(***************************************************************************)
StageOf == IF main = "nil" THEN "returned"
           ELSE IF main = "err" THEN "failed"
           ELSE IF ctx THEN "cancelled" ELSE "serving"

LifeOf(c) == IF pc[c] \in Before THEN "outside"
             ELSE IF pc[c] \in Handshaking \cup {"store"} THEN "admitted"
             ELSE IF pc[c] \in Running \cup {"delete"} THEN "session"
             ELSE IF pc[c] \in {"close", "done"} THEN "closing"
             ELSE "ended"

Promise == INSTANCE ServerPromise
             WITH stage <- StageOf, life <- [c \in Conns |-> LifeOf(c)]

\* The goroutines, the wait group and the listener together keep the promise
\* of ServerPromise.
ImplementsPromise == Promise!Spec
====
