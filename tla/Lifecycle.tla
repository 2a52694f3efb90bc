----------------------------- MODULE Lifecycle -----------------------------
(***************************************************************************)
(* The life of the process: run() and main() of main.go, with the tracing  *)
(* of tracing.go that run() sets up and flushes.  Four parties interleave: *)
(* run() itself, the goroutine in srv.ListenAndServe, the connections that *)
(* net/http serves, and whoever sends signals.                             *)
(*                                                                         *)
(* net/http and the batch span processor are external.  Of them the model  *)
(* keeps what run() relies on: Shutdown closes the listener and the idle   *)
(* connections, waits for the others, and gives up at its deadline; a      *)
(* connection that has not sent a request counts as idle only when it is   *)
(* NewGrace old, and one whose client does not read its answer stays in    *)
(* use for as long as it does not, as run() sets no WriteTimeout.  The     *)
(* batch processor sends queued spans now and then, and ignores spans that *)
(* end after its Shutdown has begun.                                       *)
(*                                                                         *)
(* Durations are counted in units; Tick is one.  A step the code takes at  *)
(* once when a timer fires comes before the next Tick.                     *)
(***************************************************************************)
EXTENDS Naturals, FiniteSets

CONSTANTS
  Conn,             \* connections clients may hold at once
  Timeout,          \* config.Timeout, of one exchange with a provider
  MaxExchanges,     \* providers a handler asks one after the other
  NewGrace,         \* net/http: when an unused connection counts as idle
  ShutdownTimeout,  \* of srv.Shutdown
  TracingTimeout,   \* of the deferred tracing shutdown
  MaxSignals        \* bound: the signals sent

ASSUME LifecycleAssumption ==
  /\ Timeout \in Nat \ {0} /\ MaxExchanges \in Nat \ {0}
  /\ NewGrace \in Nat /\ ShutdownTimeout \in Nat /\ TracingTimeout \in Nat
  /\ MaxSignals \in Nat

VARIABLES
  phase,      \* where run() is
  result,     \* what it returns: "nil", or where the error comes from
  timer,      \* time left of the deadline run() waits for
  server,     \* what ListenAndServe has come to
  conn,       \* connection -> what it is doing, and until when
  tracing,    \* did setupTracing install an exporter?
  spans,      \* the fates of ended spans that did not (yet) go out
  signals,    \* signals sent so far
  signalled,  \* is ctx done?
  killed      \* did a signal end the process?

vars == <<phase, result, timer, server, conn, tracing, spans, signals, signalled, killed>>

-----------------------------------------------------------------------------

Closed      == [is |-> "closed"]
Idle        == [is |-> "idle"]
Stalled     == [is |-> "stalled"]         \* the client does not read its answer
New(t)      == [is |-> "new", left |-> t]
Busy(n, t)  == [is |-> "busy", exchange |-> n, left |-> t]

Connection ==
  {Closed, Idle, Stalled} \cup [is : {"new"}, left : 0 .. NewGrace]
    \cup [is : {"busy"}, exchange : 1 .. MaxExchanges, left : 0 .. Timeout]

IsBusy(c) == conn[c].is = "busy"

AllClosed == \A c \in Conn : conn[c] = Closed

Registered == phase \in {"select", "shutdown"}     \* until stop() is called
Closing    == phase = "shutdown" \/ result \in {"nil", "shutdown"}

(* The environment of tracingEnabledFromEnv: OTEL_TRACES_EXPORTER=none,    *)
(* and the two endpoints.                                                  *)
Env == [none : BOOLEAN, traces : BOOLEAN, general : BOOLEAN]
TracingEnabled(env) == ~env.none /\ (env.traces \/ env.general)

(* setupTracing: exporter and resource may fail to be built.               *)
SetupTracing(env) == IF TracingEnabled(env) THEN {"on", "error"} ELSE {"off"}

Init ==
  /\ phase = "start" /\ result = "none" /\ timer = 0
  /\ server = "off"
  /\ conn = [c \in Conn |-> Closed]
  /\ tracing = FALSE /\ spans = {}
  /\ signals = 0 /\ signalled = FALSE /\ killed = FALSE

-----------------------------------------------------------------------------

(* Tracing, then newMux and the start of the goroutine.  An error ends     *)
(* run() before anything is deferred.                                      *)
SetUp(env) ==
  /\ phase = "start"
  /\ \E outcome \in SetupTracing(env) :
       \/ /\ outcome # "error"
          /\ phase' = "wired" /\ server' = "starting"
          /\ tracing' = (outcome = "on")
          /\ UNCHANGED result
       \/ /\ outcome = "error"
          /\ phase' = "exit" /\ result' = "tracing"
          /\ UNCHANGED <<server, tracing>>
  /\ UNCHANGED <<timer, conn, spans, signals, signalled, killed>>

(* signal.NotifyContext; the server may be up by then.                     *)
NotifyContext ==
  /\ phase = "wired"
  /\ phase' = "select"
  /\ UNCHANGED <<result, timer, server, conn, tracing, spans, signals, signalled, killed>>

Listen ==
  /\ server = "starting"
  /\ server' = "listening"
  /\ UNCHANGED <<phase, result, timer, conn, tracing, spans, signals, signalled, killed>>

(* ListenAndServe returns another error than ErrServerClosed: the address  *)
(* is taken, or Accept fails later on.  serveErr has room for it.          *)
ServeFails ==
  /\ server \in {"starting", "listening"} /\ phase # "exit"
  /\ server' = "failed"
  /\ UNCHANGED <<phase, result, timer, conn, tracing, spans, signals, signalled, killed>>

(* While no handler is registered, a signal ends the process.              *)
Signal ==
  /\ phase # "exit" /\ signals < MaxSignals
  /\ signals' = signals + 1
  /\ \/ /\ Registered
        /\ signalled' = TRUE
        /\ UNCHANGED <<phase, killed>>
     \/ /\ ~Registered
        /\ phase' = "exit" /\ killed' = TRUE
        /\ UNCHANGED signalled
  /\ UNCHANGED <<result, timer, server, conn, tracing, spans>>

SelectSignalListening ==                                        \* a mutant
  /\ phase = "select" /\ signalled
  /\ phase' = "shutdown" /\ timer' = ShutdownTimeout
  /\ conn' = [c \in Conn |-> IF conn[c] = Idle THEN Closed ELSE conn[c]]
  /\ UNCHANGED <<result, server, tracing, spans, signals, signalled, killed>>

(* select takes any branch that is ready.  Shutdown makes ListenAndServe   *)
(* return ErrServerClosed, or not begin at all.                            *)
SelectSignal ==
  /\ phase = "select" /\ signalled
  /\ phase' = "shutdown" /\ timer' = ShutdownTimeout
  /\ server' = IF server = "failed" THEN "failed" ELSE "closed"
  /\ conn' = [c \in Conn |-> IF conn[c] = Idle THEN Closed ELSE conn[c]]
  /\ UNCHANGED <<result, tracing, spans, signals, signalled, killed>>

(* run() returns: the deferred calls are cancel, stop and the flush.       *)
Return(r) ==
  /\ result' = r
  /\ phase' = "flush" /\ timer' = TracingTimeout

SelectFailureAndExit ==                                         \* a mutant
  /\ phase = "select" /\ server = "failed"
  /\ result' = "server" /\ phase' = "exit"
  /\ UNCHANGED <<timer, server, conn, tracing, spans, signals, signalled, killed>>

SelectFailureAfterSignal ==                                     \* a mutant
  /\ phase = "select" /\ server = "failed" /\ signalled
  /\ Return("server")
  /\ UNCHANGED <<server, conn, tracing, spans, signals, signalled, killed>>

SelectFailure ==
  /\ phase = "select" /\ server = "failed"
  /\ Return("server")
  /\ UNCHANGED <<server, conn, tracing, spans, signals, signalled, killed>>

(* Shutdown polls and closes every connection it finds idle.               *)
CloseUnused(c) ==
  /\ phase = "shutdown" /\ conn[c] = New(0)
  /\ conn' = [conn EXCEPT ![c] = Closed]
  /\ UNCHANGED <<phase, result, timer, server, tracing, spans, signals, signalled, killed>>

(* It returns when none is left.                                           *)
ShutdownDone ==
  /\ phase = "shutdown" /\ AllClosed
  /\ Return("nil")
  /\ UNCHANGED <<server, conn, tracing, spans, signals, signalled, killed>>

ShutdownExpiresUnnoticed ==                                     \* a mutant
  /\ phase = "shutdown" /\ timer = 0
  /\ Return("nil")
  /\ UNCHANGED <<server, conn, tracing, spans, signals, signalled, killed>>

(* Between two polls, the deadline may pass first though all are closed.   *)
ShutdownExpires ==
  /\ phase = "shutdown" /\ timer = 0
  /\ Return("shutdown")
  /\ UNCHANGED <<server, conn, tracing, spans, signals, signalled, killed>>

(* tracingShutdown returns, the queue sent or given up; main exits.        *)
Flush ==
  /\ phase = "flush"
  /\ phase' = "exit"
  /\ \/ ~tracing /\ UNCHANGED spans
     \/ tracing /\ spans' = spans \ {"queued"}
     \/ /\ tracing
        /\ spans' = (spans \ {"queued"}) \cup (IF "queued" \in spans THEN {"dropped"} ELSE {})
  /\ UNCHANGED <<result, timer, server, conn, tracing, signals, signalled, killed>>

(* The batch processor works on its own too.                               *)
Export ==
  /\ phase \notin {"flush", "exit"} /\ "queued" \in spans
  /\ \/ spans' = spans \ {"queued"}
     \/ spans' = (spans \ {"queued"}) \cup {"dropped"}
  /\ UNCHANGED <<phase, result, timer, server, conn, tracing, signals, signalled, killed>>

-----------------------------------------------------------------------------

Connect(c) ==
  /\ phase # "exit" /\ server = "listening" /\ conn[c] = Closed
  /\ conn' = [conn EXCEPT ![c] = New(NewGrace)]
  /\ UNCHANGED <<phase, result, timer, server, tracing, spans, signals, signalled, killed>>

(* A connection outlives its listener.                                     *)
Request(c) ==
  /\ phase # "exit" /\ conn[c].is \in {"new", "idle"}
  /\ conn' = [conn EXCEPT ![c] = Busy(1, Timeout)]
  /\ UNCHANGED <<phase, result, timer, server, tracing, spans, signals, signalled, killed>>

(* The handler turns to its next provider.                                 *)
NextExchange(c) ==
  /\ phase # "exit" /\ IsBusy(c) /\ conn[c].exchange < MaxExchanges
  /\ conn' = [conn EXCEPT ![c] = Busy(@.exchange + 1, Timeout)]
  /\ UNCHANGED <<phase, result, timer, server, tracing, spans, signals, signalled, killed>>

(* The handler returns and its span ends.  The connection is kept unless   *)
(* the server is closing or the client does not want it.                   *)
Finish(c) ==
  /\ \E next \in IF Closing THEN {Closed} ELSE {Closed, Idle} :
       conn' = [conn EXCEPT ![c] = next]
  /\ spans' = IF ~tracing THEN spans
              ELSE spans \cup {IF phase = "flush" THEN "late" ELSE "queued"}
  /\ UNCHANGED <<phase, result, timer, server, tracing, signals, signalled, killed>>

(* The answer is written, also into the buffers of a client that is gone.  *)
Answer(c) ==
  /\ phase # "exit" /\ IsBusy(c)
  /\ Finish(c)

(* The buffers are full and the client does not read: Write blocks, for no *)
(* timeout of the server ends it.                                          *)
Stall(c) ==
  /\ phase # "exit" /\ IsBusy(c)
  /\ conn' = [conn EXCEPT ![c] = Stalled]
  /\ UNCHANGED <<phase, result, timer, server, tracing, spans, signals, signalled, killed>>

(* It reads at last, or gives up its connection.                           *)
Read(c) ==
  /\ phase # "exit" /\ conn[c] = Stalled
  /\ Finish(c)

Disconnect(c) ==
  /\ phase # "exit" /\ conn[c].is \in {"new", "idle"}
  /\ conn' = [conn EXCEPT ![c] = Closed]
  /\ UNCHANGED <<phase, result, timer, server, tracing, spans, signals, signalled, killed>>

DueWithoutDeadline ==                                           \* a mutant
  \/ \E c \in Conn : IsBusy(c) /\ conn[c].left = 0
  \/ phase = "shutdown" /\ AllClosed
  \/ phase = "flush" /\ ~tracing

(* An exchange ends by its timeout, Shutdown and the flush by theirs, and  *)
(* Shutdown polls often (at least every 500ms).  Nothing makes a client    *)
(* read: time goes on while a connection is stalled.                       *)
Due ==
  \/ \E c \in Conn : IsBusy(c) /\ conn[c].left = 0
  \/ phase \in {"shutdown", "flush"} /\ timer = 0
  \/ phase = "shutdown" /\ (AllClosed \/ \E c \in Conn : conn[c] = New(0))
  \/ phase = "flush" /\ ~tracing

Running == phase \in {"shutdown", "flush"} \/ \E c \in Conn : conn[c].is \in {"new", "busy"}

Tick ==
  /\ phase # "exit" /\ Running /\ ~Due
  /\ timer' = IF phase \in {"shutdown", "flush"} THEN timer - 1 ELSE timer
  /\ conn' = [c \in Conn |->
                IF conn[c].is \in {"new", "busy"} /\ conn[c].left > 0
                THEN [conn[c] EXCEPT !.left = @ - 1] ELSE conn[c]]
  /\ UNCHANGED <<phase, result, server, tracing, spans, signals, signalled, killed>>

-----------------------------------------------------------------------------

Run ==
  \/ \E env \in Env : SetUp(env)
  \/ NotifyContext
  \/ SelectSignal \/ SelectFailure
  \/ ShutdownDone \/ ShutdownExpires
  \/ Flush

Handler(c) == NextExchange(c) \/ Answer(c) \/ Stall(c)

Next ==
  \/ Run
  \/ Listen \/ ServeFails \/ Signal \/ Export \/ Tick
  \/ \E c \in Conn : Connect(c) \/ Request(c) \/ Handler(c) \/ Read(c)
                           \/ Disconnect(c) \/ CloseUnused(c)

Spec == Init /\ [][Next]_vars

(* run() goes on when it can, time passes, and http.Client.Timeout ends    *)
(* every exchange.  Clients, listener and signals owe nothing: no client   *)
(* ever has to read its answer.                                            *)
FairSpec ==
  /\ Spec
  /\ WF_vars(Run) /\ WF_vars(Tick)
  /\ \A c \in Conn : WF_vars(Handler(c)) /\ WF_vars(CloseUnused(c))

-----------------------------------------------------------------------------

TypeOK ==
  /\ phase \in {"start", "wired", "select", "shutdown", "flush", "exit"}
  /\ result \in {"none", "nil", "tracing", "server", "shutdown"}
  /\ timer \in 0 .. ShutdownTimeout + TracingTimeout
  /\ server \in {"off", "starting", "listening", "failed", "closed"}
  /\ conn \in [Conn -> Connection]
  /\ spans \subseteq {"queued", "dropped", "late"}
  /\ signals \in 0 .. MaxSignals
  /\ tracing \in BOOLEAN /\ signalled \in BOOLEAN /\ killed \in BOOLEAN

(* run() returns nil (main.go:114) only when no request is left that the   *)
(* end of the process would cut off, and none can come any more: not in    *)
(* the flush, and not when a second signal kills the flushing process.     *)
CleanReturnCutsNothing ==
  result = "nil" => AllClosed

(* main.go:53: "in all cases its deferred tracing shutdown runs before     *)
(* returning so buffered spans are flushed".  No span is left in the queue *)
(* when run() returns, and only an error makes one end too late for it.    *)
SpansAccounted ==
  /\ phase = "exit" /\ ~killed => "queued" \notin spans
  /\ "late" \in spans => result \in {"server", "shutdown"}

(* The longest the providers may still keep a connection in use: what is   *)
(* left of its grace and of its exchange, and the exchanges after that.    *)
Outstanding(x) ==
  IF x.is = "busy" THEN (MaxExchanges - x.exchange) * Timeout + x.left
  ELSE IF x.is = "new" THEN MaxExchanges * Timeout + x.left
  ELSE 0

InTime ==
  /\ phase = "shutdown" /\ timer > 0
  /\ \A c \in Conn : Outstanding(conn[c]) < timer

(* What no timeout of the code prevents: the deadline of Shutdown passes   *)
(* while a client does not read its answer.                                *)
Stuck == phase = "shutdown" /\ timer = 0 /\ \E c \in Conn : conn[c] = Stalled

(* Shutdown (main.go:109) gives up on a request only if the work it found  *)
(* could already outlast its deadline, or if a client leaves its answer    *)
(* unread until then: with all exchanges in time at some moment of it,     *)
(* nothing else that comes up later makes run() return an error.           *)
GivesUpOnlyWhenLate == [][InTime => InTime' \/ result' = "nil" \/ Stuck']_vars

(* main_test.go:9: "a listener/startup failure surfaces as a non-nil error *)
(* from run()".                                                            *)
FailureSurfaces ==
  server = "failed" /\ phase = "exit" => result # "nil"

(* Once asked to stop, or without a listener, the process ends: no request *)
(* holds Shutdown up for good, and no collector the flush.                 *)
EndsOnceAsked == signalled \/ server = "failed" ~> phase = "exit"

=============================================================================
