-------------------------- MODULE LifecycleProofs --------------------------
(***************************************************************************)
(* What run() promises when it returns nil, and when Shutdown's deadline   *)
(* is long enough, for any number of connections and any durations.        *)
(***************************************************************************)
EXTENDS Lifecycle, TLAPS

(* What the types of the connections give the lemmas below.                *)
LEMMA ConnectionFacts ==
  /\ {Closed, Idle, Stalled} \subseteq Connection
  /\ \A t \in 0 .. NewGrace : New(t) \in Connection
  /\ \A n \in 1 .. MaxExchanges, t \in 0 .. Timeout : Busy(n, t) \in Connection
BY DEF Connection, Closed, Idle, Stalled, New, Busy

(* Every connection is one of five records.                                *)
LEMMA ConnectionCases ==
  ASSUME NEW x \in Connection
  PROVE  \/ x = Closed \/ x = Idle \/ x = Stalled
         \/ \E t \in 0 .. NewGrace : x = New(t)
         \/ \E n \in 1 .. MaxExchanges, t \in 0 .. Timeout : x = Busy(n, t)
BY DEF Connection, Closed, Idle, Stalled, New, Busy

(* A request is somewhere in its exchanges.                                *)
LEMMA BusyCase ==
  ASSUME NEW x \in Connection, x.is = "busy"
  PROVE  \E n \in 1 .. MaxExchanges, t \in 0 .. Timeout : x = Busy(n, t)
BY ConnectionCases DEF Closed, Idle, Stalled, New

(* A tick leaves a connection one of the five.                             *)
LEMMA TickedConnection ==
  ASSUME NEW x \in Connection, x.is \in {"new", "busy"}, x.left > 0
  PROVE  [x EXCEPT !.left = @ - 1] \in Connection
<1> USE LifecycleAssumption DEF LifecycleAssumption
<1>1. CASE \E t \in 0 .. NewGrace : x = New(t)
  BY <1>1 DEF Connection, New
<1>2. CASE \E n \in 1 .. MaxExchanges, t \in 0 .. Timeout : x = Busy(n, t)
  BY <1>2 DEF Connection, Busy
<1> QED  BY <1>1, <1>2, ConnectionCases DEF Closed, Idle, Stalled

-----------------------------------------------------------------------------

(* The types, conn and timer apart from the rest.                          *)
ConnType  == conn \in [Conn -> Connection]
TimerType == timer \in 0 .. ShutdownTimeout + TracingTimeout
RestType  ==
  /\ phase \in {"start", "wired", "select", "shutdown", "flush", "exit"}
  /\ result \in {"none", "nil", "tracing", "server", "shutdown"}
  /\ server \in {"off", "starting", "listening", "failed", "closed"}
  /\ spans \subseteq {"queued", "dropped", "late"}
  /\ tracing \in BOOLEAN /\ signalled \in BOOLEAN /\ killed \in BOOLEAN

(* TypeOK by the part of the process each variable belongs to.             *)
LEMMA TypeParts ==
  TypeOK <=> ConnType /\ TimerType /\ RestType /\ signals \in 0 .. MaxSignals
BY DEF TypeOK, ConnType, TimerType, RestType

(* The process starts with nothing opened, armed or ended.                 *)
LEMMA TypeInit == Init => TypeOK
<1> SUFFICES ASSUME Init PROVE TypeOK
  OBVIOUS
<1> USE LifecycleAssumption DEF LifecycleAssumption, Init
<1>1. ConnType
  BY ConnectionFacts DEF ConnType
<1>2. TimerType /\ signals \in 0 .. MaxSignals
  BY DEF TimerType
<1>3. RestType
  BY DEF RestType
<1> QED  BY <1>1, <1>2, <1>3, TypeParts

(* Connections are opened by the listener, moved by handlers and closed by *)
(* Shutdown.                                                               *)
LEMMA ConnStep == ASSUME TypeOK, Next PROVE ConnType'
<1> USE ConnectionFacts DEF TypeOK, ConnType
<1>1. CASE UNCHANGED conn
  BY <1>1
<1>2. CASE SelectSignal
  BY <1>2 DEF SelectSignal
<1>3. CASE Tick
  BY <1>3, TickedConnection DEF Tick
<1>4. ASSUME NEW c \in Conn, Connect(c) \/ Request(c) \/ Disconnect(c) \/ CloseUnused(c)
      PROVE  ConnType'
  BY <1>4, LifecycleAssumption
     DEF Connect, Request, Disconnect, CloseUnused, LifecycleAssumption
<1>5. ASSUME NEW c \in Conn, NextExchange(c) PROVE ConnType'
  <2>1. conn[c].exchange + 1 \in 1 .. MaxExchanges
    BY <1>5, BusyCase, LifecycleAssumption DEF NextExchange, IsBusy, Busy, LifecycleAssumption
  <2> QED  BY <1>5, <2>1, LifecycleAssumption DEF NextExchange, LifecycleAssumption
<1>6. ASSUME NEW c \in Conn, Answer(c) \/ Stall(c) \/ Read(c) PROVE ConnType'
  BY <1>6 DEF Answer, Stall, Read, Finish
<1> QED
  BY <1>1, <1>2, <1>3, <1>4, <1>5, <1>6
     DEF Next, Run, Handler, SetUp, NotifyContext, Listen, ServeFails, Signal,
         SelectFailure, ShutdownDone, ShutdownExpires, Flush, Export

(* Timers are armed with whole durations and run down by Tick.             *)
LEMMA TimerStep == ASSUME TypeOK, Next PROVE TimerType'
<1> USE LifecycleAssumption DEF TypeOK, TimerType, LifecycleAssumption
<1>1. CASE UNCHANGED timer
  BY <1>1
<1>2. CASE timer' \in {ShutdownTimeout, TracingTimeout}
  BY <1>2
<1>3. CASE Tick
  BY <1>3 DEF Tick, Due
<1> QED
  BY <1>1, <1>2, <1>3
     DEF Next, Run, Handler, SetUp, NotifyContext, Listen, ServeFails, Signal, Return,
         SelectSignal, SelectFailure, ShutdownDone, ShutdownExpires, Flush, Export,
         Connect, Request, Disconnect, CloseUnused, NextExchange, Answer, Stall, Read, Finish

(* The phase of run(), the listener, the result, the spans.                *)
LEMMA RestStep == ASSUME RestType, Next PROVE RestType'
<1> USE DEF RestType
<1>1. ASSUME NEW env \in Env, SetUp(env) PROVE RestType'
  BY <1>1 DEF SetUp
<1>2. CASE NotifyContext \/ Listen \/ ServeFails \/ SelectSignal
  BY <1>2 DEF NotifyContext, Listen, ServeFails, SelectSignal
<1>3. CASE SelectFailure \/ ShutdownDone \/ ShutdownExpires
  BY <1>3 DEF SelectFailure, ShutdownDone, ShutdownExpires, Return
<1>4. CASE Flush \/ Export
  BY <1>4 DEF Flush, Export
<1>5. CASE Signal
  BY <1>5 DEF Signal
<1>6. CASE Tick
  BY <1>6 DEF Tick
<1>7. ASSUME NEW c \in Conn,
             \/ Connect(c) \/ Request(c) \/ Disconnect(c)
             \/ CloseUnused(c) \/ NextExchange(c)
      PROVE  RestType'
  BY <1>7 DEF Connect, Request, Disconnect, CloseUnused, NextExchange
<1>8. ASSUME NEW c \in Conn, Answer(c) \/ Stall(c) \/ Read(c) PROVE RestType'
  BY <1>8 DEF Answer, Stall, Read, Finish
<1> QED
  BY <1>1, <1>2, <1>3, <1>4, <1>5, <1>6, <1>7, <1>8 DEF Next, Run, Handler

(* Signals arrive until the process has used them up.                      *)
LEMMA SignalsStep ==
  ASSUME signals \in 0 .. MaxSignals, Next
  PROVE  signals' \in 0 .. MaxSignals
<1>1. CASE UNCHANGED signals
  BY <1>1
<1>2. CASE Signal
  BY <1>2, LifecycleAssumption DEF Signal, LifecycleAssumption
<1> QED
  BY <1>1, <1>2
     DEF Next, Run, Handler, SetUp, NotifyContext, Listen, ServeFails, Tick,
         SelectSignal, SelectFailure, ShutdownDone, ShutdownExpires, Flush, Export,
         Connect, Request, Disconnect, CloseUnused, NextExchange, Answer, Stall, Read, Finish

(* So every step keeps the types.                                          *)
LEMMA TypeStep == TypeOK /\ [Next]_vars => TypeOK'
<1>1. ASSUME TypeOK, Next PROVE TypeOK'
  <2>1. ConnType' /\ TimerType' /\ RestType' /\ (signals \in 0 .. MaxSignals)'
    BY <1>1, TypeParts, ConnStep, TimerStep, RestStep, SignalsStep
  <2> QED  BY <2>1 DEF TypeOK, ConnType, TimerType, RestType
<1>2. ASSUME TypeOK, UNCHANGED vars PROVE TypeOK'
  BY <1>2 DEF TypeOK, vars
<1> QED  BY <1>1, <1>2

-----------------------------------------------------------------------------

(* Once Shutdown has begun nobody can connect, and once it is done no      *)
(* connection is left: CleanReturnCutsNothing alone is not inductive, as   *)
(* Connect asks nothing of result.                                         *)
ClosedInv ==
  /\ phase = "shutdown" => server \in {"failed", "closed"}
  /\ result = "nil" => /\ AllClosed
                       /\ phase \in {"flush", "exit"}
                       /\ server \in {"failed", "closed"}

(* ClosedInv through the listener's failure, Shutdown and the returns of   *)
(* run().                                                                  *)
LEMMA ClosedStep == ClosedInv /\ [Next]_vars => ClosedInv'
<1> SUFFICES ASSUME ClosedInv, [Next]_vars
             PROVE  ClosedInv'
  OBVIOUS
<1> USE DEF ClosedInv, AllClosed
<1>1. CASE Run
  BY <1>1 DEF Run, SetUp, NotifyContext, SelectSignal, SelectFailure, ShutdownDone,
              ShutdownExpires, Flush, Return
<1>2. CASE Listen \/ ServeFails \/ Signal \/ Export
  BY <1>2 DEF Listen, ServeFails, Signal, Registered, Export
<1>3. CASE Tick
  BY <1>3 DEF Tick, Closed
<1>4. ASSUME NEW c \in Conn, Connect(c) PROVE ClosedInv'
  BY <1>4 DEF Connect
<1>5. ASSUME NEW c \in Conn, Request(c) \/ Disconnect(c) \/ CloseUnused(c) PROVE ClosedInv'
  BY <1>5 DEF Request, Disconnect, CloseUnused, Closed
<1>6. ASSUME NEW c \in Conn, Handler(c) \/ Read(c) PROVE ClosedInv'
  BY <1>6 DEF Handler, NextExchange, Answer, Stall, Read, Finish, IsBusy, Stalled, Closed
<1>7. CASE UNCHANGED vars
  BY <1>7 DEF vars
<1> QED  BY <1>1, <1>2, <1>3, <1>4, <1>5, <1>6, <1>7 DEF Next

(* The state keeps its types: run() waits for no deadline longer than the  *)
(* two it sets, and no timer runs below zero.                              *)
THEOREM LifecycleTypes == Spec => []TypeOK
  BY TypeInit, TypeStep, PTL DEF Spec

(* When run() (main.go:114) returns nil no connection is left, whatever    *)
(* happens until the process is gone.                                      *)
THEOREM CleanReturn == Spec => []CleanReturnCutsNothing
<1>1. Init => ClosedInv
  BY DEF Init, ClosedInv
<1>2. ClosedInv => CleanReturnCutsNothing
  BY DEF ClosedInv, CleanReturnCutsNothing
<1> QED  BY <1>1, <1>2, ClosedStep, PTL DEF Spec

-----------------------------------------------------------------------------

(* Where spans may be.  SpansAccounted alone is not inductive: that no     *)
(* span is late after a clean return needs that run() returned before the  *)
(* flush began and, from ClosedInv, that no handler was left then; that    *)
(* the queue is empty where nothing is flushed, that it is never filled.   *)
SpansInv ==
  /\ spans # {} => tracing
  /\ tracing => phase # "start"
  /\ phase = "flush" => result \in {"nil", "server", "shutdown"}
  /\ "late" \in spans => phase \in {"flush", "exit"} /\ result \in {"server", "shutdown"}
  /\ phase = "exit" /\ ~killed => "queued" \notin spans

(* SpansInv through handlers that end spans, the exporter and the flush.   *)
LEMMA SpansStep == ClosedInv /\ SpansInv /\ [Next]_vars => SpansInv'
<1> SUFFICES ASSUME ClosedInv, SpansInv, [Next]_vars
             PROVE  SpansInv'
  OBVIOUS
<1> USE DEF SpansInv
<1>1. ASSUME NEW env \in Env, SetUp(env) PROVE SpansInv'
  BY <1>1 DEF SetUp
<1>2. CASE NotifyContext \/ SelectSignal
  BY <1>2 DEF NotifyContext, SelectSignal
<1>3. CASE SelectFailure \/ ShutdownDone \/ ShutdownExpires
  BY <1>3 DEF SelectFailure, ShutdownDone, ShutdownExpires, Return
<1>4. CASE Flush
  BY <1>4 DEF Flush
<1>5. CASE Export
  BY <1>5 DEF Export
<1>6. CASE Listen \/ ServeFails \/ Signal \/ Tick
  BY <1>6 DEF Listen, ServeFails, Signal, Registered, Tick
<1>7. ASSUME NEW c \in Conn, Answer(c) \/ Read(c) PROVE SpansInv'
  <2>1. conn[c] # Closed /\ phase # "exit" /\ Finish(c)
    BY <1>7 DEF Answer, Read, IsBusy, Stalled, Closed
  <2>2. phase = "flush" => result \in {"server", "shutdown"}
    BY <2>1 DEF ClosedInv, AllClosed
  <2> QED  BY <2>1, <2>2 DEF Finish
<1>8. ASSUME NEW c \in Conn,
             \/ Connect(c) \/ Request(c) \/ Disconnect(c)
             \/ CloseUnused(c) \/ NextExchange(c) \/ Stall(c)
      PROVE  SpansInv'
  BY <1>8 DEF Connect, Request, Disconnect, CloseUnused, NextExchange, Stall
<1>9. CASE UNCHANGED vars
  BY <1>9 DEF vars
<1> QED
  BY <1>1, <1>2, <1>3, <1>4, <1>5, <1>6, <1>7, <1>8, <1>9 DEF Next, Run, Handler

(* What main.go:53 asks of the deferred tracing shutdown: when run() comes *)
(* back by itself no span is left in the queue, and a span that ends after *)
(* the flush has begun is one of a handler that an error cut short.        *)
THEOREM SpansAreAccounted == Spec => []SpansAccounted
<1>1. Init => ClosedInv /\ SpansInv
  BY DEF Init, ClosedInv, SpansInv
<1>2. ClosedInv /\ SpansInv /\ [Next]_vars => (ClosedInv /\ SpansInv)'
  BY ClosedStep, SpansStep
<1>3. SpansInv => SpansAccounted
  BY DEF SpansInv, SpansAccounted
<1> QED  BY <1>1, <1>2, <1>3, PTL DEF Spec

-----------------------------------------------------------------------------

(* Shutdown leaves no connection idle: it closes those there are, and no   *)
(* answer keeps one alive.                                                 *)
NoneIdle == phase = "shutdown" => \A c \in Conn : conn[c] # Idle

(* The work of one more exchange is an integer, and comes on top of the    *)
(* others.                                                                 *)
LEMMA Exchanges ==
  ASSUME NEW n \in 1 .. MaxExchanges
  PROVE  /\ MaxExchanges * Timeout \in Nat
         /\ (MaxExchanges - n) * Timeout \in Nat
         /\ (MaxExchanges - n) * Timeout + Timeout =< MaxExchanges * Timeout
         /\ (MaxExchanges - 1) * Timeout + Timeout = MaxExchanges * Timeout
         /\ (MaxExchanges - (n + 1)) * Timeout + Timeout = (MaxExchanges - n) * Timeout
<1> USE LifecycleAssumption DEF LifecycleAssumption
<1> DEFINE M == MaxExchanges
           T == Timeout
<1>1. M \in Nat /\ T \in Nat /\ n \in Nat /\ n >= 1 /\ n =< M
  OBVIOUS
<1>2. M * T \in Nat /\ (M - n) * T \in Nat
  BY <1>1, SMTT(30)
<1>3. (M - n) * T = M * T - n * T /\ n * T >= T
  BY <1>1, SMTT(30)
<1>4. (M - 1) * T = M * T - T
  BY <1>1, SMTT(30)
<1>5. (M - (n + 1)) * T = (M - n) * T - T
  BY <1>1, SMTT(30)
<1> QED  BY <1>1, <1>2, <1>3, <1>4, <1>5

(* Nothing that goes on when the signal comes takes longer than that.      *)
LEMMA OutstandingBound ==
  ASSUME NEW x \in Connection
  PROVE  Outstanding(x) \in Nat /\ Outstanding(x) =< NewGrace + MaxExchanges * Timeout
<1> USE LifecycleAssumption DEF LifecycleAssumption, Outstanding
<1>0. 1 \in 1 .. MaxExchanges
  OBVIOUS
<1>1. CASE \E n \in 1 .. MaxExchanges, t \in 0 .. Timeout : x = Busy(n, t)
  BY <1>1, Exchanges DEF Busy
<1>2. CASE \E t \in 0 .. NewGrace : x = New(t)
  BY <1>0, <1>2, Exchanges DEF New
<1>3. CASE x \in {Closed, Idle, Stalled}
  BY <1>0, <1>3, Exchanges DEF Closed, Idle, Stalled
<1> QED  BY <1>1, <1>2, <1>3, ConnectionCases

(* A unit of time passes for Shutdown and for all that it waits for, but   *)
(* not for a client that does not read.                                    *)
LEMMA InTimeTick ==
  ASSUME TypeOK, NoneIdle, InTime, Tick
  PROVE  InTime' \/ Stuck'
<1>1. /\ timer \in Nat /\ timer > 0 /\ timer' = timer - 1 /\ ~Due
      /\ phase' = "shutdown"
  BY LifecycleAssumption DEF Tick, InTime, TypeOK, LifecycleAssumption
<1>2. ASSUME NEW c \in Conn, conn[c] \notin {Closed, Stalled}
      PROVE  Outstanding(conn'[c]) \in Nat /\ Outstanding(conn'[c]) < timer'
  <2> DEFINE x == conn[c]
  <2>1. x \in Connection /\ x # Idle /\ Outstanding(x) < timer
    BY DEF TypeOK, InTime, NoneIdle
  <2>2. CASE \E t \in 0 .. NewGrace : x = New(t)
    <3>1. PICK t \in 0 .. NewGrace : x = New(t)
      BY <2>2
    <3>2. t > 0 /\ conn'[c] = New(t - 1)
      BY <1>1, <3>1 DEF Tick, Due, New, LifecycleAssumption
    <3>3. Outstanding(New(t)) = MaxExchanges * Timeout + t
          /\ Outstanding(New(t - 1)) = MaxExchanges * Timeout + (t - 1)
      BY DEF Outstanding, New
    <3>4. MaxExchanges * Timeout \in Nat
      BY LifecycleAssumption, Exchanges DEF LifecycleAssumption
    <3> QED  BY <1>1, <2>1, <3>1, <3>2, <3>3, <3>4
  <2>3. CASE \E n \in 1 .. MaxExchanges, t \in 0 .. Timeout : x = Busy(n, t)
    <3>1. PICK n \in 1 .. MaxExchanges, t \in 0 .. Timeout : x = Busy(n, t)
      BY <2>3
    <3>2. t > 0 /\ conn'[c] = Busy(n, t - 1)
      BY <1>1, <3>1 DEF Tick, Due, IsBusy, Busy
    <3>3. Outstanding(Busy(n, t)) = (MaxExchanges - n) * Timeout + t
          /\ Outstanding(Busy(n, t - 1)) = (MaxExchanges - n) * Timeout + (t - 1)
      BY DEF Outstanding, Busy
    <3>4. (MaxExchanges - n) * Timeout \in Nat
      BY Exchanges
    <3> QED  BY <1>1, <2>1, <3>1, <3>2, <3>3, <3>4
  <2> QED  BY <1>2, <2>1, <2>2, <2>3, ConnectionCases
<1>3. ASSUME NEW c \in Conn, conn[c] \in {Closed, Stalled}
      PROVE  conn'[c] = conn[c] /\ Outstanding(conn'[c]) = 0
  BY <1>3 DEF Tick, TypeOK, Closed, Stalled, Outstanding
<1>4. CASE timer' > 0
  BY <1>1, <1>2, <1>3, <1>4 DEF InTime
<1>5. CASE timer' = 0
  <2>1. PICK c \in Conn : conn[c] # Closed
    BY <1>1 DEF Due, AllClosed, InTime
  <2>2. conn'[c] = Stalled
    BY <1>2, <1>3, <1>5, <2>1
  <2> QED  BY <1>1, <1>5, <2>2 DEF Stuck
<1> QED  BY <1>1, <1>4, <1>5

(* Nothing a connection or its handler does makes Shutdown wait longer.    *)
LEMMA InTimeConn ==
  ASSUME TypeOK, NoneIdle, InTime, NEW c \in Conn,
         Request(c) \/ Handler(c) \/ Read(c) \/ Disconnect(c) \/ CloseUnused(c)
  PROVE  InTime' /\ NoneIdle'
<1> USE DEF InTime, NoneIdle
<1> DEFINE x == conn[c]
<1>1. /\ conn \in [Conn -> Connection] /\ timer \in Nat /\ timer > 0
      /\ phase' = phase /\ timer' = timer
      /\ \A d \in Conn \ {c} : conn'[d] = conn[d]
  BY LifecycleAssumption
     DEF TypeOK, Request, Handler, NextExchange, Answer, Stall, Read, Finish, Disconnect,
         CloseUnused, LifecycleAssumption
<1>2. conn'[c] # Idle /\ Outstanding(conn'[c]) < timer
  <2>1. x \in Connection /\ x # Idle /\ Outstanding(x) < timer
    BY <1>1
  <2>2. CASE conn'[c] \in {Closed, Stalled}
    BY <1>1, <2>2 DEF Closed, Stalled, Idle, Outstanding
  <2>3. CASE Request(c)
    <3>1. PICK t \in 0 .. NewGrace : x = New(t)
      BY <2>1, <2>3, ConnectionCases DEF Request, Closed, Stalled, Busy
    <3>2. conn'[c] = Busy(1, Timeout)
      BY <1>1, <2>3 DEF Request
    <3>3. Outstanding(x) = MaxExchanges * Timeout + t
          /\ Outstanding(Busy(1, Timeout)) = (MaxExchanges - 1) * Timeout + Timeout
      BY <3>1 DEF Outstanding, New, Busy
    <3>4. 1 \in 1 .. MaxExchanges /\ Timeout \in Nat
      BY LifecycleAssumption DEF LifecycleAssumption
    <3> QED  BY <1>1, <2>1, <3>2, <3>3, <3>4, Exchanges DEF Busy, Idle
  <2>4. CASE NextExchange(c)
    <3>1. PICK n \in 1 .. MaxExchanges, t \in 0 .. Timeout : x = Busy(n, t)
      BY <2>1, <2>4, BusyCase DEF NextExchange, IsBusy
    <3>2. conn'[c] = Busy(n + 1, Timeout)
      BY <1>1, <2>4, <3>1 DEF NextExchange, Busy
    <3>3. Outstanding(x) = (MaxExchanges - n) * Timeout + t
          /\ Outstanding(Busy(n + 1, Timeout)) = (MaxExchanges - (n + 1)) * Timeout + Timeout
      BY <3>1 DEF Outstanding, Busy
    <3>4. Timeout \in Nat
      BY LifecycleAssumption DEF LifecycleAssumption
    <3> QED  BY <1>1, <2>1, <3>2, <3>3, <3>4, Exchanges DEF Busy, Idle
  <2>5. CASE Answer(c) \/ Stall(c) \/ Read(c) \/ Disconnect(c) \/ CloseUnused(c)
    BY <1>1, <2>2, <2>5 DEF Answer, Stall, Read, Finish, Closing, Disconnect, CloseUnused
  <2> QED  BY <2>3, <2>4, <2>5 DEF Handler
<1> QED  BY <1>1, <1>2

(* Shutdown closes idle connections as it begins and each one that falls   *)
(* idle.                                                                   *)
LEMMA NoneIdleStep == TypeOK /\ ClosedInv /\ NoneIdle /\ [Next]_vars => NoneIdle'
<1> SUFFICES ASSUME TypeOK, ClosedInv, NoneIdle, [Next]_vars
             PROVE  NoneIdle'
  OBVIOUS
<1> USE DEF NoneIdle, TypeOK
<1>1. CASE SelectSignal
  BY <1>1 DEF SelectSignal, Closed, Idle
<1>2. CASE SelectFailure \/ ShutdownDone \/ ShutdownExpires
  BY <1>2 DEF SelectFailure, ShutdownDone, ShutdownExpires, Return
<1>3. CASE (\E env \in Env : SetUp(env)) \/ NotifyContext \/ Flush
  BY <1>3 DEF SetUp, NotifyContext, Flush
<1>4. CASE Listen \/ ServeFails \/ Signal \/ Export
  BY <1>4 DEF Listen, ServeFails, Signal, Registered, Export
<1>5. CASE Tick
  BY <1>5 DEF Tick, Idle
<1>6. ASSUME NEW c \in Conn, Connect(c) PROVE NoneIdle'
  BY <1>6 DEF Connect, New, Idle
<1>7. ASSUME NEW c \in Conn, Request(c) \/ NextExchange(c) PROVE NoneIdle'
  BY <1>7 DEF Request, NextExchange, Busy, Idle
<1>8. ASSUME NEW c \in Conn,
             Answer(c) \/ Stall(c) \/ Read(c) \/ Disconnect(c) \/ CloseUnused(c)
      PROVE  NoneIdle'
  BY <1>8 DEF Answer, Stall, Read, Finish, Closing, Disconnect, CloseUnused, Closed,
              Stalled, Idle
<1>9. CASE UNCHANGED vars
  BY <1>9 DEF vars
<1> QED
  BY <1>1, <1>2, <1>3, <1>4, <1>5, <1>6, <1>7, <1>8, <1>9 DEF Next, Run, Handler

(* No step adds work, and Tick takes as much from both sides, unless all   *)
(* that is left is a client that does not read.                            *)
LEMMA InTimeStep ==
  TypeOK /\ ClosedInv /\ NoneIdle /\ InTime /\ Next => InTime' \/ result' = "nil" \/ Stuck'
<1> SUFFICES ASSUME TypeOK, ClosedInv, NoneIdle, InTime, Next
             PROVE  InTime' \/ result' = "nil" \/ Stuck'
  OBVIOUS
<1>1. CASE Run
  BY <1>1 DEF Run, SetUp, NotifyContext, SelectSignal, SelectFailure, ShutdownDone,
              ShutdownExpires, Flush, Return, InTime
<1>2. CASE Listen \/ ServeFails \/ Signal \/ Export
  BY <1>2 DEF Listen, ServeFails, Signal, Registered, Export, InTime
<1>3. CASE Tick
  BY <1>3, InTimeTick
<1>4. ASSUME NEW c \in Conn, Connect(c) PROVE FALSE
  BY <1>4 DEF Connect, ClosedInv, InTime
<1>5. ASSUME NEW c \in Conn,
             Request(c) \/ Handler(c) \/ Read(c) \/ Disconnect(c) \/ CloseUnused(c)
      PROVE  InTime'
  BY <1>5, InTimeConn
<1> QED  BY <1>1, <1>2, <1>3, <1>4, <1>5 DEF Next

(* Shutdown (main.go:109) never gives up on what was in time once, however *)
(* many connections there are and whatever the durations, as long as no    *)
(* client leaves its answer unread until the deadline.                     *)
THEOREM NeverGivesUpInTime == Spec => GivesUpOnlyWhenLate
<1>1. Init => TypeOK /\ ClosedInv /\ NoneIdle
  BY TypeInit DEF Init, ClosedInv, NoneIdle
<1>2. TypeOK /\ ClosedInv /\ NoneIdle /\ [Next]_vars
        => /\ (TypeOK /\ ClosedInv /\ NoneIdle)'
           /\ [InTime => InTime' \/ result' = "nil" \/ Stuck']_vars
  BY TypeStep, ClosedStep, NoneIdleStep, InTimeStep
<1> QED  BY <1>1, <1>2, PTL DEF Spec, GivesUpOnlyWhenLate

-----------------------------------------------------------------------------

(* A connection opened just before the signal, its first request just      *)
(* short of NewGrace later, and all its exchanges fit in the deadline.     *)
Fits == NewGrace + MaxExchanges * Timeout < ShutdownTimeout

FitsInv ==
  /\ result # "shutdown"
  /\ phase = "shutdown" => InTime

(* While the server still listens, a connection's work is at most that of  *)
(* a new one.                                                              *)
LEMMA FitsStep ==
  Fits /\ TypeOK /\ ClosedInv /\ NoneIdle /\ FitsInv /\ ~Stuck' /\ [Next]_vars => FitsInv'
<1> SUFFICES ASSUME Fits, TypeOK, ClosedInv, NoneIdle, FitsInv, ~Stuck', [Next]_vars
             PROVE  FitsInv'
  OBVIOUS
<1>1. CASE SelectSignal
  <2>1. timer' > 0 /\ phase' = "shutdown" /\ result' # "shutdown"
    BY <1>1, LifecycleAssumption, Exchanges
       DEF SelectSignal, Fits, LifecycleAssumption, FitsInv
  <2>2. ASSUME NEW c \in Conn
        PROVE  Outstanding(conn'[c]) < timer'
    <3>1. conn'[c] \in Connection
      BY <1>1, ConnectionFacts DEF SelectSignal, TypeOK
    <3> QED  BY <1>1, <3>1, OutstandingBound, Exchanges, LifecycleAssumption
                DEF SelectSignal, Fits, LifecycleAssumption
  <2> QED  BY <2>1, <2>2 DEF FitsInv, InTime
<1>2. CASE ~InTime /\ Run /\ ~SelectSignal
  BY <1>2 DEF Run, SetUp, NotifyContext, SelectFailure, ShutdownDone, ShutdownExpires,
              Flush, Return, FitsInv
<1>3. CASE ~InTime /\ ~Run
  BY <1>3 DEF Next, Listen, ServeFails, Signal, Registered, Export, Tick, Connect, Request,
              Handler, NextExchange, Answer, Stall, Read, Finish, Disconnect, CloseUnused,
              vars, FitsInv
<1>4. CASE InTime /\ Next
  <2>1. result' # "shutdown"
    BY <1>4 DEF FitsInv, InTime, Next, Run, SetUp, NotifyContext, SelectSignal,
       SelectFailure, ShutdownDone, ShutdownExpires, Flush, Return, Listen, ServeFails,
       Signal, Export, Tick, Connect, Request, Handler, NextExchange, Answer, Stall, Read,
       Finish, Disconnect, CloseUnused
  <2>2. result' = "nil" => phase' # "shutdown"
    BY ClosedStep DEF ClosedInv
  <2> QED  BY <1>4, <2>1, <2>2, InTimeStep DEF FitsInv
<1>5. CASE UNCHANGED vars
  BY <1>5 DEF vars, FitsInv, InTime
<1> QED  BY <1>1, <1>2, <1>3, <1>4, <1>5

(* With timeouts that fit, Shutdown (main.go:111) never returns an error,  *)
(* unless its deadline passes while a client does not read its answer.     *)
THEOREM DeadlineSuffices ==
  ASSUME Fits PROVE Spec /\ [](~Stuck) => [](result # "shutdown")
<1>1. Init => TypeOK /\ ClosedInv /\ NoneIdle /\ FitsInv
  BY TypeInit DEF Init, ClosedInv, NoneIdle, FitsInv
<1>2. TypeOK /\ ClosedInv /\ NoneIdle /\ FitsInv /\ ~Stuck' /\ [Next]_vars
        => (TypeOK /\ ClosedInv /\ NoneIdle /\ FitsInv)'
  BY TypeStep, ClosedStep, NoneIdleStep, FitsStep
<1>3. FitsInv => result # "shutdown"
  BY DEF FitsInv
<1> QED  BY <1>1, <1>2, <1>3, PTL DEF Spec

=============================================================================
