------------------------ MODULE BluetoothSessionProofs ------------------------
(***************************************************************************)
(* Proofs about the registration of ports with a BluetoothAudioSession, for *)
(* any number of ports and of cookies: the session calls back the ports     *)
(* that are open, each under its own cookie, and no other.                  *)
(***************************************************************************)
EXTENDS BluetoothSession, TLAPS

(* What ObserversSound needs to be inductive: a port that is not registered *)
(* has no cookie, so that the one it is given later is its only one.        *)
Unregistered ==
  \A p \in Ports : pc[p] \in {"closed", "register"} => cookie[p] = Undefined

Inv == ObserversSound /\ Unregistered

(* How far the registration of a port is, which is all of its pc that       *)
(* matters here: an operation on an open stream does not change it.         *)
Stage(l) == IF l \in {"closed", "register"} THEN "out"
            ELSE IF l = "registered" THEN "half" ELSE "in"

LEMMA CookieFacts == Undefined \notin Cookies /\ Undefined = NumCookies + 1
  BY BluetoothAssumption DEF Undefined, Cookies

-----------------------------------------------------------------------------
(* Type correctness.                                                        *)

LEMMA ResultType ==
  ASSUME NEW s \in StreamState, NEW status \in Status
  PROVE  ControlResult(s, status) \in StreamState
BY DEF ControlResult, StreamState, Status

LEMMA InitType == Init => TypeOK
<1> SUFFICES ASSUME Init PROVE TypeOK
  OBVIOUS
<1>1. observers \in [Cookies -> Ports \cup {NoPort, OtherPort}]
  BY DEF Init
<1>2. requests \in Seq({"start", "suspend"}) /\ Len(requests) = 0
  BY DEF Init
<1>3. now \in Stacks /\ hosts \subseteq 0..now /\ 0 <= MaxRequests
  BY BluetoothAssumption DEF Init, Stacks
<1>4. pc = [p \in Ports |-> "closed"] /\ state = [p \in Ports |-> "DISABLED"]
      /\ cookie = [p \in Ports |-> Undefined]
  BY DEF Init
<1> QED
  BY <1>1, <1>2, <1>3, <1>4 DEF Init, TypeOK, StreamState

LEMMA StackType == TypeOK /\ Stack => TypeOK'
<1> SUFFICES ASSUME TypeOK, Stack PROVE TypeOK'
  OBVIOUS
<1> USE DEF TypeOK
<1>1. now \in Nat /\ \A i \in 0..now : i \in Stacks
  BY BluetoothAssumption DEF Stacks
<1>2. CASE StartSession
  <2>1. state' \in [Ports -> StreamState]
    BY <1>2 DEF StartSession, OnSessionStarted, SessionChanged, StreamState
  <2>2. hosts' \subseteq 0..now
    BY <1>1, <1>2 DEF StartSession
  <2>3. stack_iface' \in Stacks \cup {NoStack}
    BY <1>2 DEF StartSession, OnSessionStarted
  <2>4. data_mq' \in BOOLEAN /\ audio_config' \in BOOLEAN /\ regular' \in BOOLEAN
    BY <1>2 DEF StartSession, OnSessionStarted
  <2> QED
    BY <1>2, <2>1, <2>2, <2>3, <2>4 DEF StartSession, OnSessionStarted
<1>3. ASSUME NEW i \in Stacks, EndSession(i) PROVE TypeOK'
  <2>1. state' \in [Ports -> StreamState]
    BY <1>3 DEF EndSession, OnSessionEnded, SessionChanged, StreamState
  <2>2. regular' \in BOOLEAN /\ streaming' \in BOOLEAN
    BY <1>3 DEF EndSession
  <2> QED
    BY <1>3, <2>1, <2>2 DEF EndSession, OnSessionEnded, StillHosting
<1>4. CASE StackDies
  <2>1. now' \in Stacks /\ 0..now \subseteq 0..now'
    BY <1>1, <1>4, BluetoothAssumption DEF StackDies, Stacks
  <2>2. requests' \in Seq({"start", "suspend"}) /\ Len(requests') <= MaxRequests
    BY <1>4, BluetoothAssumption DEF StackDies
  <2> QED
    BY <1>4, <2>1, <2>2 DEF StackDies, session
<1>5. CASE RemoteSuspend
  <2>1. state' \in [Ports -> StreamState]
    BY <1>5, ResultType DEF RemoteSuspend, ReportControlStatus, Status
  <2> QED
    BY <1>5, <2>1 DEF RemoteSuspend, session
<1>6. ASSUME NEW status \in Status, StreamAnswered(status) PROVE TypeOK'
  <2>1. state' \in [Ports -> StreamState]
    BY <1>6, ResultType DEF StreamAnswered, ReportControlStatus
  <2>2. requests' \in Seq({"start", "suspend"}) /\ Len(requests') <= MaxRequests
    BY <1>6, BluetoothAssumption DEF StreamAnswered
  <2>3. streaming' \in BOOLEAN
    BY <1>6 DEF StreamAnswered
  <2> QED
    BY <1>6, <2>1, <2>2, <2>3 DEF StreamAnswered, session
<1> QED
  BY <1>2, <1>3, <1>4, <1>5, <1>6 DEF Stack, BinderDied

LEMMA ClientType == ASSUME TypeOK, NEW p \in Ports, Client(p) PROVE TypeOK'
<1> USE DEF TypeOK, Goto, stack, session, Local
<1>1. CASE SetUp(p)
  BY <1>1 DEF SetUp, StreamState
<1>2. CASE Resume(p) \/ Standby(p)
  BY <1>2 DEF Resume, Standby, Begin
<1>3. CASE A2dpSuspend(p)
  BY <1>3 DEF A2dpSuspend, Begin
<1>4. CASE A2dpResume(p)
  BY <1>4 DEF A2dpResume, StreamState
<1>5. CASE SetParametersStop(p)
  BY <1>5 DEF SetParametersStop, Stop, StreamState
<1>6. CASE Close(p)
  BY <1>6 DEF Close, Stop, Begin, StreamState
<1> QED
  BY <1>1, <1>2, <1>3, <1>4, <1>5, <1>6 DEF Client

(* What RegisterStatusCback does with the cookies: it takes a free one.     *)
LEMMA Registration ==
  ASSUME TypeOK, NEW p \in Ports, RegisterStatusCback(p)
  PROVE  /\ pc[p] = "register" /\ UNCHANGED <<stack, session, cookie, disabling>>
         /\ \/ \E c \in Cookies :
                 /\ observers[c] = NoPort
                 /\ observers' = [observers EXCEPT ![c] = p]
                 /\ pc' = [pc EXCEPT ![p] = "registered"]
                 /\ state' = state
            \/ /\ observers' = observers
               /\ pc' = [pc EXCEPT ![p] = "closed"]
               /\ state' = [state EXCEPT ![p] = "DISABLED"]
<1>1. CASE Free = {}
  BY <1>1 DEF RegisterStatusCback, Goto
<1>2. CASE Free # {}
  <2>1. PICK c \in Free :
          /\ observers' = [d \in Cookies \cup {c} |-> IF d = c THEN p ELSE observers[d]]
          /\ pc' = [pc EXCEPT ![p] = "registered"]
          /\ state' = state
    BY <1>2 DEF RegisterStatusCback, Goto
  <2>2. c \in Cookies /\ observers[c] = NoPort /\ Cookies \cup {c} = Cookies
    BY DEF Free
  <2>3. observers' = [observers EXCEPT ![c] = p]
    BY <2>1, <2>2 DEF TypeOK
  <2> QED
    BY <2>1, <2>2, <2>3 DEF RegisterStatusCback
<1> QED
  BY <1>1, <1>2

LEMMA ProceedType == ASSUME TypeOK, NEW p \in Ports, Proceed(p) PROVE TypeOK'
<1> USE DEF TypeOK, Goto, stack, session, Local
<1>1. CASE RegisterStatusCback(p)
  <2>1. UNCHANGED <<stack, session, cookie, disabling>>
    BY <1>1, Registration
  <2>2. observers' \in [Cookies -> Ports \cup {NoPort, OtherPort}]
    BY <1>1, Registration
  <2>3. state' = state \/ state' = [state EXCEPT ![p] = "DISABLED"]
    BY <1>1, Registration
  <2>4. pc' = [pc EXCEPT ![p] = "registered"] \/ pc' = [pc EXCEPT ![p] = "closed"]
    BY <1>1, Registration
  <2> QED
    BY <2>1, <2>2, <2>3, <2>4 DEF StreamState
<1>2. CASE AssignCookie(p)
  <2>1. cookie' \in [Ports -> Cookies \cup {Undefined}]
    BY <1>2 DEF AssignCookie
  <2>2. pc'[p] \in {"opened", "teardown"} /\ pc' = [pc EXCEPT ![p] = pc'[p]]
    BY <1>2 DEF AssignCookie
  <2>3. UNCHANGED <<stack, session, observers, state, disabling>>
    BY <1>2 DEF AssignCookie
  <2> QED
    BY <2>1, <2>2, <2>3
<1>3. CASE TearDown(p)
  <2>1. observers' \in [Cookies -> Ports \cup {NoPort, OtherPort}]
    BY <1>3 DEF TearDown, Unregister
  <2> QED
    BY <1>3, <2>1 DEF TearDown, StreamState
<1>4. CASE TestAgain(p)
  BY <1>4 DEF TestAgain, Finished
<1>5. CASE SetBusy(p)
  BY <1>5 DEF SetBusy, StreamState
<1>6. CASE CallStack(p)
  <2>1. requests' \in Seq({"start", "suspend"}) /\ Len(requests') <= MaxRequests
    BY <1>6, BluetoothAssumption DEF CallStack
  <2> QED
    BY <1>6, <2>1 DEF CallStack, Finished
<1>7. CASE Condwait(p)
  BY <1>7 DEF Condwait, Finished
<1>8. CASE StopStream(p)
  <2>1. streaming' \in BOOLEAN
    BY <1>8 DEF StopStream
  <2> QED
    BY <1>8, <2>1 DEF StopStream
<1>9. CASE Disable(p)
  BY <1>9 DEF Disable, StreamState
<1> QED
  BY <1>1, <1>2, <1>3, <1>4, <1>5, <1>6, <1>7, <1>8, <1>9 DEF Proceed

-----------------------------------------------------------------------------
(* The registration.                                                        *)

LEMMA InitInv == Init => Inv
<1> SUFFICES ASSUME Init PROVE Inv
  OBVIOUS
<1>1. TypeOK
  BY InitType
<1>2. /\ \A c \in Cookies : observers[c] \in {OtherPort, NoPort}
      /\ \A p \in Ports : pc[p] = "closed" /\ cookie[p] = Undefined
  BY DEF Init
<1> QED
  BY <1>1, <1>2, BluetoothAssumption DEF Inv, ObserversSound, Unregistered

(* A step that registers nobody and keeps every port at its stage.          *)
LEMMA SameStage ==
  ASSUME Inv, TypeOK', UNCHANGED <<observers, cookie>>,
         \A p \in Ports : Stage(pc'[p]) = Stage(pc[p])
  PROVE  Inv'
<1>1. \A p \in Ports : /\ pc'[p] \in {"closed", "register"} <=> pc[p] \in {"closed", "register"}
                       /\ pc'[p] = "registered" <=> pc[p] = "registered"
  BY DEF Stage
<1> QED
  BY <1>1 DEF Inv, ObserversSound, Unregistered

LEMMA RegisterStep ==
  ASSUME Inv, TypeOK', NEW p \in Ports, RegisterStatusCback(p)
  PROVE  Inv'
<1>1. TypeOK /\ pc[p] = "register" /\ cookie' = cookie /\ cookie[p] = Undefined
  BY Registration DEF Inv, ObserversSound, Unregistered
<1>2. \A d \in Cookies : observers[d] # p
  BY <1>1 DEF Inv, ObserversSound
<1>3. CASE observers' = observers /\ pc' = [pc EXCEPT ![p] = "closed"]
  <2>1. \A q \in Ports : Stage(pc'[q]) = Stage(pc[q])
    BY <1>1, <1>3 DEF TypeOK, Stage
  <2> QED
    BY <1>1, <1>3, <2>1, SameStage
<1>4. ASSUME NEW c \in Cookies, observers[c] = NoPort,
             observers' = [observers EXCEPT ![c] = p],
             pc' = [pc EXCEPT ![p] = "registered"]
      PROVE  Inv'
  <2>1. observers'[c] = p /\ \A d \in Cookies \ {c} : observers'[d] = observers[d]
    BY <1>1, <1>4 DEF TypeOK
  <2>2. pc'[p] = "registered" /\ \A q \in Ports \ {p} : pc'[q] = pc[q]
    BY <1>1, <1>4 DEF TypeOK
  <2>3. ASSUME NEW d \in Cookies, observers'[d] \in Ports
        PROVE  /\ pc'[observers'[d]] \notin {"closed", "register"}
               /\ cookie'[observers'[d]] = IF pc'[observers'[d]] = "registered"
                                           THEN Undefined ELSE d
    BY <1>1, <1>2, <2>1, <2>2, <2>3 DEF Inv, ObserversSound
  <2>4. ASSUME NEW q \in Ports, pc'[q] \notin {"closed", "register"}
        PROVE  \E d \in Cookies : /\ observers'[d] = q
                                  /\ \A e \in Cookies \ {d} : observers'[e] # q
    <3>1. CASE q = p
      BY <1>2, <2>1, <3>1
    <3>2. CASE q # p
      <4>1. PICK d \in Cookies : observers[d] = q /\ \A e \in Cookies \ {d} : observers[e] # q
        BY <2>2, <2>4, <3>2 DEF Inv, ObserversSound
      <4>2. d # c
        BY <1>4, <4>1, BluetoothAssumption
      <4> QED
        BY <2>1, <3>2, <4>1, <4>2
    <3> QED
      BY <3>1, <3>2
  <2>5. Unregistered'
    BY <1>1, <2>2 DEF Inv, Unregistered
  <2> QED
    BY <2>3, <2>4, <2>5 DEF Inv, ObserversSound
<1> QED
  BY <1>1, <1>3, <1>4, Registration

LEMMA AssignStep ==
  ASSUME Inv, TypeOK', NEW p \in Ports, AssignCookie(p)
  PROVE  Inv'
<1>1. TypeOK /\ pc[p] = "registered" /\ observers' = observers
  BY DEF AssignCookie, Inv, ObserversSound
<1>2. PICK c \in Cookies : observers[c] = p /\ cookie' = [cookie EXCEPT ![p] = c]
  BY DEF AssignCookie
<1>3. pc'[p] \in {"opened", "teardown"} /\ \A q \in Ports \ {p} : pc'[q] = pc[q]
  BY <1>1 DEF AssignCookie, Goto, TypeOK
<1>4. cookie'[p] = c /\ \A q \in Ports \ {p} : cookie'[q] = cookie[q]
  BY <1>1, <1>2 DEF TypeOK
<1>5. \A d \in Cookies \ {c} : observers[d] # p
  BY <1>1, <1>2 DEF Inv, ObserversSound
<1>6. Unregistered'
  BY <1>3, <1>4 DEF Inv, Unregistered
<1>7. ASSUME NEW d \in Cookies, observers'[d] \in Ports
      PROVE  /\ pc'[observers'[d]] \notin {"closed", "register"}
             /\ cookie'[observers'[d]] = IF pc'[observers'[d]] = "registered"
                                         THEN Undefined ELSE d
  BY <1>1, <1>2, <1>3, <1>4, <1>5, <1>7 DEF Inv, ObserversSound
<1>8. ASSUME NEW q \in Ports, pc'[q] \notin {"closed", "register"}
      PROVE  \E d \in Cookies : /\ observers'[d] = q
                                /\ \A e \in Cookies \ {d} : observers'[e] # q
  BY <1>1, <1>2, <1>3, <1>5, <1>8 DEF Inv, ObserversSound
<1> QED
  BY <1>6, <1>7, <1>8 DEF Inv, ObserversSound

LEMMA TearDownStep ==
  ASSUME Inv, TypeOK', NEW p \in Ports, TearDown(p)
  PROVE  Inv'
<1>1. TypeOK /\ pc[p] = "teardown"
  BY DEF TearDown, Inv, ObserversSound
<1>2. PICK c \in Cookies : observers[c] = p /\ \A d \in Cookies \ {c} : observers[d] # p
  BY <1>1 DEF Inv, ObserversSound
<1>3. cookie[p] = c
  BY <1>1, <1>2 DEF Inv, ObserversSound
<1>4. observers'[c] = NoPort /\ \A d \in Cookies \ {c} : observers'[d] = observers[d]
  BY <1>1, <1>3 DEF TearDown, Unregister, TypeOK
<1>5. pc'[p] = "closed" /\ \A q \in Ports \ {p} : pc'[q] = pc[q]
  BY <1>1 DEF TearDown, Goto, TypeOK
<1>6. cookie'[p] = Undefined /\ \A q \in Ports \ {p} : cookie'[q] = cookie[q]
  BY <1>1 DEF TearDown, TypeOK
<1>7. Unregistered'
  BY <1>5, <1>6 DEF Inv, Unregistered
<1>8. ASSUME NEW d \in Cookies, observers'[d] \in Ports
      PROVE  /\ pc'[observers'[d]] \notin {"closed", "register"}
             /\ cookie'[observers'[d]] = IF pc'[observers'[d]] = "registered"
                                         THEN Undefined ELSE d
  <2>1. d # c /\ observers'[d] = observers[d] /\ observers[d] # p
    BY <1>2, <1>4, <1>8, BluetoothAssumption
  <2> QED
    BY <1>5, <1>6, <1>8, <2>1 DEF Inv, ObserversSound
<1>9. ASSUME NEW q \in Ports, pc'[q] \notin {"closed", "register"}
      PROVE  \E d \in Cookies : /\ observers'[d] = q
                                /\ \A e \in Cookies \ {d} : observers'[e] # q
  <2>1. q # p /\ pc[q] \notin {"closed", "register"}
    BY <1>5, <1>9
  <2>2. PICK d \in Cookies : observers[d] = q /\ \A e \in Cookies \ {d} : observers[e] # q
    BY <2>1 DEF Inv, ObserversSound
  <2>3. d # c
    BY <1>2, <2>1, <2>2
  <2> QED
    BY <1>4, <2>2, <2>3, BluetoothAssumption
<1> QED
  BY <1>7, <1>8, <1>9 DEF Inv, ObserversSound

LEMMA Preserved == Inv /\ [Next]_vars => Inv'
<1> SUFFICES ASSUME Inv, [Next]_vars PROVE Inv'
  OBVIOUS
<1>1. TypeOK
  BY DEF Inv, ObserversSound
<1>2. CASE Stack
  <2>1. UNCHANGED <<observers, cookie, pc>>
    BY <1>2 DEF Stack, StartSession, EndSession, StackDies, RemoteSuspend, BinderDied,
       StreamAnswered
  <2> QED
    BY <1>1, <1>2, <2>1, StackType, SameStage
<1>3. ASSUME NEW p \in Ports, Client(p) PROVE Inv'
  <2>1. UNCHANGED <<observers, cookie>>
    BY <1>3 DEF Client, SetUp, Resume, Standby, A2dpSuspend, A2dpResume, SetParametersStop,
       Close, Stop, Begin, Local
  <2>2. /\ \A q \in Ports \ {p} : pc'[q] = pc[q]
        /\ Stage(pc'[p]) = Stage(pc[p])
    BY <1>1, <1>3 DEF Client, SetUp, Resume, Standby, A2dpSuspend, A2dpResume,
       SetParametersStop, Close, Stop, Begin, Goto, Stage, TypeOK
  <2> QED
    BY <1>1, <1>3, <2>1, <2>2, ClientType, SameStage
<1>4. ASSUME NEW p \in Ports, Proceed(p) PROVE Inv'
  <2>1. TypeOK'
    BY <1>1, <1>4, ProceedType
  <2>2. CASE RegisterStatusCback(p)
    BY <2>1, <2>2, RegisterStep
  <2>3. CASE AssignCookie(p)
    BY <2>1, <2>3, AssignStep
  <2>4. CASE TearDown(p)
    BY <2>1, <2>4, TearDownStep
  <2>5. CASE \/ TestAgain(p) \/ SetBusy(p) \/ CallStack(p) \/ Condwait(p)
             \/ StopStream(p) \/ Disable(p)
    <3>1. UNCHANGED <<observers, cookie>>
      BY <2>5 DEF TestAgain, SetBusy, CallStack, Condwait, StopStream, Disable, Local
    <3>2. /\ \A q \in Ports \ {p} : pc'[q] = pc[q]
          /\ Stage(pc'[p]) = Stage(pc[p])
      BY <1>1, <2>5 DEF TestAgain, SetBusy, CallStack, Condwait, StopStream, Disable,
         Finished, Answered, TimedOut, Goto, Stage, TypeOK
    <3> QED
      BY <2>1, <3>1, <3>2, SameStage
  <2> QED
    BY <1>4, <2>2, <2>3, <2>4, <2>5 DEF Proceed
<1>5. CASE UNCHANGED vars
  <2>1. TypeOK'
    BY <1>1, <1>5 DEF TypeOK, vars, stack, session
  <2> QED
    BY <1>5, <2>1, SameStage DEF vars
<1> QED
  BY <1>2, <1>3, <1>4, <1>5 DEF Next

LEMMA Invariance == Spec => []Inv
  BY InitInv, Preserved, PTL DEF Spec

(* However the streams are opened, used and closed while the stack starts,  *)
(* ends and dies: the session calls every open port back, under its own     *)
(* cookie, calls none that was deleted, and loses no cookie                 *)
(* (BluetoothAudioSession::RegisterStatusCback, UnregisterStatusCback).     *)
THEOREM PortsObserved == Spec => []ObserversSound
<1>1. Inv => ObserversSound
  BY DEF Inv
<1> QED
  BY <1>1, Invariance, PTL

-----------------------------------------------------------------------------
(* The session is what it seems.                                            *)

(* What SessionTrue needs to be inductive: a port that no callback reaches  *)
(* is not STARTED, so that the end and the start of a session stop all      *)
(* streams; and a stack that streams hosts the session, so that the suspend *)
(* it reports, which starts a STARTING port, finds the session ready.       *)
Reachable == \A p \in Ports \ Notified : state[p] # "STARTED"
Streaming == streaming => now \in hosts

TrueInv == Inv /\ SessionTrue /\ Reachable /\ Streaming

NotifiedInside ==
  \A p \in Ports : p \in Notified <=> pc[p] \notin {"closed", "register", "registered"}

LEMMA NotifiedPorts == Inv => NotifiedInside
<1> SUFFICES ASSUME Inv, NEW p \in Ports
             PROVE  p \in Notified <=> pc[p] \notin {"closed", "register", "registered"}
  BY DEF NotifiedInside
<1>1. CASE pc[p] \notin {"closed", "register", "registered"}
  BY <1>1 DEF Notified, Inv, ObserversSound
<1>2. CASE pc[p] \in {"closed", "register", "registered"}
  BY <1>2, CookieFacts DEF Notified, Inv, ObserversSound, Unregistered
<1> QED
  BY <1>1, <1>2

LEMMA InitTrue == Init => TrueInv
<1> SUFFICES ASSUME Init PROVE TrueInv
  OBVIOUS
<1>1. \A p \in Ports : state[p] = "DISABLED"
  BY DEF Init
<1> QED
  BY <1>1, InitInv DEF Init, TrueInv, SessionTrue, Reachable, Streaming

(* A step of the stack: the registrations stay as they are.                 *)
LEMMA StackTrue ==
  ASSUME TrueInv, Inv', Stack
  PROVE  SessionTrue' /\ Reachable' /\ Streaming'
<1>1. Notified' = Notified
  BY DEF Notified, Stack, StartSession, EndSession, StackDies, RemoteSuspend, BinderDied,
     StreamAnswered
<1>2. state \in [Ports -> StreamState] /\ now \in Nat /\ hosts \subseteq 0..now
  BY BluetoothAssumption DEF TrueInv, Inv, ObserversSound, TypeOK, Stacks
<1>3. ASSUME SessionChanged PROVE Reachable' /\ \A p \in Ports : state'[p] # "STARTED"
  BY <1>1, <1>3 DEF SessionChanged, Reachable, TrueInv
<1>4. CASE StartSession
  <2>1. CASE SessionChanged /\ data_mq' /\ audio_config' /\ stack_iface' = now
    <3>1. IsSessionReady'
      BY <1>2, <2>1, BluetoothAssumption DEF IsSessionReady, NoStack, Stacks, TrueInv, Inv,
         ObserversSound, TypeOK, StartSession
    <3> QED
      BY <1>3, <1>4, <2>1, <3>1 DEF StartSession, SessionTrue, Streaming, TrueInv
  <2>2. CASE state' = state /\ ~data_mq'
    BY <1>1, <1>4, <2>2 DEF StartSession, OnSessionStarted, SessionTrue, Streaming, TrueInv,
       Reachable
  <2> QED
    BY <1>4, <2>1, <2>2 DEF StartSession, OnSessionStarted
<1>5. ASSUME NEW i \in Stacks, EndSession(i)
      PROVE  SessionTrue' /\ Reachable' /\ Streaming'
  <2>1. Streaming'
    BY <1>5 DEF EndSession, StillHosting, Streaming, TrueInv
  <2>2. regular' => regular /\ now' \notin hosts'
    BY <1>5 DEF EndSession, StillHosting, TrueInv, Inv, ObserversSound, TypeOK
  <2>3. Reachable' /\ (regular' => \A p \in Ports : state'[p] # "STARTED")
    BY <1>1, <1>3, <1>5, <2>2 DEF EndSession, OnSessionEnded, Toggled, TrueInv, SessionTrue,
       Reachable
  <2> QED
    BY <2>1, <2>2, <2>3 DEF SessionTrue
<1>6. CASE StackDies
  <2>1. now' \notin hosts' /\ IsSessionReady' = IsSessionReady
    BY <1>2, <1>6 DEF StackDies, IsSessionReady, session
  <2> QED
    BY <1>1, <1>6, <2>1 DEF StackDies, session, SessionTrue, Reachable, Streaming, TrueInv
<1>7. ASSUME NEW status \in Status, ReportControlStatus(status), now \in hosts,
             UNCHANGED <<session, now, hosts>>
      PROVE  SessionTrue' /\ Reachable'
  <2>1. Reachable'
    BY <1>1, <1>2, <1>7 DEF ReportControlStatus, Reachable, TrueInv
  <2>2. regular' => IsSessionReady'
    BY <1>7 DEF session, IsSessionReady, SessionTrue, TrueInv
  <2> QED
    BY <2>1, <2>2 DEF SessionTrue
<1>8. CASE RemoteSuspend
  BY <1>7, <1>8 DEF RemoteSuspend, Streaming, TrueInv, Status
<1>9. ASSUME NEW status \in Status, StreamAnswered(status)
      PROVE  SessionTrue' /\ Reachable' /\ Streaming'
  <2>1. Streaming'
    BY <1>9 DEF StreamAnswered, Streaming, TrueInv
  <2>2. CASE now \in hosts
    BY <1>7, <1>9, <2>1, <2>2 DEF StreamAnswered
  <2>3. CASE now \notin hosts
    BY <1>1, <1>9, <2>1, <2>3 DEF StreamAnswered, session, IsSessionReady, SessionTrue,
       Reachable, TrueInv
  <2> QED
    BY <2>2, <2>3
<1> QED
  BY <1>4, <1>5, <1>6, <1>8, <1>9 DEF Stack, BinderDied, TrueInv, Inv, ObserversSound, TypeOK

(* A step of a port: it starts no stream by itself, and a port that leaves  *)
(* the session is stopped.                                                  *)
LEMMA PortTrue ==
  ASSUME TrueInv, Inv', NEW p \in Ports, Client(p) \/ Proceed(p)
  PROVE  SessionTrue' /\ Reachable' /\ Streaming'
<1>1. UNCHANGED <<now, hosts, session>> /\ (streaming' => streaming)
  <2>1. CASE Client(p)
    BY <2>1 DEF Client, SetUp, Resume, Standby, A2dpSuspend, A2dpResume, SetParametersStop,
       Close, Stop, Begin, Local, stack
  <2>2. CASE Proceed(p) /\ ~StopStream(p) /\ ~CallStack(p)
    BY <2>2 DEF Proceed, RegisterStatusCback, AssignCookie, TearDown, TestAgain, SetBusy,
       Condwait, Disable, Local, stack
  <2>3. CASE StopStream(p)
    BY <2>3, Zenon DEF StopStream
  <2>4. CASE CallStack(p)
    BY <2>4, Zenon DEF CallStack
  <2> QED
    BY <2>1, <2>2, <2>3, <2>4
<1>2. TypeOK
  BY DEF TrueInv, Inv, ObserversSound
<1>3. \A q \in Ports : state'[q] = "STARTED" => state[q] = "STARTED"
  BY <1>2, Registration DEF TypeOK, Client, SetUp, Resume, Standby, A2dpSuspend, A2dpResume,
     SetParametersStop, Close, Stop, Begin, Local, Proceed, AssignCookie, TearDown, TestAgain,
     SetBusy, CallStack, Condwait, StopStream, Disable
<1>4. \A q \in Ports \ {p} : pc'[q] = pc[q]
  BY <1>2, Registration DEF TypeOK, Client, SetUp, Resume, Standby, A2dpSuspend, A2dpResume,
     SetParametersStop, Close, Stop, Begin, Proceed, AssignCookie, TearDown, TestAgain,
     SetBusy, CallStack, Condwait, StopStream, Disable, Goto
<1>5. pc'[p] \in {"closed", "register", "registered"} =>
        pc[p] \in {"closed", "register", "registered"} \/ state'[p] # "STARTED"
  BY <1>2, Registration DEF TypeOK, Client, SetUp, Resume, Standby, A2dpSuspend, A2dpResume,
     SetParametersStop, Close, Stop, Begin, Proceed, AssignCookie, TearDown, TestAgain,
     SetBusy, CallStack, Condwait, StopStream, Disable, Goto, Finished
<1>6. NotifiedInside /\ NotifiedInside'
  BY NotifiedPorts, PTL DEF TrueInv
<1>7. Reachable'
  BY <1>3, <1>4, <1>5, <1>6 DEF NotifiedInside, Reachable, TrueInv
<1> QED
  BY <1>1, <1>3, <1>7 DEF SessionTrue, IsSessionReady, session, Streaming, TrueInv

LEMMA TruePreserved == TrueInv /\ [Next]_vars => TrueInv'
<1> SUFFICES ASSUME TrueInv, [Next]_vars PROVE TrueInv'
  OBVIOUS
<1>1. Inv'
  BY Preserved DEF TrueInv
<1>2. CASE UNCHANGED vars
  BY <1>1, <1>2 DEF vars, stack, session, TrueInv, SessionTrue, IsSessionReady, Reachable,
     Notified, Streaming
<1> QED
  BY <1>1, <1>2, StackTrue, PortTrue DEF Next, TrueInv

(* While its stack hosts a session it is ready, and no stream stays STARTED *)
(* without a session, although Start and Suspend overwrite state_ unasked   *)
(* and answers come late; a queue that could not be mapped and the end of a *)
(* session by another stack than its own are excepted                       *)
(* (BluetoothAudioSession::IsSessionReady, ReportControlStatus).            *)
THEOREM SessionIsTrue == Spec => []SessionTrue
<1>1. Spec => []TrueInv
  BY InitTrue, TruePreserved, PTL DEF Spec
<1>2. TrueInv => SessionTrue
  BY DEF TrueInv
<1> QED
  BY <1>1, <1>2, PTL

-----------------------------------------------------------------------------
(* What the session promises its ports: SessionReports.                     *)

(* SessionReports and BluetoothSession have the words of BluetoothPort.     *)
LEMMA SameWords ==
  /\ Promise!StreamState = StreamState /\ Promise!Status = Status
  /\ \A s, r : Promise!ControlResult(s, r) = ControlResult(s, r)
BY DEF Promise!StreamState, StreamState, Promise!Status, Status,
       Promise!ControlResult, ControlResult

LEMMA Broadcasts ==
  ASSUME Notified' = Notified, NEW status \in Status,
         SessionChanged \/ ReportControlStatus(status)
  PROVE  Promise!Next
<1>1. CASE SessionChanged
  <2>1. Promise!Broadcast(Promise!Changed)
    BY <1>1 DEF SessionChanged, Promise!Broadcast, Promise!Told, Promise!Nothing
  <2> QED
    BY <2>1 DEF Promise!Next
<1>2. CASE ReportControlStatus(status)
  <2>1. \A s : Promise!Told(s, status) = ControlResult(s, status)
    BY SameWords DEF Promise!Told, Promise!Changed, Status
  <2>2. Promise!Broadcast(status)
    BY <1>2, <2>1 DEF ReportControlStatus, Promise!Broadcast, Promise!Nothing
  <2> QED
    BY <2>2, SameWords DEF Promise!Next
<1> QED
  BY <1>1, <1>2

LEMMA Owns ==
  ASSUME Notified' = Notified, NEW p \in Ports,
         NEW s \in StreamState \ {"STARTED"}, s \in Promise!Running => p \in Notified,
         state' = [state EXCEPT ![p] = s]
  PROVE  Promise!Next
<1>1. Promise!Own(p)
  BY SameWords DEF Promise!Own
<1> QED
  BY <1>1 DEF Promise!Next

LEMMA Stutters ==
  ASSUME Notified' = Notified, state' = state PROVE UNCHANGED Promise!reportsVars
BY DEF Promise!reportsVars

LEMMA MapsInit == Init => Promise!Init
<1> SUFFICES ASSUME Init PROVE Promise!Init
  OBVIOUS
<1>1. Notified = {}
  BY CookieFacts DEF Init, Notified
<1> QED
  BY <1>1 DEF Init, Promise!Init, Promise!Nothing

LEMMA StackMaps ==
  ASSUME Inv, Stack PROVE Promise!Next \/ UNCHANGED Promise!reportsVars
<1>1. Notified' = Notified
  BY DEF Notified, Stack, StartSession, EndSession, StackDies, RemoteSuspend, BinderDied,
     StreamAnswered
<1>2. \/ SessionChanged
      \/ \E status \in Status : ReportControlStatus(status)
      \/ state' = state
  BY DEF Stack, StartSession, OnSessionStarted, EndSession, OnSessionEnded, StackDies,
     RemoteSuspend, BinderDied, StreamAnswered, Status
<1>3. "SUCCESS" \in Status
  BY DEF Status
<1> QED
  BY <1>1, <1>2, <1>3, Broadcasts, Stutters

(* Who is told depends on how far the registrations are, and on nothing     *)
(* else.                                                                    *)
LEMMA OneMoves ==
  ASSUME Inv, Inv', NEW p \in Ports, NEW l, Goto(p, l)
  PROVE  /\ Stage(l) = "in" => Notified' = Notified \cup {p}
         /\ Stage(l) # "in" => Notified' = Notified \ {p}
<1>1. NotifiedInside /\ NotifiedInside'
  BY NotifiedPorts, PTL
<1>2. pc'[p] = l /\ \A q \in Ports \ {p} : pc'[q] = pc[q]
  BY DEF Goto, Inv, ObserversSound, TypeOK
<1>3. Notified \subseteq Ports /\ Notified' \subseteq Ports
  BY DEF Notified
<1> QED
  BY <1>1, <1>2, <1>3 DEF NotifiedInside, Stage

LEMMA ClientMaps ==
  ASSUME Inv, Inv', NEW p \in Ports, Client(p)
  PROVE  Promise!Next \/ UNCHANGED Promise!reportsVars
<1>1. p \in Notified <=> Stage(pc[p]) = "in"
  BY NotifiedPorts DEF NotifiedInside, Stage
<1>2. CASE SetUp(p)
  <2>1. Notified' = Notified
    BY <1>1, <1>2, OneMoves DEF SetUp, Stage
  <2> QED
    BY <1>2, <2>1, Owns DEF SetUp, StreamState, Promise!Running
<1>3. CASE A2dpResume(p)
  <2>1. Notified' = Notified
    BY <1>3 DEF A2dpResume, Local, Notified
  <2> QED
    BY <1>3, <2>1, Owns DEF A2dpResume, StreamState, Promise!Running
<1>4. ASSUME NEW l \in {"stop_stream", "stop_and_close"}, Stop(p, l) PROVE Promise!Next
  <2>1. Notified' = Notified
    BY <1>1, <1>4, OneMoves DEF Stop, Stage
  <2> QED
    BY <1>4, <2>1, Owns DEF Stop, StreamState, Promise!Running
<1>5. ASSUME NEW s, NEW l, Begin(p, s, l), Stage(l) = "in"
      PROVE  UNCHANGED Promise!reportsVars
  <2>1. Notified' = Notified
    BY <1>1, <1>5, OneMoves DEF Begin, Stage
  <2> QED
    BY <1>5, <2>1, Stutters DEF Begin
<1> QED
  BY <1>2, <1>3, <1>4, <1>5 DEF Client, Resume, Standby, A2dpSuspend, SetParametersStop, Close,
     Stage

LEMMA ProceedMaps ==
  ASSUME Inv, Inv', NEW p \in Ports, Proceed(p)
  PROVE  Promise!Next \/ UNCHANGED Promise!reportsVars
<1>1. p \in Notified <=> Stage(pc[p]) = "in"
  BY NotifiedPorts DEF NotifiedInside, Stage
<1>2. TypeOK
  BY DEF Inv, ObserversSound
<1>3. CASE RegisterStatusCback(p)
  <2>1. /\ pc[p] = "register"
        /\ \/ Goto(p, "registered") /\ state' = state
           \/ Goto(p, "closed") /\ state' = [state EXCEPT ![p] = "DISABLED"]
    BY <1>2, <1>3, Registration DEF Goto
  <2>2. Notified' = Notified
    BY <1>1, <2>1, OneMoves DEF Stage
  <2> QED
    BY <2>1, <2>2, Owns, Stutters DEF StreamState, Promise!Running
<1>4. CASE AssignCookie(p)
  <2>1. pc[p] = "registered" /\ state' = state /\ (Goto(p, "opened") \/ Goto(p, "teardown"))
    BY <1>4 DEF AssignCookie
  <2>2. p \notin Notified /\ Notified' = Notified \cup {p}
    BY <1>1, <2>1, OneMoves DEF Stage
  <2>3. Promise!Join(p)
    BY <2>1, <2>2 DEF Promise!Join
  <2> QED
    BY <2>3 DEF Promise!Next
<1>5. CASE TearDown(p)
  <2>1. p \in Notified /\ Notified' = Notified \ {p}
    BY <1>1, <1>5, OneMoves DEF TearDown, Stage
  <2>2. Promise!Leave(p)
    BY <1>5, <2>1 DEF TearDown, Promise!Leave, Promise!Nothing
  <2> QED
    BY <2>2 DEF Promise!Next
<1>6. CASE SetBusy(p)
  <2>1. \/ Goto(p, "call_start") /\ state' = [state EXCEPT ![p] = "STARTING"]
        \/ Goto(p, "call_suspend") /\ state' = [state EXCEPT ![p] = "SUSPENDING"]
    BY <1>6 DEF SetBusy
  <2>2. p \in Notified /\ Notified' = Notified
    BY <1>1, <1>6, <2>1, OneMoves DEF SetBusy, Stage
  <2> QED
    BY <2>1, <2>2, Owns DEF StreamState
<1>7. CASE Disable(p)
  <2>1. Notified' = Notified
    BY <1>1, <1>7, OneMoves DEF Disable, Stage
  <2> QED
    BY <1>7, <2>1, Owns DEF Disable, StreamState, Promise!Running
<1>8. CASE TestAgain(p) \/ CallStack(p) \/ Condwait(p) \/ StopStream(p)
  <2>1. Stage(pc[p]) = "in" /\ state' = state /\ \E l : Goto(p, l) /\ Stage(l) = "in"
    BY <1>8 DEF TestAgain, CallStack, Condwait, StopStream, Answered, TimedOut, Finished,
       Local, Stage
  <2>2. Notified' = Notified
    BY <1>1, <2>1, OneMoves
  <2> QED
    BY <2>1, <2>2, Stutters
<1> QED
  BY <1>3, <1>4, <1>5, <1>6, <1>7, <1>8 DEF Proceed

(* Answers, changes of the session and remote suspends reach each port that *)
(* is registered, in one step, and a stream is STARTED by them alone, for   *)
(* any number of ports and of cookies (ReportControlStatus,                 *)
(* ReportSessionStatus).                                                    *)
THEOREM ImplementsReports == Spec => EachPortTold
<1>1. Inv /\ [Next]_vars => [Promise!Next]_Promise!reportsVars
  <2> SUFFICES ASSUME Inv, [Next]_vars PROVE [Promise!Next]_Promise!reportsVars
    OBVIOUS
  <2>1. Inv'
    BY Preserved
  <2>2. CASE UNCHANGED vars
    BY <2>2, Stutters DEF vars, Notified
  <2> QED
    BY <2>1, <2>2, StackMaps, ClientMaps, ProceedMaps DEF Next
<1> QED
  BY <1>1, MapsInit, Invariance, PTL DEF Spec, EachPortTold, Promise!Spec
=============================================================================
