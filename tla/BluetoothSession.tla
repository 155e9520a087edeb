--------------------------- MODULE BluetoothSession ---------------------------
(***************************************************************************)
(* One software session of the Bluetooth audio HAL and the ports (audio     *)
(* streams) of the audio HAL that use it:                                   *)
(*                                                                         *)
(*   stack --- BluetoothAudioProvider --- BluetoothAudioSession --- ports   *)
(*                                                                         *)
(* The Bluetooth stack starts and ends the session and answers the start    *)
(* and suspend requests of the ports; the session hands every answer and    *)
(* every change of the session to all registered ports.  Session methods    *)
(* and the callbacks they make run under the session mutex and are one step *)
(* each.  A port reads and writes its state_ from the client's thread       *)
(* without cv_mutex_, so that its test and its assignment are two steps.    *)
(* One client operation runs on a port at a time (mutex_ of the stream).    *)
(***************************************************************************)
EXTENDS Naturals, Sequences, BluetoothPort

CONSTANTS
  Ports,       \* streams the audio framework may open on this session
  NumCookies,  \* kObserversCookieSize (16 in the code)
  MaxDeaths,   \* bound on the deaths of the stack's process
  MaxRequests  \* bound on the requests the stack has not answered


VARIABLES
  encoding,     \* the session is an encoding one, its ports output streams
  now,          \* the running process of the stack, by number
  hosts,        \* those whose provider holds their stack_iface_
  requests,     \* calls of the session the running stack has not answered
  streaming,    \* the running stack sends audio to the remote device
  stack_iface,  \* the session: whose IBluetoothAudioPort it calls, if any
  data_mq,      \*   the message queue is mapped
  audio_config, \*   there is an AudioConfiguration
  regular,      \*   history: the last session got its queue and was ended, if it
                \*   was, by its own stack
  observers,    \*   observers[c]: the port registered under cookie c, if any
  cookie,       \* cookie[p]: what port p knows of its registration
  state,        \* state[p]: its BluetoothStreamState
  pc,           \* pc[p]: where the client's operation on p is
  disabling     \* those p whose operation is A2dpSuspended=true

stack   == <<now, hosts, requests, streaming>>
session == <<encoding, stack_iface, data_mq, audio_config, regular>>
vars    == <<stack, session, observers, cookie, state, pc, disabling>>

Stacks    == 0..MaxDeaths
NoStack   == MaxDeaths + 1
Cookies   == 0..(NumCookies - 1)
Undefined == NumCookies + 1     \* kObserversCookieUndefined, never assigned
NoPort    == "no port"
OtherPort == "a HIDL port" \* registered through the middleware, for good

ASSUME BluetoothAssumption ==
  /\ NumCookies \in Nat /\ MaxDeaths \in Nat /\ MaxRequests \in Nat
  /\ NoPort \notin Ports /\ OtherPort \notin Ports

(* A definition whose name ends in an underscore and a word is never used   *)
(* by the specification: it is the next definition with a plausible bug,    *)
(* listed under "mutants" in PROJECT.json.                                  *)

Init ==
  /\ encoding \in BOOLEAN
  /\ now = 0 /\ hosts = {} /\ requests = <<>> /\ streaming = FALSE
  /\ stack_iface = NoStack /\ data_mq = FALSE /\ audio_config = FALSE
  /\ regular = TRUE
  /\ \E taken \in 0..NumCookies :
       observers = [c \in Cookies |-> IF c < taken THEN OtherPort ELSE NoPort]
  /\ cookie = [p \in Ports |-> Undefined]
  /\ state = [p \in Ports |-> "DISABLED"]
  /\ pc = [p \in Ports |-> "closed"]
  /\ disabling = {}

-----------------------------------------------------------------------------
(* The session.                                                             *)

IsSessionReady == stack_iface # NoStack /\ data_mq /\ audio_config

(* The ports a callback reaches: a port drops one that comes before         *)
(* RegisterStatusCback has given it its cookie.                             *)
Notified == {p \in Ports : cookie[p] \in Cookies /\ observers[cookie[p]] = p}

SessionChanged ==
  state' = [p \in Ports |-> IF p \in Notified THEN "DISABLED" ELSE state[p]]

OnSessionStarted(i) ==
  /\ UNCHANGED encoding
  /\ \/ /\ stack_iface' = i /\ data_mq' = TRUE /\ audio_config' = TRUE
        /\ SessionChanged
     \/ (* UpdateDataPath fails: the configuration is dropped, nobody is told *)
        /\ data_mq' = FALSE /\ audio_config' = FALSE
        /\ UNCHANGED <<stack_iface, state>>
  /\ regular' = data_mq'

Toggled_TooLate == FALSE
Toggled == IsSessionReady

OnSessionEnded ==
  /\ UNCHANGED encoding
  /\ stack_iface' = NoStack /\ data_mq' = FALSE /\ audio_config' = FALSE
  /\ IF Toggled THEN SessionChanged ELSE UNCHANGED state

ReportControlStatus(status) ==
  state' = [p \in Ports |->
              IF p \in Notified THEN ControlResult(state[p], status) ELSE state[p]]

-----------------------------------------------------------------------------
(* The stack (external), through the provider it opened.                    *)

StartSession ==
  /\ now \notin hosts
  /\ hosts' = hosts \cup {now}
  /\ OnSessionStarted(now)
  /\ UNCHANGED <<now, requests, streaming, observers, cookie, pc, disabling>>

StillHosting(i) == hosts \ {i}

EndSession(i) ==
  /\ i \in hosts
  /\ OnSessionEnded
  /\ regular' = (regular /\ (i = now \/ now \notin hosts))
  /\ hosts' = StillHosting(i)
  /\ streaming' = (streaming /\ i # now)
  /\ UNCHANGED <<now, requests, observers, cookie, pc, disabling>>

(* The stack dies and is started again; binder tells the provider later     *)
(* (binderDiedCallbackAidl), which then ends the session.                   *)
StackDies ==
  /\ now < MaxDeaths
  /\ now' = now + 1 /\ requests' = <<>> /\ streaming' = FALSE
  /\ UNCHANGED <<hosts, session, observers, cookie, state, pc, disabling>>

BinderDied(i) == i < now /\ EndSession(i)

(* streamStarted and streamSuspended: answers to the requests in the order  *)
(* they were made, after the session was ended too ...                      *)
StreamAnswered(status) ==
  /\ requests # <<>>
  /\ requests' = Tail(requests)
  /\ streaming' = IF status = "SUCCESS" THEN now \in hosts /\ Head(requests) = "start"
                                        ELSE streaming
  /\ IF now \in hosts THEN ReportControlStatus(status) ELSE UNCHANGED state
  /\ UNCHANGED <<now, hosts, session, observers, cookie, pc, disabling>>

(* ... and a suspend the remote device asked for.                           *)
RemoteSuspend ==
  /\ streaming /\ streaming' = FALSE
  /\ ReportControlStatus("SUCCESS")
  /\ UNCHANGED <<now, hosts, requests, session, observers, cookie, pc, disabling>>

-----------------------------------------------------------------------------
(* Opening a stream: SetUp, from init_session_type to the registration.     *)

Goto(p, l) == pc' = [pc EXCEPT ![p] = l]

SetUp(p) ==
  /\ pc[p] = "closed" /\ IsSessionReady
  /\ state' = [state EXCEPT ![p] = "STANDBY"]
  /\ Goto(p, "register")
  /\ UNCHANGED <<stack, session, observers, cookie, disabling>>

Free == {c \in Cookies : observers[c] = NoPort}

(* RegisterStatusCback takes the lowest free cookie, or gives none.         *)
RegisterStatusCback(p) ==
  /\ pc[p] = "register"
  /\ \/ \E c \in Free :
          /\ \A d \in Free : c <= d
          /\ observers' = [d \in Cookies \cup {c} |-> IF d = c THEN p ELSE observers[d]]
          /\ Goto(p, "registered")
          /\ UNCHANGED state
     \/ /\ Free = {}
        /\ Goto(p, "closed")
        /\ state' = [state EXCEPT ![p] = "DISABLED"]
        /\ UNCHANGED observers
  /\ UNCHANGED <<stack, session, cookie, disabling>>

(* cookie_ is assigned; an input stream is given up when the session has no *)
(* PCM configuration for it, and its destructor tears the port down.        *)
AssignCookie(p) ==
  /\ pc[p] = "registered"
  /\ \E c \in Cookies : observers[c] = p /\ cookie' = [cookie EXCEPT ![p] = c]
  /\ Goto(p, "opened") \/ (~encoding /\ Goto(p, "teardown"))
  /\ UNCHANGED <<stack, session, observers, state, disabling>>

Unregister_Forgotten(p) == observers
Unregister(p) == [c \in Cookies |-> IF c = cookie[p] THEN NoPort ELSE observers[c]]

TearDown(p) ==
  /\ pc[p] = "teardown"
  /\ observers' = Unregister(p)
  /\ cookie' = [cookie EXCEPT ![p] = Undefined]
  /\ state' = [state EXCEPT ![p] = "DISABLED"]
  /\ Goto(p, "closed")
  /\ UNCHANGED <<stack, session, disabling>>

-----------------------------------------------------------------------------
(* The client's operations on an open stream.                               *)

Local == <<stack, session, observers, cookie>>

Begin(p, s, next) == /\ pc[p] = "opened" /\ state[p] = s
                     /\ Goto(p, next)
                     /\ UNCHANGED <<Local, state>>

(* out_resume, the first out_write, in_read.                                *)
Resume(p) == Begin(p, "STANDBY", "set_starting") /\ UNCHANGED disabling

(* out_standby, out_pause, in_standby.                                      *)
Standby(p) == Begin(p, "STARTED", "set_suspending") /\ UNCHANGED disabling

(* out_set_parameters, "A2dpSuspended=true" on a started stream ...         *)
A2dpSuspend(p) ==
  /\ encoding
  /\ Begin(p, "STARTED", "suspend")
  /\ disabling' = disabling \cup {p}

(* ... and "A2dpSuspended=false".                                           *)
A2dpResume(p) ==
  /\ encoding /\ pc[p] = "opened" /\ state[p] = "DISABLED"
  /\ state' = [state EXCEPT ![p] = "STANDBY"]
  /\ UNCHANGED <<Local, pc, disabling>>

(* Stop: A2dpSuspended=true on a stream that is not started, "closing",     *)
(* "exiting", and the first half of adev_close_*_stream.                    *)
Stop(p, next) ==
  /\ pc[p] = "opened" /\ state[p] # "DISABLED"
  /\ state' = [state EXCEPT ![p] = "DISABLED"]
  /\ Goto(p, next)
  /\ UNCHANGED <<Local, disabling>>

SetParametersStop(p) == encoding /\ Stop(p, "stop_stream")

Close(p) == \/ Stop(p, "stop_and_close")
            \/ Begin(p, "DISABLED", "teardown") /\ UNCHANGED disabling

StopStream(p) ==
  /\ pc[p] \in {"stop_stream", "stop_and_close"}
  /\ Goto(p, IF pc[p] = "stop_stream" THEN "opened" ELSE "teardown")
  /\ streaming' = (streaming /\ ~(IsSessionReady /\ stack_iface = now))
  /\ UNCHANGED <<now, hosts, requests, session, observers, cookie, state, disabling>>

Finished(p) == IF p \in disabling THEN "disable" ELSE "opened"

(* Suspend looks at state_ once more (as Start does): it may do nothing,    *)
(* which only A2dpSuspended=true has to tell from not being called.         *)
TestAgain(p) ==
  /\ pc[p] = "suspend"
  /\ Goto(p, IF state[p] = "STARTED" THEN "set_suspending" ELSE Finished(p))
  /\ UNCHANGED <<Local, state, disabling>>

(* Start and Suspend: assign state_, call the stack, wait for the answer.   *)
SetBusy(p) ==
  /\ \/ /\ pc[p] = "set_starting"
        /\ state' = [state EXCEPT ![p] = "STARTING"] /\ Goto(p, "call_start")
     \/ /\ pc[p] = "set_suspending"
        /\ state' = [state EXCEPT ![p] = "SUSPENDING"] /\ Goto(p, "call_suspend")
  /\ UNCHANGED <<Local, disabling>>

(* StartStream, SuspendStream: false without a session or a living stack,   *)
(* or when the stack refuses.                                               *)
CallStack(p) ==
  /\ pc[p] \in {"call_start", "call_suspend"}
  /\ \/ /\ IsSessionReady /\ stack_iface = now /\ Len(requests) < MaxRequests
        /\ requests' = Append(requests, IF pc[p] = "call_start" THEN "start"
                                                                ELSE "suspend")
        /\ Goto(p, IF pc[p] = "call_start" THEN "await_start" ELSE "await_suspend")
     \/ Goto(p, Finished(p)) /\ UNCHANGED requests
  /\ UNCHANGED <<now, hosts, streaming, session, observers, cookie, state, disabling>>

Answered(p) == \/ pc[p] = "await_start" /\ state[p] # "STARTING"
               \/ pc[p] = "await_suspend" /\ state[p] # "SUSPENDING"

TimedOut_Never(p) == FALSE
TimedOut(p) == pc[p] \in {"await_start", "await_suspend"} /\ ~Answered(p)

(* CondwaitState returns: the predicate holds, or 4500 ms are over.         *)
Condwait(p) ==
  /\ Answered(p) \/ TimedOut(p)
  /\ Goto(p, Finished(p))
  /\ UNCHANGED <<Local, state, disabling>>

(* A2dpSuspended=true: SetState(DISABLED) whatever Suspend returned.        *)
Disable(p) ==
  /\ pc[p] = "disable"
  /\ state' = [state EXCEPT ![p] = "DISABLED"]
  /\ disabling' = disabling \ {p}
  /\ Goto(p, "opened")
  /\ UNCHANGED Local

(* An operation that has begun goes on.                                     *)
Proceed(p) ==
  \/ RegisterStatusCback(p) \/ AssignCookie(p) \/ TearDown(p)
  \/ TestAgain(p) \/ SetBusy(p) \/ CallStack(p) \/ Condwait(p) \/ StopStream(p) \/ Disable(p)

Client(p) ==
  \/ SetUp(p) \/ Resume(p) \/ Standby(p) \/ A2dpSuspend(p) \/ A2dpResume(p)
  \/ SetParametersStop(p) \/ Close(p)

Stack ==
  \/ StartSession \/ EndSession(now) \/ StackDies \/ RemoteSuspend
  \/ \E i \in Stacks : BinderDied(i)
  \/ \E s \in Status : StreamAnswered(s)

Next == Stack \/ \E p \in Ports : Client(p) \/ Proceed(p)

Spec == Init /\ [][Next]_vars /\ \A p \in Ports : WF_vars(Proceed(p))

-----------------------------------------------------------------------------
(* Correctness.                                                             *)

TypeOK ==
  /\ encoding \in BOOLEAN /\ now \in Stacks /\ hosts \subseteq 0..now
  /\ requests \in Seq({"start", "suspend"}) /\ Len(requests) <= MaxRequests
  /\ streaming \in BOOLEAN
  /\ stack_iface \in Stacks \cup {NoStack}
  /\ data_mq \in BOOLEAN /\ audio_config \in BOOLEAN /\ regular \in BOOLEAN
  /\ observers \in [Cookies -> Ports \cup {NoPort, OtherPort}]
  /\ cookie \in [Ports -> Cookies \cup {Undefined}]
  /\ state \in [Ports -> StreamState]
  /\ pc \in [Ports -> {"closed", "register", "registered", "opened", "teardown",
                       "set_starting", "call_start", "await_start",
                       "suspend", "set_suspending", "call_suspend", "await_suspend",
                       "disable", "stop_stream", "stop_and_close"}]
  /\ disabling \subseteq Ports

(* The session never calls back into a port that was deleted, an open port  *)
(* is always called, under its own cookie, and no cookie is lost            *)
(* (RegisterStatusCback, TearDown).                                         *)
ObserversSound ==
  /\ TypeOK
  /\ \A c \in Cookies : observers[c] \in Ports =>
       /\ pc[observers[c]] \notin {"closed", "register"}
       /\ cookie[observers[c]] = IF pc[observers[c]] = "registered"
                                 THEN Undefined ELSE c
  /\ \A p \in Ports : pc[p] \notin {"closed", "register"} =>
       \E c \in Cookies : observers[c] = p /\ \A d \in Cookies \ {c} : observers[d] # p

(* The session is what it seems: while the stack hosts it, it is ready      *)
(* ("true if the Bluetooth stack has started the specified session",        *)
(* IsSessionReady), and no stream is left STARTED once it is over, although *)
(* Start and Suspend overwrite state_ without looking and answers may come  *)
(* late.  Two faults break both and are excepted: a queue that cannot be    *)
(* mapped, and an old stack's death that ends the session of the new one.   *)
SessionTrue ==
  regular =>
    /\ now \in hosts => IsSessionReady
    /\ \A p \in Ports : state[p] = "STARTED" => IsSessionReady

(* Whatever the stack does, an operation on a stream comes to its end.      *)
OperationsReturn ==
  \A p \in Ports : pc[p] \notin {"closed", "opened"} ~> pc[p] \in {"closed", "opened"}

(* What the session promises its ports: a report, which is one step here,   *)
(* reaches every registered port, and nothing else starts a stream          *)
(* (ReportControlStatus, ReportSessionStatus).                              *)
Promise == INSTANCE SessionReports WITH members <- Notified, report <- "nothing", due <- {}

EachPortTold == Promise!Spec

=============================================================================
