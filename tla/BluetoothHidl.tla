---------------------------- MODULE BluetoothHidl ----------------------------
(***************************************************************************)
(* The legacy (HIDL) ports of the Bluetooth audio HAL.  They register with  *)
(* the HIDL session of their type, which either keeps them itself or, when  *)
(* the AIDL service is there, is a shell around HidlToAidlMiddleware:       *)
(*                                                                         *)
(*   port --- HIDL session --- middleware --- AIDL session --- stack        *)
(*                             legacy_callback_table                        *)
(*                                                                         *)
(* The middleware registers callbacks of its own with the AIDL session and  *)
(* finds the port's in a table by the cookie.  The table is filled after    *)
(* the registration and emptied after its end, without the session's mutex; *)
(* a report to the observers holds that mutex from its first callback to    *)
(* its last.                                                                *)
(***************************************************************************)
EXTENDS Naturals, BluetoothPort

CONSTANTS
  Ports,      \* legacy ports that may be opened on this session
  NumCookies  \* kObserversCookieSize (16 in the code)

VARIABLES
  aidl,      \* IsAidlAvailable, decided once per process
  hosted,    \* the stack has started the session and not ended it
  ready,     \* IsSessionReady
  mapped,    \* history: the last session was accepted and its queue mapped
  observers, \* observers_ of the session: who is registered under a cookie
  legacy,    \* legacy_callback_table: the port whose callbacks it holds
  contested, \* history: the ports that were registered under a cookie whose
             \* entry in that table another one had still to erase
  report,    \* what is being reported, if anything
  left,      \* the cookies it has still to be reported to
  found,     \* the cookie whose entry the running callback has found
  claimed,   \* claimed[p]: the cookie the registration of p returned
  cookie,    \* cookie_ of the ports
  state,     \* state_ of the ports
  pc         \* where the client's operation on p is

session == <<aidl, hosted, ready, mapped>>
tables  == <<observers, legacy, contested>>
reports == <<report, left, found>>
port    == <<claimed, cookie, state>>
vars    == <<session, tables, reports, port, pc>>

Cookies   == 0..(NumCookies - 1)
Undefined == NumCookies    \* kObserversCookieUndefined
NoPort    == "no port"
OtherPort == "an AIDL port"
NoCookie  == NumCookies + 1
Nothing   == "nothing"

ASSUME HidlAssumption ==
  NumCookies \in Nat /\ NoPort \notin Ports /\ OtherPort \notin Ports

(* A definition whose name ends in an underscore and a word is never used   *)
(* by the specification: it is the next definition with a plausible bug,    *)
(* listed under "mutants" in PROJECT.json.                                  *)

Init ==
  /\ aidl \in BOOLEAN /\ hosted = FALSE /\ ready = FALSE /\ mapped = TRUE
  /\ \E taken \in 0..NumCookies :
       observers = [c \in Cookies |-> IF c < taken THEN OtherPort ELSE NoPort]
  /\ legacy = [c \in Cookies \cup {Undefined} |-> NoPort] /\ contested = {}
  /\ report = Nothing /\ left = {} /\ found = NoCookie
  /\ claimed = [p \in Ports |-> Undefined]
  /\ cookie = [p \in Ports |-> Undefined]
  /\ state = [p \in Ports |-> "DISABLED"]
  /\ pc = [p \in Ports |-> "closed"]

-----------------------------------------------------------------------------
(* The session, called by the stack (external).                             *)

SessionMutexFree_NoLock == TRUE
SessionMutexFree == report = Nothing

Report(what) == /\ report' = what
                /\ left' = {c \in Cookies : observers[c] # NoPort}

Silent == UNCHANGED <<report, left>>

(* OnSessionStarted: a session with no stack_iface or a configuration of    *)
(* another kind changes nothing; nobody is told when its queue cannot be    *)
(* mapped.                                                                  *)
OnSessionStarted ==
  /\ SessionMutexFree
  /\ hosted' = TRUE
  /\ \/ ready' = TRUE /\ mapped' = TRUE /\ Report("session changed")
     \/ ready' = FALSE /\ mapped' = FALSE /\ Silent
     \/ UNCHANGED ready /\ mapped' = FALSE /\ Silent
  /\ UNCHANGED <<aidl, tables, found, port, pc>>

Toggled == ready

OnSessionEnded ==
  /\ SessionMutexFree /\ hosted
  /\ hosted' = FALSE /\ ready' = FALSE
  /\ IF Toggled THEN Report("session changed") ELSE Silent
  /\ UNCHANGED <<aidl, mapped, tables, found, port, pc>>

ReportControlStatus(status) ==
  /\ SessionMutexFree /\ hosted
  /\ Report(status)
  /\ UNCHANGED <<session, tables, found, port, pc>>

to_hidl_status(status) == IF status = "SUCCESS" THEN status ELSE "FAILURE"

(* The port's own callback: not in use, or another cookie, and it returns.  *)
Handled(p, c) ==
  state' = IF cookie[p] # c THEN state
           ELSE [state EXCEPT ![p] = IF report = "session changed" THEN "DISABLED"
                                     ELSE ControlResult(@, to_hidl_status(report))]

Done(c) == left' = left \ {c} /\ found' = NoCookie

(* A HIDL session calls the port; an AIDL session calls the middleware,     *)
(* which looks for the port ...                                             *)
Deliver(c) ==
  /\ report # Nothing /\ found = NoCookie /\ c \in left
  /\ \/ /\ observers[c] = OtherPort
        /\ Done(c) /\ UNCHANGED state
     \/ /\ ~aidl /\ observers[c] \in Ports
        /\ Handled(observers[c], c) /\ Done(c)
     \/ /\ aidl /\ observers[c] \in Ports /\ legacy[c] = NoPort
        /\ Done(c) /\ UNCHANGED state       \* "Unknown callback invoked!"
     \/ /\ aidl /\ observers[c] \in Ports /\ legacy[c] # NoPort
        /\ found' = c /\ UNCHANGED <<left, state>>
  /\ UNCHANGED <<session, tables, report, claimed, cookie, pc>>

(* ... and indexes the table once more to call it.  If the entry has been   *)
(* erased in between, operator[] makes one that is null: the call ends the  *)
(* process, and the framework and the stack begin anew with the next one.   *)
Forward ==
  /\ found # NoCookie /\ legacy[found] # NoPort
  /\ Handled(legacy[found], found) /\ Done(found)
  /\ UNCHANGED <<session, tables, report, claimed, cookie, pc>>

CallNull ==
  /\ found # NoCookie /\ legacy[found] = NoPort
  /\ hosted' = FALSE /\ ready' = FALSE /\ mapped' = TRUE
  /\ \E taken \in 0..NumCookies :
       observers' = [c \in Cookies |-> IF c < taken THEN OtherPort ELSE NoPort]
  /\ legacy' = [c \in Cookies \cup {Undefined} |-> NoPort] /\ contested' = {}
  /\ report' = Nothing /\ left' = {} /\ found' = NoCookie
  /\ claimed' = [p \in Ports |-> Undefined]
  /\ cookie' = [p \in Ports |-> Undefined]
  /\ state' = [p \in Ports |-> "DISABLED"]
  /\ pc' = [p \in Ports |-> "closed"]
  /\ UNCHANGED aidl

Reported ==
  /\ report # Nothing /\ left = {} /\ found = NoCookie
  /\ report' = Nothing
  /\ UNCHANGED <<session, tables, left, found, port, pc>>

-----------------------------------------------------------------------------
(* Opening and closing a port: each on a thread of its own, with no lock    *)
(* that would keep two of them apart.                                       *)

Goto(p, l) == pc' = [pc EXCEPT ![p] = l]

Registering == {"register", "insert", "assign", "unregister", "erase", "clear"}

SetUp(p) ==
  /\ pc[p] = "closed" /\ ready /\ SessionMutexFree
  /\ state' = [state EXCEPT ![p] = "STANDBY"]
  /\ Goto(p, "register")
  /\ UNCHANGED <<session, tables, reports, claimed, cookie>>

Free_Any == Cookies
Free == {c \in Cookies : observers[c] = NoPort}

Register(p) ==
  /\ pc[p] = "register" /\ SessionMutexFree
  /\ \/ \E c \in Free :
          /\ \A d \in Free : c <= d
          /\ observers' = [observers EXCEPT ![c] = p]
          /\ claimed' = [claimed EXCEPT ![p] = c]
     \/ /\ Free = {}
        /\ claimed' = [claimed EXCEPT ![p] = Undefined]
        /\ UNCHANGED observers
  /\ contested' = IF \E q \in Ports : pc[q] = "erase" /\ cookie[q] = claimed'[p]
                  THEN contested \cup {p} ELSE contested \ {p}
  /\ Goto(p, IF aidl THEN "insert" ELSE "assign")
  /\ UNCHANGED <<session, legacy, reports, cookie, state>>

(* The middleware keeps the callbacks, those of a refused port too.         *)
Insert(p) ==
  /\ pc[p] = "insert"
  /\ legacy' = [legacy EXCEPT ![claimed[p]] = p]
  /\ Goto(p, "assign")
  /\ UNCHANGED <<session, observers, contested, reports, port>>

(* cookie_ is assigned; SetUp fails, and the port is deleted, without one.  *)
Assign(p) ==
  /\ pc[p] = "assign"
  /\ cookie' = [cookie EXCEPT ![p] = claimed[p]]
  /\ IF claimed[p] = Undefined
     THEN Goto(p, "closed") /\ state' = [state EXCEPT ![p] = "DISABLED"]
     ELSE Goto(p, "opened") /\ UNCHANGED state
  /\ UNCHANGED <<session, tables, reports, claimed>>

(* adev_close_*_stream: Stop, unless DISABLED, and TearDown.                *)
Close(p) ==
  /\ pc[p] = "opened"
  /\ state' = [state EXCEPT ![p] = "DISABLED"]
  /\ Goto(p, "unregister")
  /\ UNCHANGED <<session, tables, reports, claimed, cookie>>

Unregistered_Kept(p) == observers
Unregistered(p) == [observers EXCEPT ![cookie[p]] = NoPort]

Unregister(p) ==
  /\ pc[p] = "unregister" /\ SessionMutexFree
  /\ observers' = Unregistered(p)
  /\ Goto(p, IF aidl THEN "erase" ELSE "clear")
  /\ UNCHANGED <<session, legacy, contested, reports, port>>

(* Whosever the entry is by now.                                            *)
Erase(p) ==
  /\ pc[p] = "erase"
  /\ legacy' = [legacy EXCEPT ![cookie[p]] = NoPort]
  /\ Goto(p, "clear")
  /\ UNCHANGED <<session, observers, contested, reports, port>>

Clear(p) ==
  /\ pc[p] = "clear"
  /\ cookie' = [cookie EXCEPT ![p] = Undefined]
  /\ Goto(p, "closed")
  /\ UNCHANGED <<session, tables, reports, claimed, state>>

-----------------------------------------------------------------------------
(* Start, Suspend and Stop, and A2dpSuspended=false, on an open port.       *)

Local == UNCHANGED <<session, tables, reports, claimed, cookie>>

Begin(p, from, to) ==
  /\ pc[p] = "opened" /\ state[p] = from
  /\ state' = [state EXCEPT ![p] = to]
  /\ Goto(p, "call") /\ Local

Start(p)   == Begin(p, "STANDBY", "STARTING")
Suspend(p) == Begin(p, "STARTED", "SUSPENDING")

Stop(p) ==
  /\ pc[p] = "opened" /\ SessionMutexFree
  /\ state' = [state EXCEPT ![p] = "DISABLED"]
  /\ UNCHANGED pc /\ Local

Enable(p) ==
  /\ pc[p] = "opened" /\ state[p] = "DISABLED"
  /\ state' = [state EXCEPT ![p] = "STANDBY"]
  /\ UNCHANGED pc /\ Local

(* StartStream and SuspendStream take the session mutex; the stack may      *)
(* refuse.                                                                  *)
CallStack(p) ==
  /\ pc[p] = "call" /\ SessionMutexFree
  /\ (ready /\ Goto(p, "await")) \/ Goto(p, "opened")
  /\ UNCHANGED state /\ Local

(* CondwaitState: the answer is there, or 4500 ms are over.                 *)
TimedOut_Never(p) == state[p] \notin {"STARTING", "SUSPENDING"}
TimedOut(p) == TRUE

Condwait(p) ==
  /\ pc[p] = "await" /\ TimedOut(p)
  /\ Goto(p, "opened")
  /\ UNCHANGED state /\ Local

Proceed(p) == \/ Register(p) \/ Insert(p) \/ Assign(p)
              \/ Unregister(p) \/ Erase(p) \/ Clear(p)
              \/ CallStack(p) \/ Condwait(p)

Reporting == Forward \/ CallNull \/ Reported \/ \E c \in Cookies : Deliver(c)

Stack == \/ OnSessionStarted \/ OnSessionEnded
         \/ \E status \in Status : ReportControlStatus(status)

Client(p) == SetUp(p) \/ Close(p) \/ Start(p) \/ Suspend(p) \/ Stop(p) \/ Enable(p)

Next == Stack \/ Reporting \/ \E p \in Ports : Client(p) \/ Proceed(p)

(* Threads that wait for the session mutex get it in the end.               *)
Spec == /\ Init /\ [][Next]_vars
        /\ WF_vars(Reporting) /\ \A p \in Ports : SF_vars(Proceed(p))

-----------------------------------------------------------------------------
(* Correctness.                                                             *)

TypeOK ==
  /\ aidl \in BOOLEAN /\ hosted \in BOOLEAN /\ ready \in BOOLEAN /\ mapped \in BOOLEAN
  /\ observers \in [Cookies -> Ports \cup {NoPort, OtherPort}]
  /\ legacy \in [Cookies \cup {Undefined} -> Ports \cup {NoPort}]
  /\ contested \subseteq Ports
  /\ report \in Status \cup {"session changed", Nothing}
  /\ left \subseteq Cookies /\ found \in Cookies \cup {NoCookie}
  /\ claimed \in [Ports -> Cookies \cup {Undefined}]
  /\ cookie \in [Ports -> Cookies \cup {Undefined}]
  /\ state \in [Ports -> StreamState]
  /\ pc \in [Ports -> Registering \cup {"closed", "opened", "call", "await"}]

(* A callback reaches a port that is not deleted, through a table entry     *)
(* that is there when it is called although it was looked up before (the    *)
(* callbacks of RegisterControlResultCback, UnregisterControlResultCback);  *)
(* only what is reported to a contested port may find the entry erased.     *)
CallbacksReachLive ==
  /\ TypeOK
  /\ found # NoCookie => \/ legacy[found] \in Ports /\ pc[legacy[found]] # "closed"
                         \/ legacy[found] = NoPort /\ observers[found] \in contested
  /\ \A c \in Cookies : observers[c] \in Ports => pc[observers[c]] # "closed"

(* "will invoke session_changed_cb_ to notify those registered              *)
(* bluetooth_audio outputs": the callbacks of an open port can be found, and *)
(* no legacy stream is left STARTED once the session is over, unless the    *)
(* port is contested: a closing one may have erased its entry.              *)
OpenPortsInformed ==
  \A p \in Ports : pc[p] \in {"opened", "call", "await"} =>
    /\ observers[cookie[p]] = p
    /\ aidl /\ p \notin contested => legacy[cookie[p]] = p

StartedNeedsSession ==
  report = Nothing /\ mapped =>
    \A p \in Ports \ contested : state[p] = "STARTED" => ready

PortsTold == OpenPortsInformed /\ StartedNeedsSession

(* Reports and operations come to their end: neither the session mutex nor  *)
(* an answer that never comes blocks them for good.                         *)
OperationsReturn ==
  /\ report # Nothing ~> report = Nothing
  /\ \A p \in Ports : pc[p] \notin {"closed", "opened"} ~> pc[p] \in {"closed", "opened"}
-----------------------------------------------------------------------------
(* What the session promises its ports, whatever lies between them.  A port *)
(* listens from the assignment of its cookie (what is reported while it is  *)
(* being registered may miss it) to the end of its registration, and hears  *)
(* what to_hidl_status makes of an answer.  Nothing is promised to a        *)
(* contested one.                                                           *)

Members == {p \in Ports \ contested : pc[p] \in {"opened", "call", "await", "unregister"}}
Due     == {p \in Members : cookie[p] \in left}
Heard   == IF report \in Status THEN to_hidl_status(report) ELSE report

Seen    == [p \in Ports |-> IF p \in contested THEN "DISABLED" ELSE state[p]]

Promise == INSTANCE SessionReports
             WITH members <- Members, report <- Heard, due <- Due, state <- Seen

(* Each report reaches every open port once and before the next one, and a  *)
(* stream is STARTED by a report alone, although the middleware looks the   *)
(* port up in a table that clients change without the session's mutex       *)
(* (ReportControlStatus, RegisterControlResultCback).                       *)
EachPortToldOnce == Promise!Spec

=============================================================================
