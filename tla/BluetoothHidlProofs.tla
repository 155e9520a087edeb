------------------------- MODULE BluetoothHidlProofs -------------------------
(***************************************************************************)
(* Proofs about BluetoothHidl, for any legacy ports, opened and closed in   *)
(* any order, and any number of cookies: a callback reaches a port that is  *)
(* there, and every open port is told, but for those that were registered   *)
(* under a cookie whose entry another one had still to erase.               *)
(***************************************************************************)
EXTENDS BluetoothHidl, TLAPS

InUse == {"opened", "call", "await"}

(* A port has a cookie once its registration has been told, until it is     *)
(* cleared; only the middleware has a table to insert in and erase from.    *)
CookieFits(p) ==
  /\ IF pc[p] \in InUse \cup {"unregister", "erase", "clear"}
     THEN cookie[p] \in Cookies ELSE cookie[p] = Undefined
  /\ pc[p] \in {"insert", "erase"} => aidl
CookiesFit == \A p \in Ports : CookieFits(p)

(* The cookie under which p is in the session's table, and the one of its   *)
(* entry in the middleware's.                                               *)
ObservedAs(p) == CASE pc[p] \in {"insert", "assign"} -> claimed[p]
                   [] pc[p] \in InUse \cup {"unregister"} -> cookie[p]
                   [] OTHER -> Undefined
EnteredAs(p) == CASE ~aidl -> Undefined
                  [] aidl /\ pc[p] = "assign" -> claimed[p]
                  [] aidl /\ pc[p] \in InUse \cup {"unregister", "erase"} -> cookie[p]
                  [] OTHER -> Undefined

Observed == \A p \in Ports, c \in Cookies : observers[c] = p <=> ObservedAs(p) = c

(* An entry is of a port that has not erased it; that of a port which is    *)
(* not contested is there until the port comes to erase it.                 *)
Entered  == \A p \in Ports, c \in Cookies : legacy[c] = p => EnteredAs(p) = c
Kept(p)  == aidl /\ p \notin contested /\ pc[p] \in InUse \cup {"assign", "unregister"} =>
              \A c \in Cookies : ObservedAs(p) = c => legacy[c] = p

(* Whoever is registered under the cookie of a port that has still to erase *)
(* its entry is contested.                                                  *)
Clash ==
  \A p, q \in Ports : pc[q] = "erase" /\ ObservedAs(p) = cookie[q] => p \in contested

(* A report goes to cookies that are still registered, and what it found    *)
(* in the table is still there.                                             *)
ReportSound ==
  /\ report = Nothing => left = {} /\ found = NoCookie
  /\ \A c \in left : observers[c] # NoPort
  /\ found # NoCookie => /\ aidl /\ found \in left
                         /\ observers[found] \in Ports
                         /\ legacy[found] # NoPort \/ observers[found] \in contested

(* Streams run on open ports, and a stream runs on after the session only   *)
(* until the report of its end reaches it.                                  *)
Runs(p) == state[p] \in {"STARTING", "STARTED", "SUSPENDING"} => pc[p] \in InUse
StreamSound ==
  /\ \A p \in Ports : Runs(p)
  /\ mapped /\ hosted => ready
  /\ mapped /\ ~ready => report \in {Nothing, "session changed"}
  /\ mapped /\ ~ready =>
       \A p \in Ports \ contested :
         state[p] = "STARTED" => report # Nothing /\ cookie[p] \in left

Tables == CookiesFit /\ Observed /\ Entered /\ (\A p \in Ports : Kept(p)) /\ Clash
IInv == TypeOK /\ Tables /\ ReportSound /\ StreamSound

-----------------------------------------------------------------------------
LEMMA Names ==
  /\ NoPort \notin Ports /\ OtherPort \notin Ports /\ NoPort # OtherPort
  /\ Undefined \notin Cookies /\ NoCookie \notin Cookies
<1>1. NoPort \notin Ports /\ OtherPort \notin Ports
  BY HidlAssumption
<1>2. NoPort # OtherPort
  BY DEF NoPort, OtherPort
<1>3. Undefined \notin Cookies /\ NoCookie \notin Cookies
  BY HidlAssumption DEF Undefined, NoCookie, Cookies
<1> QED
  BY <1>1, <1>2, <1>3

LEMMA InitIInv == Init => IInv
<1> SUFFICES ASSUME Init PROVE IInv
  OBVIOUS
<1>1. TypeOK
  <2>1. /\ aidl \in BOOLEAN /\ hosted \in BOOLEAN /\ ready \in BOOLEAN /\ mapped \in BOOLEAN
        /\ contested \subseteq Ports
        /\ observers \in [Cookies -> Ports \cup {NoPort, OtherPort}]
        /\ legacy \in [Cookies \cup {Undefined} -> Ports \cup {NoPort}]
        /\ report \in Status \cup {"session changed", Nothing}
        /\ left \subseteq Cookies /\ found \in Cookies \cup {NoCookie}
    BY DEF Init
  <2>2. /\ claimed \in [Ports -> Cookies \cup {Undefined}]
        /\ cookie \in [Ports -> Cookies \cup {Undefined}]
        /\ state \in [Ports -> StreamState]
        /\ pc \in [Ports -> Registering \cup {"closed", "opened", "call", "await"}]
    BY DEF Init, StreamState
  <2> QED
    BY <2>1, <2>2 DEF TypeOK
<1>2. \A p \in Ports : pc[p] = "closed" /\ cookie[p] = Undefined /\ state[p] = "DISABLED"
  BY DEF Init
<1>3. \A p \in Ports : ObservedAs(p) = Undefined /\ EnteredAs(p) = Undefined
  BY <1>2 DEF ObservedAs, EnteredAs, InUse
<1>4. \A c \in Cookies : observers[c] \notin Ports /\ legacy[c] \notin Ports
  BY Names DEF Init
<1>5. CookiesFit
  BY <1>2 DEF CookiesFit, CookieFits, InUse
<1>9. (\A p \in Ports : Kept(p)) /\ Clash
  BY <1>2 DEF Kept, Clash, InUse
<1>6. Observed /\ Entered
  BY <1>3, <1>4, Names DEF Observed, Entered
<1>7. ReportSound
  BY DEF Init, ReportSound
<1>8. StreamSound
  BY <1>2 DEF Init, StreamSound, Runs
<1> QED
  BY <1>1, <1>5, <1>6, <1>7, <1>8, <1>9 DEF IInv, Tables

(* A port in use is found by every report.                                  *)
LEMMA Listens ==
  ASSUME IInv, NEW p \in Ports, pc[p] \in InUse
  PROVE  /\ cookie[p] \in Cookies /\ observers[cookie[p]] = p
         /\ aidl /\ p \notin contested => legacy[cookie[p]] = p
<1>1. cookie[p] \in Cookies
  BY DEF IInv, Tables, CookiesFit, CookieFits
<1>2. ObservedAs(p) = cookie[p]
  BY DEF ObservedAs, InUse
<1> QED
  BY <1>1, <1>2 DEF IInv, Tables, Observed, Kept

-----------------------------------------------------------------------------
(* Steps that leave the tables alone, and steps of one port.                *)

LEMMA TablesKept ==
  ASSUME IInv, UNCHANGED <<aidl, observers, legacy, contested, claimed, cookie>>,
         \A p \in Ports : pc'[p] = pc[p] \/ (pc[p] \in InUse /\ pc'[p] \in InUse)
  PROVE  Tables'
<1>1. \A p \in Ports : /\ ObservedAs(p)' = ObservedAs(p)
                       /\ EnteredAs(p)' = EnteredAs(p)
  BY DEF ObservedAs, EnteredAs, InUse
<1>2. Observed' /\ Entered'
  BY <1>1 DEF IInv, Tables, Observed, Entered
<1>3. CookiesFit'
  BY DEF IInv, Tables, CookiesFit, CookieFits, InUse
<1>4. (\A p \in Ports : Kept(p)') /\ Clash'
  BY <1>1 DEF IInv, Tables, Kept, Clash, InUse
<1> QED
  BY <1>2, <1>3, <1>4 DEF Tables

Only(p) ==
  \A q \in Ports \ {p} : /\ pc'[q] = pc[q] /\ state'[q] = state[q]
                         /\ claimed'[q] = claimed[q] /\ cookie'[q] = cookie[q]

LEMMA OthersKept ==
  ASSUME NEW p \in Ports, Only(p), aidl' = aidl
  PROVE  \A q \in Ports \ {p} : /\ ObservedAs(q)' = ObservedAs(q)
                                /\ EnteredAs(q)' = EnteredAs(q)
BY DEF Only, ObservedAs, EnteredAs

LEMMA RestKept ==
  ASSUME IInv, NEW p \in Ports, Only(p), UNCHANGED <<aidl, legacy, contested>>,
         ObservedAs(p)' \in {ObservedAs(p), Undefined}, Kept(p)',
         pc'[p] = "erase" => /\ cookie'[p] \in Cookies
                             /\ \A q \in Ports : ObservedAs(q)' # cookie'[p]
  PROVE  (\A q \in Ports : Kept(q)') /\ Clash'
<1>1. \A q \in Ports \ {p} : ObservedAs(q)' = ObservedAs(q)
  BY OthersKept
<1>2. ASSUME NEW q \in Ports \ {p} PROVE Kept(q)'
  BY <1>1 DEF IInv, Tables, Kept, Only
<1>3. ASSUME NEW a \in Ports, NEW b \in Ports, pc'[b] = "erase", ObservedAs(a)' = cookie'[b]
      PROVE  a \in contested
  <2>1. b # p
    BY <1>3
  <2>2. pc[b] = "erase" /\ cookie'[b] = cookie[b] /\ cookie[b] # Undefined
    BY <1>3, <2>1, Names DEF Only, IInv, Tables, CookiesFit, CookieFits
  <2>3. ObservedAs(a) = cookie[b]
    BY <1>1, <1>3, <2>2
  <2> QED
    BY <2>2, <2>3 DEF IInv, Tables, Clash
<1>4. Clash'
  BY <1>3 DEF Clash
<1> QED
  BY <1>2, <1>4

LEMMA CookiesKept ==
  ASSUME CookiesFit, NEW p \in Ports, Only(p), aidl' = aidl, CookieFits(p)'
  PROVE  CookiesFit'
BY DEF CookiesFit, CookieFits, Only

LEMMA StreamsKept ==
  ASSUME StreamSound, NEW p \in Ports, Only(p),
         UNCHANGED <<hosted, ready, mapped, report, left>>, contested' = contested, Runs(p)',
         state'[p] = "STARTED" => state[p] = "STARTED" /\ cookie'[p] = cookie[p]
  PROVE  StreamSound'
<1>1. \A q \in Ports : Runs(q)'
  BY DEF StreamSound, Runs, Only
<1>2. \A q \in Ports : state'[q] = "STARTED" => state[q] = "STARTED" /\ cookie'[q] = cookie[q]
  BY DEF Only
<1> QED
  BY <1>1, <1>2 DEF StreamSound

-----------------------------------------------------------------------------
(* What the stack does.                                                     *)

StackTypes ==
  /\ hosted \in BOOLEAN /\ ready \in BOOLEAN /\ mapped \in BOOLEAN
  /\ report \in Status \cup {"session changed", Nothing} /\ left \subseteq Cookies

LEMMA StackSteps ==
  ASSUME IInv, SessionMutexFree, UNCHANGED <<aidl, tables, found, port, pc>>, StackTypes',
         (report' = Nothing /\ left' = left)
           \/ (report' # Nothing /\ left' = {c \in Cookies : observers[c] # NoPort}),
         mapped' /\ hosted' => ready',
         mapped' /\ ~ready' => /\ report' \in {Nothing, "session changed"}
                               /\ report' = Nothing => mapped /\ ~ready
  PROVE  IInv'
<1>1. /\ aidl' = aidl /\ observers' = observers /\ legacy' = legacy
      /\ contested' = contested /\ found' = found /\ claimed' = claimed /\ cookie' = cookie /\ state' = state /\ pc' = pc
  BY DEF tables, port
<1>2. report = Nothing /\ left = {} /\ found = NoCookie
  BY DEF SessionMutexFree, IInv, ReportSound
<1>3. TypeOK'
  BY <1>1 DEF IInv, TypeOK, StackTypes
<1>4. Tables'
  BY <1>1, TablesKept
<1>5. ReportSound'
  BY <1>1, <1>2 DEF ReportSound
<1>6. StreamSound'
  <2>1. \A p \in Ports : Runs(p)'
    BY <1>1 DEF IInv, StreamSound, Runs
  <2>2. ASSUME mapped', ~ready', NEW p \in Ports \ contested, state'[p] = "STARTED"
        PROVE  report' # Nothing /\ cookie'[p] \in left'
    <3>1. state[p] = "STARTED" /\ pc[p] \in InUse
      BY <1>1, <2>2 DEF IInv, StreamSound, Runs
    <3>2. report' # Nothing
      BY <1>2, <2>2, <3>1 DEF IInv, StreamSound
    <3>3. cookie[p] \in Cookies /\ observers[cookie[p]] = p
      BY <3>1, Listens
    <3> QED
      BY <1>1, <3>2, <3>3, Names
  <2> QED
    BY <1>1, <2>1, <2>2 DEF StreamSound
<1> QED
  BY <1>3, <1>4, <1>5, <1>6 DEF IInv

LEMMA StackStep == ASSUME IInv, Stack PROVE IInv'
<1>1. StackTypes /\ left \subseteq Cookies
  BY DEF IInv, TypeOK, StackTypes
<1>2. mapped /\ hosted => ready
  BY DEF IInv, StreamSound
<1>3. {c \in Cookies : observers[c] # NoPort} \subseteq Cookies
      /\ Nothing # "session changed" /\ Nothing \notin Status
  BY DEF Nothing, Status
<1>4. CASE OnSessionStarted
  <2>1. SessionMutexFree /\ UNCHANGED <<aidl, tables, found, port, pc>> /\ hosted' = TRUE
    BY <1>4 DEF OnSessionStarted
  <2>2. \/ ready' = TRUE /\ mapped' = TRUE /\ Report("session changed")
        \/ ready' \in BOOLEAN /\ mapped' = FALSE /\ Silent
    BY <1>1, <1>4 DEF OnSessionStarted, StackTypes
  <2>3. CASE ready' = TRUE /\ mapped' = TRUE /\ Report("session changed")
    BY <1>3, <2>1, <2>3, StackSteps DEF Report, StackTypes
  <2>4. CASE ready' \in BOOLEAN /\ mapped' = FALSE /\ Silent
    <3>1. report' = Nothing /\ left' = left
      BY <2>1, <2>4 DEF Silent, SessionMutexFree
    <3>2. StackTypes'
      BY <1>1, <2>1, <2>4, <3>1 DEF StackTypes
    <3> QED
      BY <2>1, <2>4, <3>1, <3>2, StackSteps
  <2> QED
    BY <2>2, <2>3, <2>4
<1>5. CASE OnSessionEnded
  <2>1. /\ SessionMutexFree /\ UNCHANGED <<aidl, tables, found, port, pc>>
        /\ hosted' = FALSE /\ ready' = FALSE /\ mapped' = mapped /\ hosted
    BY <1>5 DEF OnSessionEnded
  <2>2. CASE ready
    <3>1. report' = "session changed" /\ left' = {c \in Cookies : observers[c] # NoPort}
      BY <1>5, <2>2 DEF OnSessionEnded, Toggled, Report
    <3>2. StackTypes'
      BY <1>1, <1>3, <2>1, <3>1 DEF StackTypes
    <3> QED
      BY <1>3, <2>1, <3>1, <3>2, StackSteps
  <2>3. CASE ~ready
    <3>1. report' = Nothing /\ left' = left
      BY <1>5, <2>1, <2>3 DEF OnSessionEnded, Toggled, Silent, SessionMutexFree
    <3>2. StackTypes'
      BY <1>1, <2>1, <3>1 DEF StackTypes
    <3>3. ~mapped
      BY <1>2, <2>1, <2>3
    <3> QED
      BY <2>1, <3>1, <3>2, <3>3, StackSteps
  <2> QED
    BY <2>2, <2>3
<1>6. ASSUME NEW status \in Status, ReportControlStatus(status) PROVE IInv'
  <2>1. /\ SessionMutexFree /\ UNCHANGED <<aidl, tables, found, port, pc>>
        /\ hosted' = hosted /\ ready' = ready /\ mapped' = mapped /\ hosted
        /\ report' = status /\ left' = {c \in Cookies : observers[c] # NoPort}
    BY <1>6 DEF ReportControlStatus, session, Report
  <2>2. StackTypes'
    BY <1>1, <1>3, <2>1 DEF StackTypes
  <2>3. report' # Nothing /\ (mapped' => ready')
    BY <1>2, <1>3, <2>1
  <2> QED
    BY <2>1, <2>2, <2>3, StackSteps
<1> QED
  BY <1>4, <1>5, <1>6 DEF Stack

-----------------------------------------------------------------------------
(* What a report does.                                                      *)

(* The answer of the stack makes a stream STARTED that was STARTING only    *)
(* when it was a success.                                                   *)
LEMMA Answers ==
  ASSUME NEW s \in StreamState, NEW r
  PROVE  /\ ControlResult(s, r) \in StreamState
         /\ ControlResult(s, r) \in {"STARTING", "STARTED", "SUSPENDING"} =>
              s \in {"STARTING", "STARTED", "SUSPENDING"}
         /\ ControlResult(s, r) = "STARTED" => s = "STARTED" \/ r = "SUCCESS"
BY DEF ControlResult, StreamState

LEMMA HandledStep ==
  ASSUME IInv, NEW q \in Ports, NEW c \in Cookies, Handled(q, c),
         report # Nothing
  PROVE  /\ state' \in [Ports -> StreamState]
         /\ \A p \in Ports \ {q} : state'[p] = state[p]
         /\ cookie[q] # c => state' = state
         /\ cookie[q] = c => /\ state'[q] = "STARTED" => report # "session changed"
                             /\ state'[q] = "STARTED" => state[q] = "STARTED" \/ report = "SUCCESS"
                             /\ state'[q] \in {"STARTING", "STARTED", "SUSPENDING"} =>
                                  state[q] \in {"STARTING", "STARTED", "SUSPENDING"}
<1>1. state \in [Ports -> StreamState]
  BY DEF IInv, TypeOK
<1>2. CASE cookie[q] # c
  BY <1>1, <1>2 DEF Handled
<1>3. CASE cookie[q] = c /\ report = "session changed"
  <2>1. state' = [state EXCEPT ![q] = "DISABLED"]
    BY <1>3 DEF Handled
  <2> QED
    BY <1>1, <1>3, <2>1 DEF StreamState
<1>4. CASE cookie[q] = c /\ report # "session changed"
  <2> DEFINE new == ControlResult(state[q], to_hidl_status(report))
  <2>1. state' = [state EXCEPT ![q] = new]
    BY <1>4 DEF Handled
  <2>2. state[q] \in StreamState
    BY <1>1
  <2>3. /\ new \in StreamState
        /\ new \in {"STARTING", "STARTED", "SUSPENDING"} =>
             state[q] \in {"STARTING", "STARTED", "SUSPENDING"}
        /\ new = "STARTED" => state[q] = "STARTED" \/ to_hidl_status(report) = "SUCCESS"
    BY <2>2, Answers
  <2>4. to_hidl_status(report) = "SUCCESS" => report = "SUCCESS"
    BY DEF to_hidl_status
  <2> HIDE DEF new
  <2>5. state'[q] = new /\ state' \in [Ports -> StreamState]
        /\ \A p \in Ports \ {q} : state'[p] = state[p]
    BY <1>1, <2>1, <2>3
  <2> QED
    BY <1>4, <2>3, <2>4, <2>5
<1> QED
  BY <1>2, <1>3, <1>4

(* A cookie is done with once the port in use under it, if there is one and *)
(* it is not contested, was called.                                         *)
LEMMA DoneStep ==
  ASSUME IInv, report # Nothing, NEW c \in Cookies, Done(c),
         UNCHANGED <<session, tables, report, claimed, cookie, pc>>,
         \/ /\ state' = state
            /\ \A p \in Ports \ contested : pc[p] \in InUse => cookie[p] # c
         \/ \E q \in Ports :
              /\ Handled(q, c)
              /\ \A p \in Ports \ contested : pc[p] \in InUse /\ cookie[p] = c => p = q
  PROVE  IInv'
<1>1. /\ aidl' = aidl /\ hosted' = hosted /\ ready' = ready /\ mapped' = mapped
      /\ observers' = observers /\ legacy' = legacy /\ contested' = contested
      /\ report' = report /\ claimed' = claimed /\ cookie' = cookie /\ pc' = pc
      /\ left' = left \ {c} /\ found' = NoCookie
  BY DEF session, tables, Done
<1>2. Tables'
  BY <1>1, TablesKept
<1>3. ReportSound'
  BY <1>1 DEF IInv, ReportSound
<1>4. state' \in [Ports -> StreamState]
  BY HandledStep DEF IInv, TypeOK
<1>5. TypeOK'
  BY <1>1, <1>4 DEF IInv, TypeOK
<1>6. \A p \in Ports : state'[p] \in {"STARTING", "STARTED", "SUSPENDING"} =>
                         state[p] \in {"STARTING", "STARTED", "SUSPENDING"}
  BY HandledStep
<1>7. \A p \in Ports : Runs(p)'
  BY <1>1, <1>6 DEF IInv, StreamSound, Runs
<1>8. ASSUME mapped, ~ready, NEW p \in Ports \ contested, state'[p] = "STARTED"
      PROVE  cookie[p] \in left /\ cookie[p] # c
  <2>1. report = "session changed"
    BY <1>8 DEF IInv, StreamSound
  <2>2. state[p] = "STARTED"
    BY <1>8, <2>1, HandledStep
  <2>3. cookie[p] \in left /\ pc[p] \in InUse
    BY <1>8, <2>2 DEF IInv, StreamSound, Runs
  <2>4. cookie[p] # c
    BY <1>8, <2>1, <2>3, HandledStep
  <2> QED
    BY <2>3, <2>4
<1>9. StreamSound'
  BY <1>1, <1>7, <1>8 DEF IInv, StreamSound
<1> QED
  BY <1>2, <1>3, <1>5, <1>9 DEF IInv

LEMMA DeliverStep == ASSUME IInv, NEW c \in Cookies, Deliver(c) PROVE IInv'
<1>1. /\ report # Nothing /\ found = NoCookie /\ c \in left
      /\ UNCHANGED <<session, tables, report, claimed, cookie, pc>>
  BY DEF Deliver
<1>2. CASE observers[c] = OtherPort /\ Done(c) /\ state' = state
  <2>1. \A p \in Ports \ contested : pc[p] \in InUse => cookie[p] # c
    BY <1>2, Listens, Names
  <2> QED
    BY <1>1, <1>2, <2>1, DoneStep
<1>3. CASE ~aidl /\ observers[c] \in Ports /\ Handled(observers[c], c) /\ Done(c)
  <2>1. \A p \in Ports \ contested :
          pc[p] \in InUse /\ cookie[p] = c => p = observers[c]
    BY Listens
  <2> QED
    BY <1>1, <1>3, <2>1, DoneStep
<1>4. CASE aidl /\ observers[c] \in Ports /\ legacy[c] = NoPort /\ Done(c) /\ state' = state
  <2>1. \A p \in Ports \ contested : pc[p] \in InUse => cookie[p] # c
    BY <1>4, Listens, Names
  <2> QED
    BY <1>1, <1>4, <2>1, DoneStep
<1>5. CASE /\ aidl /\ observers[c] \in Ports /\ legacy[c] # NoPort
           /\ found' = c /\ left' = left /\ state' = state
  <2>1. /\ aidl' = aidl /\ hosted' = hosted /\ ready' = ready /\ mapped' = mapped
        /\ observers' = observers /\ legacy' = legacy /\ contested' = contested
        /\ report' = report
        /\ claimed' = claimed /\ cookie' = cookie /\ pc' = pc
    BY <1>1 DEF session, tables
  <2>2. Tables'
    BY <2>1, TablesKept
  <2>3. ReportSound'
    BY <1>1, <1>5, <2>1 DEF IInv, ReportSound
  <2>4. StreamSound'
    BY <1>5, <2>1 DEF IInv, StreamSound, Runs
  <2>5. TypeOK'
    BY <1>5, <2>1 DEF IInv, TypeOK
  <2> QED
    BY <2>2, <2>3, <2>4, <2>5 DEF IInv
<1> QED
  BY <1>2, <1>3, <1>4, <1>5 DEF Deliver

LEMMA ForwardStep == ASSUME IInv, Forward PROVE IInv'
<1>1. /\ found \in Cookies /\ aidl /\ report # Nothing
      /\ UNCHANGED <<session, tables, report, claimed, cookie, pc>>
      /\ Handled(legacy[found], found) /\ Done(found) /\ legacy[found] # NoPort
  BY DEF Forward, IInv, ReportSound, TypeOK
<1>2. legacy[found] \in Ports
  BY <1>1 DEF IInv, TypeOK
<1>3. \A p \in Ports \ contested :
        pc[p] \in InUse /\ cookie[p] = found => p = legacy[found]
  BY <1>1, Listens
<1> QED
  BY <1>1, <1>2, <1>3, DoneStep

(* The process that calls a null entry is started again.                    *)
LEMMA Anew == CallNull /\ aidl \in BOOLEAN => Init'
  BY DEF CallNull, Init

LEMMA CallNullStep == ASSUME IInv, CallNull PROVE IInv'
<1>1. Init' => IInv'
  BY InitIInv, PTL
<1> QED
  BY <1>1, Anew DEF IInv, TypeOK

LEMMA ReportedStep == ASSUME IInv, Reported PROVE IInv'
<1>1. /\ aidl' = aidl /\ hosted' = hosted /\ ready' = ready /\ mapped' = mapped
      /\ observers' = observers /\ legacy' = legacy /\ contested' = contested
      /\ report' = Nothing
      /\ claimed' = claimed /\ cookie' = cookie /\ pc' = pc /\ state' = state
      /\ left' = left /\ found' = found /\ left = {} /\ found = NoCookie
  BY DEF Reported, session, tables, port
<1>2. Tables'
  BY <1>1, TablesKept
<1>3. ReportSound' /\ StreamSound'
  BY <1>1 DEF IInv, ReportSound, StreamSound, Runs
<1>4. TypeOK'
  BY <1>1 DEF IInv, TypeOK
<1> QED
  BY <1>2, <1>3, <1>4 DEF IInv

-----------------------------------------------------------------------------
(* Opening and closing a port.                                              *)

(* A step of port p that leaves the session and its report alone, in terms  *)
(* of what becomes of p.                                                    *)
LEMMA Moves ==
  ASSUME IInv, NEW p \in Ports, NEW l, Goto(p, l),
         NEW x, cookie' = cookie \/ cookie' = [cookie EXCEPT ![p] = x],
         NEW y, claimed' = claimed \/ claimed' = [claimed EXCEPT ![p] = y],
         NEW z, state' = state \/ state' = [state EXCEPT ![p] = z]
  PROVE  Only(p) /\ pc'[p] = l
<1>1. \A q \in Ports \ {p} : pc'[q] = pc[q]
  BY DEF Goto, IInv, TypeOK
<1>2. pc'[p] = l
  BY DEF Goto, IInv, TypeOK
<1>3. \A q \in Ports \ {p} : cookie'[q] = cookie[q]
  BY DEF IInv, TypeOK
<1>4. \A q \in Ports \ {p} : claimed'[q] = claimed[q]
  BY DEF IInv, TypeOK
<1>5. \A q \in Ports \ {p} : state'[q] = state[q]
  BY DEF IInv, TypeOK
<1> QED
  BY <1>1, <1>2, <1>3, <1>4, <1>5 DEF Only

PortTypes ==
  /\ claimed \in [Ports -> Cookies \cup {Undefined}]
  /\ cookie \in [Ports -> Cookies \cup {Undefined}]
  /\ state \in [Ports -> StreamState]
  /\ pc \in [Ports -> Registering \cup {"closed", "opened", "call", "await"}]

TableTypes ==
  /\ observers \in [Cookies -> Ports \cup {NoPort, OtherPort}]
  /\ legacy \in [Cookies \cup {Undefined} -> Ports \cup {NoPort}]
  /\ contested \subseteq Ports

LEMMA TypesKept ==
  ASSUME IInv, UNCHANGED <<session, reports>>, PortTypes', TableTypes'
  PROVE  TypeOK'
BY DEF IInv, TypeOK, session, reports, PortTypes, TableTypes

LEMMA TypesHold ==
  ASSUME IInv
  PROVE  PortTypes /\ TableTypes /\ Undefined \notin Cookies
BY Names DEF IInv, TypeOK, PortTypes, TableTypes

LEMMA SetUpStep == ASSUME IInv, NEW p \in Ports, SetUp(p) PROVE IInv'
<1>1. /\ pc[p] = "closed"
      /\ state' = [state EXCEPT ![p] = "STANDBY"] /\ Goto(p, "register")
      /\ claimed' = claimed /\ cookie' = cookie
      /\ aidl' = aidl /\ hosted' = hosted /\ ready' = ready /\ mapped' = mapped
      /\ observers' = observers /\ legacy' = legacy /\ contested' = contested
      /\ report' = report /\ left' = left /\ found' = found
  BY DEF SetUp, session, tables, reports
<1>2. Only(p) /\ pc'[p] = "register"
  BY <1>1, Moves
<1>3. PortTypes' /\ TableTypes'
  BY <1>1, TypesHold DEF PortTypes, TableTypes, Goto, Registering, StreamState
<1>4. TypeOK'
  BY <1>1, <1>3, TypesKept DEF session, reports
<1>6. CookieFits(p)'
  BY <1>1, <1>2 DEF IInv, Tables, CookiesFit, CookieFits, InUse
<1>7. CookiesFit'
  BY <1>1, <1>2, <1>6, CookiesKept DEF IInv, Tables
<1>8. \A q \in Ports : ObservedAs(q)' = ObservedAs(q) /\ EnteredAs(q)' = EnteredAs(q)
  BY <1>1, <1>2, OthersKept DEF ObservedAs, EnteredAs, InUse
<1>9. Observed' /\ Entered'
  BY <1>1, <1>8 DEF IInv, Tables, Observed, Entered
<1>5. (\A q \in Ports : Kept(q)') /\ Clash'
  <2>1. Kept(p)'
    BY <1>1, <1>2, <1>8 DEF IInv, Tables, Kept, InUse
  <2> QED
    BY <1>1, <1>2, <1>8, <2>1, RestKept
<1>10. state'[p] = "STANDBY"
  BY <1>1, TypesHold DEF PortTypes
<1>11. StreamSound'
  BY <1>1, <1>2, <1>10, StreamsKept DEF IInv, Runs
<1>12. ReportSound'
  BY <1>1 DEF IInv, ReportSound
<1> QED
  BY <1>4, <1>5, <1>7, <1>9, <1>11, <1>12 DEF IInv, Tables

LEMMA RegisterStep == ASSUME IInv, NEW p \in Ports, Register(p) PROVE IInv'
<1> DEFINE next == IF aidl THEN "insert" ELSE "assign"
<1>1. /\ pc[p] = "register" /\ report = Nothing /\ Goto(p, next)
      /\ state' = state /\ cookie' = cookie /\ legacy' = legacy
      /\ aidl' = aidl /\ hosted' = hosted /\ ready' = ready /\ mapped' = mapped
      /\ report' = report /\ left' = left /\ found' = found
  BY DEF Register, SessionMutexFree, session, reports
<1>2. PICK x \in Cookies \cup {Undefined} :
        /\ claimed' = [claimed EXCEPT ![p] = x]
        /\ x \in Cookies => observers[x] = NoPort /\ observers' = [observers EXCEPT ![x] = p]
        /\ x = Undefined => observers' = observers
        /\ contested' = IF \E q \in Ports : pc[q] = "erase" /\ cookie[q] = claimed'[p]
                        THEN contested \cup {p} ELSE contested \ {p}
  BY Names DEF Register, Free
<1>3. Only(p) /\ pc'[p] = next
  BY <1>1, <1>2, Moves
<1>4. claimed'[p] = x
  BY <1>2, TypesHold DEF PortTypes
<1>5. PortTypes' /\ TableTypes'
  <2>1. claimed' \in [Ports -> Cookies \cup {Undefined}]
    BY <1>2, TypesHold DEF PortTypes
  <2>2. pc' \in [Ports -> Registering \cup {"closed", "opened", "call", "await"}]
    BY <1>1, TypesHold DEF PortTypes, Goto, Registering
  <2>3. observers' \in [Cookies -> Ports \cup {NoPort, OtherPort}]
    BY <1>2, TypesHold DEF TableTypes
  <2>4. contested' \subseteq Ports
    BY <1>2, TypesHold DEF TableTypes
  <2> QED
    BY <1>1, <2>1, <2>2, <2>3, <2>4, TypesHold DEF PortTypes, TableTypes
<1>6. TypeOK'
  BY <1>1, <1>5, TypesKept DEF session, reports
<1>8. CookieFits(p)'
  BY <1>1, <1>3 DEF IInv, Tables, CookiesFit, CookieFits, InUse
<1>9. CookiesFit'
  BY <1>1, <1>3, <1>8, CookiesKept DEF IInv, Tables
<1>10. /\ ObservedAs(p) = Undefined /\ ObservedAs(p)' = x
       /\ EnteredAs(p) = Undefined /\ (aidl => EnteredAs(p)' = Undefined)
       /\ ~aidl => EnteredAs(p)' = Undefined
  BY <1>1, <1>3, <1>4 DEF ObservedAs, EnteredAs, InUse
<1>11. \A q \in Ports \ {p} : ObservedAs(q)' = ObservedAs(q) /\ EnteredAs(q)' = EnteredAs(q)
  BY <1>1, <1>3, OthersKept
<1>7. /\ contested' \subseteq Ports
      /\ \A q \in Ports \ {p} : q \in contested' <=> q \in contested
      /\ \A q \in Ports : pc[q] = "erase" /\ cookie[q] = x => p \in contested'
  BY <1>2, <1>4, TypesHold DEF TableTypes
<1>16. Clash'
  <2> SUFFICES ASSUME NEW a \in Ports, NEW b \in Ports, pc'[b] = "erase",
                      ObservedAs(a)' = cookie'[b]
               PROVE  a \in contested'
    BY DEF Clash
  <2>1. b # p /\ pc[b] = "erase" /\ cookie'[b] = cookie[b]
    BY <1>1, <1>3 DEF Only
  <2> QED
    BY <1>7, <1>10, <1>11, <2>1 DEF IInv, Tables, Clash
<1>17. ASSUME NEW q \in Ports PROVE Kept(q)'
  <2>1. CASE q # p
    BY <1>1, <1>3, <1>7, <1>11, <2>1 DEF IInv, Tables, Kept, Only
  <2>2. CASE q = p
    BY <1>1, <1>3, <2>2 DEF Kept, InUse
  <2> QED
    BY <2>1, <2>2
<1>12. Entered'
  BY <1>1, <1>10, <1>11 DEF IInv, Tables, Entered
<1>13. Observed'
  <2> SUFFICES ASSUME NEW q \in Ports, NEW c \in Cookies
               PROVE  observers'[c] = q <=> ObservedAs(q)' = c
    BY DEF Observed
  <2>1. observers[c] = q <=> ObservedAs(q) = c
    BY DEF IInv, Tables, Observed
  <2>2. c = x => observers'[c] = p /\ observers[c] = NoPort
    BY <1>2, TypesHold DEF TableTypes
  <2>3. c # x => observers'[c] = observers[c]
    BY <1>2, TypesHold DEF TableTypes
  <2> QED
    BY <1>10, <1>11, <2>1, <2>2, <2>3, Names
<1>14. StreamSound'
  <2>1. \A q \in Ports : Runs(q)'
    BY <1>1, <1>3 DEF IInv, StreamSound, Runs, InUse, Only
  <2>2. state[p] # "STARTED"
    BY <1>1 DEF IInv, StreamSound, Runs, InUse
  <2> QED
    BY <1>1, <1>7, <2>1, <2>2 DEF IInv, StreamSound
<1>15. ReportSound'
  BY <1>1 DEF IInv, ReportSound
<1> QED
  BY <1>6, <1>9, <1>12, <1>13, <1>14, <1>15, <1>16, <1>17 DEF IInv, Tables

LEMMA InsertStep == ASSUME IInv, NEW p \in Ports, Insert(p) PROVE IInv'
<1>1. /\ pc[p] = "insert" /\ legacy' = [legacy EXCEPT ![claimed[p]] = p] /\ Goto(p, "assign")
      /\ claimed' = claimed /\ cookie' = cookie /\ state' = state
      /\ observers' = observers /\ contested' = contested
      /\ aidl' = aidl /\ hosted' = hosted /\ ready' = ready /\ mapped' = mapped
      /\ report' = report /\ left' = left /\ found' = found
  BY DEF Insert, session, reports, port
<1>2. Only(p) /\ pc'[p] = "assign" /\ aidl
  BY <1>1, Moves DEF IInv, Tables, CookiesFit, CookieFits
<1>3. PortTypes' /\ TableTypes'
  <2>1. pc' \in [Ports -> Registering \cup {"closed", "opened", "call", "await"}]
    BY <1>1, TypesHold DEF PortTypes, Goto, Registering
  <2>2. legacy' \in [Cookies \cup {Undefined} -> Ports \cup {NoPort}]
    BY <1>1, TypesHold DEF TableTypes
  <2> QED
    BY <1>1, <2>1, <2>2, TypesHold DEF PortTypes, TableTypes
<1>4. TypeOK'
  BY <1>1, <1>3, TypesKept DEF session, reports
<1>6. CookieFits(p)'
  BY <1>1, <1>2 DEF IInv, Tables, CookiesFit, CookieFits, InUse
<1>7. CookiesFit'
  BY <1>1, <1>2, <1>6, CookiesKept DEF IInv, Tables
<1>8. /\ ObservedAs(p) = claimed[p] /\ ObservedAs(p)' = claimed[p]
      /\ EnteredAs(p) = Undefined /\ EnteredAs(p)' = claimed[p]
  BY <1>1, <1>2 DEF ObservedAs, EnteredAs, InUse
<1>9. \A q \in Ports \ {p} : ObservedAs(q)' = ObservedAs(q) /\ EnteredAs(q)' = EnteredAs(q)
  BY <1>1, <1>2, OthersKept
<1>10. Observed'
  BY <1>1, <1>8, <1>9 DEF IInv, Tables, Observed
<1>11. Entered'
  <2> SUFFICES ASSUME NEW q \in Ports, NEW c \in Cookies, legacy'[c] = q
               PROVE  EnteredAs(q)' = c
    BY DEF Entered
  <2>1. CASE c = claimed[p]
    BY <1>1, <1>8, <2>1, TypesHold DEF TableTypes
  <2>2. CASE c # claimed[p]
    BY <1>1, <1>8, <1>9, <2>2, TypesHold, Names DEF TableTypes, IInv, Tables, Entered
  <2> QED
    BY <2>1, <2>2
<1>14. \A q \in Ports : ObservedAs(q)' = ObservedAs(q)
  BY <1>8, <1>9
<1>15. ASSUME NEW q \in Ports PROVE Kept(q)'
  <2> SUFFICES ASSUME q \notin contested, pc'[q] \in InUse \cup {"assign", "unregister"},
                      NEW c \in Cookies, ObservedAs(q)' = c
               PROVE  legacy'[c] = q
    BY <1>1 DEF Kept
  <2>1. CASE q = p
    BY <1>1, <1>8, <2>1, TypesHold DEF TableTypes
  <2>2. CASE q # p
    <3>1. ObservedAs(q) = c /\ observers[c] = q
      BY <1>14 DEF IInv, Tables, Observed
    <3>2. c # claimed[p]
      BY <1>8, <2>2, <3>1 DEF IInv, Tables, Observed
    <3>3. legacy[c] = q
      BY <1>2, <2>2, <3>1 DEF IInv, Tables, Kept, Only
    <3> QED
      BY <1>1, <3>2, <3>3, TypesHold DEF TableTypes
  <2> QED
    BY <2>1, <2>2
<1>16. Clash'
  BY <1>1, <1>2, <1>14 DEF IInv, Tables, Clash, Only
<1>12. StreamSound'
  BY <1>1, <1>2, StreamsKept DEF IInv, StreamSound, Runs, InUse
<1>13. ReportSound'
  <2>1. \A c \in Cookies : legacy[c] # NoPort => legacy'[c] # NoPort
    BY <1>1, TypesHold, Names DEF TableTypes
  <2>2. left \subseteq Cookies
    BY DEF IInv, TypeOK
  <2> QED
    BY <1>1, <2>1, <2>2 DEF IInv, ReportSound
<1> QED
  BY <1>4, <1>7, <1>10, <1>11, <1>12, <1>13, <1>15, <1>16 DEF IInv, Tables

LEMMA AssignStep == ASSUME IInv, NEW p \in Ports, Assign(p) PROVE IInv'
<1> DEFINE refused == claimed[p] = Undefined
           next == IF refused THEN "closed" ELSE "opened"
<1>1. /\ pc[p] = "assign" /\ cookie' = [cookie EXCEPT ![p] = claimed[p]] /\ Goto(p, next)
      /\ state' = IF refused THEN [state EXCEPT ![p] = "DISABLED"] ELSE state
      /\ claimed' = claimed /\ observers' = observers /\ legacy' = legacy /\ contested' = contested
      /\ aidl' = aidl /\ hosted' = hosted /\ ready' = ready /\ mapped' = mapped
      /\ report' = report /\ left' = left /\ found' = found
  BY DEF Assign, session, tables, reports
<1>2. Only(p) /\ pc'[p] = next
  BY <1>1, Moves
<1>3. cookie'[p] = claimed[p] /\ claimed[p] \in Cookies \cup {Undefined}
  BY <1>1, TypesHold DEF PortTypes
<1>4. PortTypes' /\ TableTypes'
  <2>1. pc' \in [Ports -> Registering \cup {"closed", "opened", "call", "await"}]
    BY <1>1, TypesHold DEF PortTypes, Goto
  <2>2. cookie' \in [Ports -> Cookies \cup {Undefined}]
    BY <1>1, <1>3, TypesHold DEF PortTypes
  <2>3. state' \in [Ports -> StreamState]
    BY <1>1, TypesHold DEF PortTypes, StreamState
  <2> QED
    BY <1>1, <2>1, <2>2, <2>3, TypesHold DEF PortTypes, TableTypes
<1>5. TypeOK'
  BY <1>1, <1>4, TypesKept DEF session, reports
<1>7. CookieFits(p)'
  BY <1>1, <1>2, <1>3 DEF CookieFits, InUse
<1>8. CookiesFit'
  BY <1>1, <1>2, <1>7, CookiesKept DEF IInv, Tables
<1>9. ObservedAs(p)' = ObservedAs(p) /\ EnteredAs(p)' = EnteredAs(p)
  BY <1>1, <1>2, <1>3 DEF ObservedAs, EnteredAs, InUse
<1>10. \A q \in Ports : ObservedAs(q)' = ObservedAs(q) /\ EnteredAs(q)' = EnteredAs(q)
  BY <1>1, <1>2, <1>9, OthersKept
<1>11. Observed' /\ Entered'
  BY <1>1, <1>10 DEF IInv, Tables, Observed, Entered
<1>6. (\A q \in Ports : Kept(q)') /\ Clash'
  <2>1. Kept(p)'
    BY <1>1, <1>2, <1>10 DEF IInv, Tables, Kept, InUse
  <2> QED
    BY <1>1, <1>2, <1>10, <2>1, RestKept
<1>12. StreamSound'
  <2>1. ~(state[p] \in {"STARTING", "STARTED", "SUSPENDING"})
    BY <1>1 DEF IInv, StreamSound, Runs, InUse
  <2>2. ~(state'[p] \in {"STARTING", "STARTED", "SUSPENDING"})
    BY <1>1, <2>1, TypesHold DEF PortTypes
  <2> QED
    BY <1>1, <1>2, <2>2, StreamsKept DEF IInv, Runs
<1>13. ReportSound'
  BY <1>1 DEF IInv, ReportSound
<1> QED
  BY <1>5, <1>6, <1>8, <1>11, <1>12, <1>13 DEF IInv, Tables

LEMMA CloseStep == ASSUME IInv, NEW p \in Ports, Close(p) PROVE IInv'
<1>1. /\ pc[p] = "opened"
      /\ state' = [state EXCEPT ![p] = "DISABLED"] /\ Goto(p, "unregister")
      /\ claimed' = claimed /\ cookie' = cookie
      /\ aidl' = aidl /\ hosted' = hosted /\ ready' = ready /\ mapped' = mapped
      /\ observers' = observers /\ legacy' = legacy /\ contested' = contested
      /\ report' = report /\ left' = left /\ found' = found
  BY DEF Close, session, tables, reports
<1>2. Only(p) /\ pc'[p] = "unregister"
  BY <1>1, Moves
<1>3. PortTypes' /\ TableTypes'
  BY <1>1, TypesHold DEF PortTypes, TableTypes, Goto, Registering, StreamState
<1>4. TypeOK'
  BY <1>1, <1>3, TypesKept DEF session, reports
<1>6. CookieFits(p)'
  BY <1>1, <1>2 DEF IInv, Tables, CookiesFit, CookieFits, InUse
<1>7. CookiesFit'
  BY <1>1, <1>2, <1>6, CookiesKept DEF IInv, Tables
<1>8. \A q \in Ports : ObservedAs(q)' = ObservedAs(q) /\ EnteredAs(q)' = EnteredAs(q)
  BY <1>1, <1>2, OthersKept DEF ObservedAs, EnteredAs, InUse
<1>9. Observed' /\ Entered'
  BY <1>1, <1>8 DEF IInv, Tables, Observed, Entered
<1>5. (\A q \in Ports : Kept(q)') /\ Clash'
  <2>1. Kept(p)'
    BY <1>1, <1>2, <1>8 DEF IInv, Tables, Kept, InUse
  <2> QED
    BY <1>1, <1>2, <1>8, <2>1, RestKept
<1>10. state'[p] = "DISABLED"
  BY <1>1, TypesHold DEF PortTypes
<1>11. StreamSound'
  BY <1>1, <1>2, <1>10, StreamsKept DEF IInv, Runs
<1>12. ReportSound'
  BY <1>1 DEF IInv, ReportSound
<1> QED
  BY <1>4, <1>5, <1>7, <1>9, <1>11, <1>12 DEF IInv, Tables

LEMMA UnregisterStep == ASSUME IInv, NEW p \in Ports, Unregister(p) PROVE IInv'
<1> DEFINE next == IF aidl THEN "erase" ELSE "clear"
<1>1. /\ pc[p] = "unregister" /\ report = Nothing /\ Goto(p, next)
      /\ observers' = [observers EXCEPT ![cookie[p]] = NoPort]
      /\ state' = state /\ cookie' = cookie /\ claimed' = claimed
      /\ legacy' = legacy /\ contested' = contested
      /\ aidl' = aidl /\ hosted' = hosted /\ ready' = ready /\ mapped' = mapped
      /\ report' = report /\ left' = left /\ found' = found
  BY DEF Unregister, Unregistered, SessionMutexFree, session, reports, port
<1>2. Only(p) /\ pc'[p] = next
  BY <1>1, Moves
<1>3. cookie[p] \in Cookies
  BY <1>1 DEF IInv, Tables, CookiesFit, CookieFits
<1>4. PortTypes' /\ TableTypes'
  <2>1. pc' \in [Ports -> Registering \cup {"closed", "opened", "call", "await"}]
    BY <1>1, TypesHold DEF PortTypes, Goto, Registering
  <2>2. observers' \in [Cookies -> Ports \cup {NoPort, OtherPort}]
    BY <1>1, TypesHold DEF TableTypes
  <2> QED
    BY <1>1, <2>1, <2>2, TypesHold DEF PortTypes, TableTypes
<1>5. TypeOK'
  BY <1>1, <1>4, TypesKept DEF session, reports
<1>7. CookieFits(p)'
  BY <1>1, <1>2, <1>3 DEF CookieFits, InUse
<1>8. CookiesFit'
  BY <1>1, <1>2, <1>7, CookiesKept DEF IInv, Tables
<1>9. /\ ObservedAs(p) = cookie[p] /\ ObservedAs(p)' = Undefined
      /\ EnteredAs(p)' = EnteredAs(p)
  BY <1>1, <1>2 DEF ObservedAs, EnteredAs, InUse
<1>10. \A q \in Ports \ {p} : ObservedAs(q)' = ObservedAs(q) /\ EnteredAs(q)' = EnteredAs(q)
  BY <1>1, <1>2, OthersKept
<1>11. Entered'
  BY <1>1, <1>9, <1>10 DEF IInv, Tables, Entered
<1>12. Observed'
  <2> SUFFICES ASSUME NEW q \in Ports, NEW c \in Cookies
               PROVE  observers'[c] = q <=> ObservedAs(q)' = c
    BY DEF Observed
  <2>1. /\ observers[c] = q <=> ObservedAs(q) = c
        /\ observers[cookie[p]] = p
    BY <1>3, <1>9 DEF IInv, Tables, Observed
  <2>2. observers'[c] = IF c = cookie[p] THEN NoPort ELSE observers[c]
    BY <1>1, <1>3, TypesHold DEF TableTypes
  <2> QED
    BY <1>9, <1>10, <2>1, <2>2, Names
<1>6. (\A q \in Ports : Kept(q)') /\ Clash'
  <2>1. Kept(p)'
    BY <1>2 DEF Kept, InUse
  <2>2. \A q \in Ports : ObservedAs(q)' # cookie[p]
    BY <1>3, <1>9, <1>10, Names DEF IInv, Tables, Observed
  <2> QED
    BY <1>1, <1>2, <1>3, <1>9, <2>1, <2>2, RestKept
<1>13. StreamSound'
  BY <1>1, <1>2, StreamsKept DEF IInv, StreamSound, Runs, InUse
<1>14. ReportSound'
  BY <1>1 DEF IInv, ReportSound
<1> QED
  BY <1>5, <1>6, <1>8, <1>11, <1>12, <1>13, <1>14 DEF IInv, Tables

LEMMA EraseStep == ASSUME IInv, NEW p \in Ports, Erase(p) PROVE IInv'
<1>1. /\ pc[p] = "erase" /\ legacy' = [legacy EXCEPT ![cookie[p]] = NoPort] /\ Goto(p, "clear")
      /\ claimed' = claimed /\ cookie' = cookie /\ state' = state
      /\ observers' = observers /\ contested' = contested
      /\ aidl' = aidl /\ hosted' = hosted /\ ready' = ready /\ mapped' = mapped
      /\ report' = report /\ left' = left /\ found' = found
  BY DEF Erase, session, reports, port
<1>2. Only(p) /\ pc'[p] = "clear" /\ aidl /\ cookie[p] \in Cookies
  BY <1>1, Moves DEF IInv, Tables, CookiesFit, CookieFits
<1>3. PortTypes' /\ TableTypes'
  <2>1. pc' \in [Ports -> Registering \cup {"closed", "opened", "call", "await"}]
    BY <1>1, TypesHold DEF PortTypes, Goto, Registering
  <2>2. legacy' \in [Cookies \cup {Undefined} -> Ports \cup {NoPort}]
    BY <1>1, TypesHold DEF TableTypes
  <2> QED
    BY <1>1, <2>1, <2>2, TypesHold DEF PortTypes, TableTypes
<1>4. TypeOK'
  BY <1>1, <1>3, TypesKept DEF session, reports
<1>6. CookieFits(p)'
  BY <1>1, <1>2 DEF CookieFits, InUse
<1>7. CookiesFit'
  BY <1>1, <1>2, <1>6, CookiesKept DEF IInv, Tables
<1>8. /\ ObservedAs(p) = Undefined /\ ObservedAs(p)' = Undefined
      /\ EnteredAs(p) = cookie[p] /\ EnteredAs(p)' = Undefined
  BY <1>1, <1>2 DEF ObservedAs, EnteredAs, InUse
<1>9. \A q \in Ports \ {p} : ObservedAs(q)' = ObservedAs(q) /\ EnteredAs(q)' = EnteredAs(q)
  BY <1>1, <1>2, OthersKept
<1>10. Observed'
  BY <1>1, <1>8, <1>9 DEF IInv, Tables, Observed
<1>11. \A c \in Cookies : legacy'[c] = IF c = cookie[p] THEN NoPort ELSE legacy[c]
  BY <1>1, <1>2, TypesHold, Names DEF TableTypes
<1>12. Entered'
  <2> SUFFICES ASSUME NEW q \in Ports, NEW c \in Cookies, legacy'[c] = q
               PROVE  EnteredAs(q)' = c
    BY DEF Entered
  <2>1. c # cookie[p] /\ legacy[c] = q
    BY <1>11, Names
  <2> QED
    BY <1>8, <1>9, <2>1 DEF IInv, Tables, Entered
<1>15. \A q \in Ports : ObservedAs(q) = cookie[p] => q \in contested
  BY <1>1 DEF IInv, Tables, Clash
<1>5. ASSUME NEW q \in Ports PROVE Kept(q)'
  <2>1. CASE q = p
    BY <1>2, <2>1 DEF Kept, InUse
  <2>2. CASE q # p
    BY <1>1, <1>2, <1>9, <1>11, <1>15, <2>2 DEF IInv, Tables, Kept, Only
  <2> QED
    BY <2>1, <2>2
<1>16. Clash'
  BY <1>1, <1>2, <1>8, <1>9 DEF IInv, Tables, Clash, Only
<1>13. StreamSound'
  BY <1>1, <1>2, StreamsKept DEF IInv, StreamSound, Runs, InUse
<1>14. ReportSound'
  <2> SUFFICES ASSUME found # NoCookie, observers[found] \notin contested
               PROVE  legacy'[found] # NoPort
    BY <1>1 DEF IInv, ReportSound
  <2>1. found \in Cookies /\ observers[found] \in Ports /\ legacy[found] # NoPort
    BY DEF IInv, ReportSound, TypeOK
  <2>2. found # cookie[p]
    BY <1>2, <1>15, <2>1 DEF IInv, Tables, Observed
  <2> QED
    BY <1>11, <2>1, <2>2
<1> QED
  BY <1>4, <1>5, <1>7, <1>10, <1>12, <1>13, <1>14, <1>16 DEF IInv, Tables

LEMMA ClearStep == ASSUME IInv, NEW p \in Ports, Clear(p) PROVE IInv'
<1>1. /\ pc[p] = "clear" /\ cookie' = [cookie EXCEPT ![p] = Undefined] /\ Goto(p, "closed")
      /\ claimed' = claimed /\ state' = state
      /\ observers' = observers /\ legacy' = legacy /\ contested' = contested
      /\ aidl' = aidl /\ hosted' = hosted /\ ready' = ready /\ mapped' = mapped
      /\ report' = report /\ left' = left /\ found' = found
  BY DEF Clear, session, tables, reports
<1>2. Only(p) /\ pc'[p] = "closed" /\ cookie'[p] = Undefined
  BY <1>1, Moves, TypesHold DEF PortTypes
<1>3. PortTypes' /\ TableTypes'
  BY <1>1, TypesHold DEF PortTypes, TableTypes, Goto
<1>4. TypeOK'
  BY <1>1, <1>3, TypesKept DEF session, reports
<1>6. CookieFits(p)'
  BY <1>2 DEF CookieFits, InUse
<1>7. CookiesFit'
  BY <1>1, <1>2, <1>6, CookiesKept DEF IInv, Tables
<1>8. \A q \in Ports : ObservedAs(q)' = ObservedAs(q) /\ EnteredAs(q)' = EnteredAs(q)
  BY <1>1, <1>2, OthersKept DEF ObservedAs, EnteredAs, InUse
<1>9. Observed' /\ Entered'
  BY <1>1, <1>8 DEF IInv, Tables, Observed, Entered
<1>5. (\A q \in Ports : Kept(q)') /\ Clash'
  <2>1. Kept(p)'
    BY <1>2 DEF Kept, InUse
  <2> QED
    BY <1>1, <1>2, <1>8, <2>1, RestKept
<1>10. StreamSound'
  BY <1>1, <1>2, StreamsKept DEF IInv, StreamSound, Runs, InUse
<1>11. ReportSound'
  BY <1>1 DEF IInv, ReportSound
<1> QED
  BY <1>4, <1>5, <1>7, <1>9, <1>10, <1>11 DEF IInv, Tables

-----------------------------------------------------------------------------
(* What runs on an open port.                                               *)

LEMMA LocalSteps ==
  ASSUME IInv, NEW p \in Ports, pc[p] \in InUse,
         NEW l \in InUse, pc' = pc \/ Goto(p, l), Local,
         NEW z \in StreamState \ {"STARTED"},
         state' = state \/ state' = [state EXCEPT ![p] = z]
  PROVE  IInv'
<1>1. /\ claimed' = claimed /\ cookie' = cookie
      /\ observers' = observers /\ legacy' = legacy /\ contested' = contested
      /\ aidl' = aidl /\ hosted' = hosted /\ ready' = ready /\ mapped' = mapped
      /\ report' = report /\ left' = left /\ found' = found
  BY DEF Local, session, tables, reports
<1>2. Only(p) /\ pc'[p] \in InUse
  <2>1. CASE pc' = pc
    BY <1>1, <2>1 DEF Only, IInv, TypeOK
  <2>2. CASE Goto(p, l)
    BY <1>1, <2>2, Moves
  <2> QED
    BY <2>1, <2>2
<1>3. PortTypes' /\ TableTypes'
  <2>1. pc' \in [Ports -> Registering \cup {"closed", "opened", "call", "await"}]
    BY TypesHold DEF PortTypes, Goto, InUse
  <2>2. state' \in [Ports -> StreamState]
    BY TypesHold DEF PortTypes
  <2> QED
    BY <1>1, <2>1, <2>2, TypesHold DEF PortTypes, TableTypes
<1>4. TypeOK'
  BY <1>1, <1>3, TypesKept DEF session, reports
<1>5. \A q \in Ports : pc'[q] = pc[q] \/ (pc[q] \in InUse /\ pc'[q] \in InUse)
  BY <1>2 DEF Only
<1>6. Tables'
  BY <1>1, <1>5, TablesKept
<1>7. state'[p] = "STARTED" => state[p] = "STARTED"
  BY TypesHold DEF PortTypes
<1>8. StreamSound'
  BY <1>1, <1>2, <1>7, StreamsKept DEF IInv, Runs
<1>9. ReportSound'
  BY <1>1 DEF IInv, ReportSound
<1> QED
  BY <1>4, <1>6, <1>8, <1>9 DEF IInv

LEMMA LocalStep ==
  ASSUME IInv, NEW p \in Ports,
         Start(p) \/ Suspend(p) \/ Stop(p) \/ Enable(p) \/ CallStack(p) \/ Condwait(p)
  PROVE  IInv'
<1> USE DEF InUse, StreamState
<1>1. CASE Start(p)
  BY <1>1, LocalSteps DEF Start, Begin
<1>2. CASE Suspend(p)
  BY <1>2, LocalSteps DEF Suspend, Begin
<1>3. CASE Stop(p)
  BY <1>3, LocalSteps DEF Stop
<1>4. CASE Enable(p)
  BY <1>4, LocalSteps DEF Enable
<1>5. CASE CallStack(p)
  BY <1>5, LocalSteps DEF CallStack
<1>6. CASE Condwait(p)
  BY <1>6, LocalSteps DEF Condwait
<1> QED
  BY <1>1, <1>2, <1>3, <1>4, <1>5, <1>6

-----------------------------------------------------------------------------
LEMMA Inductive == IInv /\ [Next]_vars => IInv'
<1> SUFFICES ASSUME IInv, [Next]_vars PROVE IInv'
  OBVIOUS
<1>1. CASE Stack
  BY <1>1, StackStep
<1>2. CASE Reporting
  BY <1>2, DeliverStep, ForwardStep, CallNullStep, ReportedStep DEF Reporting
<1>3. ASSUME NEW p \in Ports, Client(p) \/ Proceed(p) PROVE IInv'
  <2>1. CASE SetUp(p) \/ Close(p)
    BY <2>1, SetUpStep, CloseStep
  <2>2. CASE Register(p) \/ Insert(p) \/ Assign(p)
    BY <2>2, RegisterStep, InsertStep, AssignStep
  <2>3. CASE Unregister(p) \/ Erase(p) \/ Clear(p)
    BY <2>3, UnregisterStep, EraseStep, ClearStep
  <2>4. CASE Start(p) \/ Suspend(p) \/ Stop(p) \/ Enable(p) \/ CallStack(p) \/ Condwait(p)
    BY <2>4, LocalStep
  <2> QED
    BY <1>3, <2>1, <2>2, <2>3, <2>4 DEF Client, Proceed
<1>4. CASE UNCHANGED vars
  <2>1. /\ aidl' = aidl /\ hosted' = hosted /\ ready' = ready /\ mapped' = mapped
        /\ observers' = observers /\ legacy' = legacy /\ contested' = contested
        /\ report' = report /\ left' = left /\ found' = found
        /\ claimed' = claimed /\ cookie' = cookie /\ state' = state /\ pc' = pc
    BY <1>4 DEF vars, session, tables, reports, port
  <2>2. Tables'
    BY <2>1, TablesKept
  <2>3. TypeOK'
    BY <2>1 DEF IInv, TypeOK
  <2>4. ReportSound' /\ StreamSound'
    BY <2>1 DEF IInv, ReportSound, StreamSound, Runs
  <2> QED
    BY <2>2, <2>3, <2>4 DEF IInv
<1> QED
  BY <1>1, <1>2, <1>3, <1>4 DEF Next

LEMMA Invariance == Spec => []IInv
  BY Inductive, InitIInv, PTL DEF Spec

(* A callback - looked up in the middleware's table, and looked up again to *)
(* be called - reaches a port that is there, whatever is reported, opened   *)
(* and closed meanwhile; or it is called for a contested port, and finds    *)
(* none (HidlToAidlMiddleware.cpp: RegisterControlResultCback).             *)
THEOREM CallbacksLive == Spec => []CallbacksReachLive
<1>1. IInv => CallbacksReachLive
  <2> SUFFICES ASSUME IInv PROVE CallbacksReachLive
    OBVIOUS
  <2>1. ASSUME NEW p \in Ports, NEW c \in Cookies, observers[c] = p \/ legacy[c] = p
        PROVE  pc[p] # "closed"
    BY <2>1, Names DEF IInv, Tables, Observed, Entered, ObservedAs, EnteredAs, InUse
  <2>2. found # NoCookie => /\ found \in Cookies
                            /\ \/ legacy[found] \in Ports
                               \/ legacy[found] = NoPort /\ observers[found] \in contested
    BY DEF IInv, ReportSound, TypeOK
  <2> QED
    BY <2>1, <2>2 DEF CallbacksReachLive, IInv
<1> QED
  BY <1>1, Invariance, PTL

(* ... and the callbacks of an open port that is not contested can be       *)
(* found, so that no stream of such a port is left STARTED when the report  *)
(* of the session's end is over (BluetoothAudioSession::OnSessionEnded,     *)
(* ReportSessionStatus).                                                    *)
THEOREM LegacyPortsTold == Spec => []PortsTold
<1>1. IInv => OpenPortsInformed
  BY Listens DEF OpenPortsInformed, InUse
<1>2. IInv => StartedNeedsSession
  BY DEF IInv, StreamSound, StartedNeedsSession
<1>3. IInv => PortsTold
  BY <1>1, <1>2 DEF PortsTold
<1> QED
  BY <1>3, Invariance, PTL

-----------------------------------------------------------------------------
(* What the session promises its ports: SessionReports.                     *)

LEMMA MembersListen ==
  ASSUME IInv, NEW p \in Members
  PROVE  /\ p \in Ports /\ cookie[p] \in Cookies /\ observers[cookie[p]] = p
         /\ aidl => legacy[cookie[p]] = p
<1>1. p \in Ports \ contested /\ pc[p] \in InUse \cup {"unregister"}
  BY DEF Members, InUse
<1>2. cookie[p] \in Cookies
  BY <1>1 DEF IInv, Tables, CookiesFit, CookieFits
<1>3. ObservedAs(p) = cookie[p]
  BY <1>1 DEF ObservedAs, InUse
<1> QED
  BY <1>1, <1>2, <1>3 DEF IInv, Tables, Observed, Kept

(* SessionReports and BluetoothHidl have the words of BluetoothPort.        *)
LEMMA SameWords ==
  /\ Promise!StreamState = StreamState /\ Promise!Status = Status
  /\ \A s, r : Promise!ControlResult(s, r) = ControlResult(s, r)
BY DEF Promise!StreamState, StreamState, Promise!Status, Status,
       Promise!ControlResult, ControlResult

LEMMA HeardValues ==
  /\ report \in Status \cup {"session changed"} => Heard \in Status \cup {Promise!Changed}
  /\ report = Nothing <=> Heard = Promise!Nothing
BY DEF Heard, to_hidl_status, Status, Nothing, Promise!Changed, Promise!Nothing

(* The members, and under which cookies they are told, stay as they are.    *)
Still == /\ contested' = contested /\ Members' = Members
         /\ \A p \in Members : cookie'[p] = cookie[p]

(* What is seen of a change of one stream.                                  *)
LEMMA SeenChanges ==
  ASSUME IInv, contested' = contested
  PROVE  /\ state' = state => Seen' = Seen
         /\ \A p \in Ports : \A s : state' = [state EXCEPT ![p] = s] =>
              /\ p \notin contested => Seen' = [Seen EXCEPT ![p] = s]
              /\ p \in contested => Seen' = Seen
         /\ Seen \in [Ports -> StreamState]
<1>1. state \in [Ports -> StreamState]
  BY DEF IInv, TypeOK
<1> QED
  BY <1>1 DEF Seen, StreamState

LEMMA DueStays == ASSUME Still, left' = left PROVE Due' = Due
BY DEF Still, Due

LEMMA Stutters ==
  ASSUME IInv, Still, UNCHANGED <<report, left, state>> PROVE UNCHANGED Promise!reportsVars
<1>1. Heard' = Heard /\ Seen' = Seen
  BY SeenChanges DEF Heard, Still
<1> QED
  BY <1>1, DueStays DEF Still, Promise!reportsVars

LEMMA Owns ==
  ASSUME IInv, Still, UNCHANGED <<report, left>>, NEW p \in Ports,
         NEW s \in StreamState \ {"STARTED"},
         p \in contested \/ (s \in Promise!Running => p \in Members),
         state' = [state EXCEPT ![p] = s]
  PROVE  Promise!Next \/ UNCHANGED Promise!reportsVars
<1>1. Heard' = Heard
  BY DEF Heard
<1>2. CASE p \notin contested
  <2>1. Seen' = [Seen EXCEPT ![p] = s]
    BY <1>2, SeenChanges DEF Still
  <2>2. Promise!Own(p)
    BY <1>1, <1>2, <2>1, DueStays, SameWords DEF Still, Promise!Own
  <2> QED
    BY <2>2 DEF Promise!Next
<1>3. CASE p \in contested
  <2>1. Seen' = Seen
    BY <1>3, SeenChanges DEF Still
  <2> QED
    BY <1>1, <2>1, DueStays DEF Still, Promise!reportsVars
<1> QED
  BY <1>2, <1>3

LEMMA MapsInit == Init => Promise!Init
<1> SUFFICES ASSUME Init PROVE Promise!Init
  OBVIOUS
<1>1. Members = {} /\ Due = {}
  BY DEF Init, Members, Due
<1>2. report = Nothing /\ Seen = [p \in Ports |-> "DISABLED"]
  BY DEF Init, Seen
<1> QED
  BY <1>1, <1>2, HeardValues DEF Promise!Init

(* A report is issued to all members.                                       *)
LEMMA StackMaps ==
  ASSUME IInv, Stack PROVE Promise!Next \/ UNCHANGED Promise!reportsVars
<1>1. /\ report = Nothing /\ UNCHANGED <<tables, found, port, pc>>
      /\ \/ \E r \in Status \cup {"session changed"} : Report(r)
         \/ Silent
  BY DEF Stack, OnSessionStarted, OnSessionEnded, ReportControlStatus, SessionMutexFree
<1>2. cookie' = cookie /\ state' = state /\ pc' = pc /\ Still
  BY <1>1 DEF port, Still, Members, tables
<1>3. CASE Silent
  BY <1>2, <1>3, Stutters DEF Silent
<1>4. ASSUME NEW r \in Status \cup {"session changed"}, Report(r) PROVE Promise!Next
  <2>1. report' = r /\ left' = {c \in Cookies : observers[c] # NoPort}
    BY <1>4 DEF Report
  <2>2. Due' = Members
    <3>1. \A p \in Members : cookie[p] \in left'
      BY <2>1, MembersListen, Names
    <3> QED
      BY <1>2, <3>1 DEF Due, Still
  <2>3. Heard' \in Status \cup {Promise!Changed} /\ Heard = Promise!Nothing
    <3>1. Heard' = IF r \in Status THEN to_hidl_status(r) ELSE r
      BY <2>1 DEF Heard
    <3> QED
      BY <1>1, <3>1, HeardValues DEF to_hidl_status, Status, Promise!Changed
  <2>4. Promise!Issue(Heard')
    BY <1>2, <2>2, <2>3, SeenChanges DEF Promise!Issue, Still
  <2> QED
    BY <2>3, <2>4, SameWords DEF Promise!Next
<1> QED
  BY <1>1, <1>3, <1>4

(* The callback under a cookie is the member's that has it, if one has.     *)
LEMMA DoneMaps ==
  ASSUME IInv, report # Nothing, NEW c \in left, Done(c),
         UNCHANGED <<report, cookie, pc, contested>>,
         \/ state' = state /\ \A p \in Members : cookie[p] # c
         \/ \E q \in Ports : /\ Handled(q, c)
                             /\ \A p \in Members : cookie[p] = c => p = q
  PROVE  Promise!Next \/ UNCHANGED Promise!reportsVars
<1>1. Still /\ left' = left \ {c} /\ Heard' = Heard /\ Members' = Members
  BY DEF Still, Members, Done, Heard
<1>2. Due' = {p \in Due : cookie[p] # c}
  BY <1>1 DEF Due
<1>3. CASE state' = state /\ \A p \in Members : cookie[p] # c
  <2>1. Due' = Due /\ Seen' = Seen
    BY <1>2, <1>3, SeenChanges DEF Due
  <2> QED
    BY <1>1, <1>3, <2>1 DEF Promise!reportsVars
<1>4. ASSUME NEW q \in Ports, Handled(q, c), \A p \in Members : cookie[p] = c => p = q
      PROVE  Promise!Next \/ UNCHANGED Promise!reportsVars
  <2>1. CASE cookie[q] # c
    <3>1. state' = state
      BY <1>4, <2>1 DEF Handled
    <3>2. Due' = Due /\ Seen' = Seen
      BY <1>2, <1>4, <2>1, <3>1, SeenChanges DEF Due
    <3> QED
      BY <1>1, <3>2 DEF Promise!reportsVars
  <2>2. CASE cookie[q] = c /\ q \in Members
    <3>1. q \in Due /\ Due' = Due \ {q}
      BY <1>2, <1>4, <2>2 DEF Due
    <3>4. q \notin contested /\ Seen[q] = state[q]
      BY <2>2 DEF Members, Seen
    <3>2. state' = [state EXCEPT ![q] = Promise!Told(Seen[q], Heard)]
      <4>1. report \in Status \cup {"session changed"}
        BY DEF IInv, TypeOK
      <4>2. CASE report = "session changed"
        BY <1>4, <2>2, <3>4, <4>2 DEF Handled, Heard, Promise!Told, Promise!Changed, Status
      <4>3. CASE report \in Status
        <5>1. report # "session changed" /\ Heard = to_hidl_status(report)
              /\ Heard # Promise!Changed
          BY <4>3 DEF Heard, Status, to_hidl_status, Promise!Changed
        <5> QED
          BY <1>4, <2>2, <3>4, <5>1, SameWords DEF Handled, Promise!Told
      <4> QED
        BY <4>1, <4>2, <4>3
    <3>5. Seen' = [Seen EXCEPT ![q] = Promise!Told(Seen[q], Heard)]
      BY <3>2, <3>4, SeenChanges
    <3>3. Promise!Receive(q)
      BY <1>1, <3>1, <3>5 DEF Promise!Receive
    <3> QED
      BY <3>3 DEF Promise!Next
  <2>3. CASE cookie[q] = c /\ q \notin Members
    <3>1. Due' = Due
      BY <1>2, <1>4, <2>3 DEF Due
    <3>2. \E x : state' = [state EXCEPT ![q] = x]
      BY <1>4, <2>3 DEF Handled
    <3>3. CASE q \in contested
      <4>1. Seen' = Seen
        BY <3>2, <3>3, SeenChanges
      <4> QED
        BY <1>1, <3>1, <4>1 DEF Promise!reportsVars
    <3>4. CASE q \notin contested
      <4>1. c \in Cookies /\ state \in [Ports -> StreamState]
        BY DEF IInv, TypeOK
      <4>2. pc[q] \notin InUse
        BY <2>3, <3>4 DEF Members, InUse
      <4>3. state[q] \notin {"STARTING", "STARTED", "SUSPENDING"}
        BY <4>2 DEF IInv, StreamSound, Runs
      <4>4. ControlResult(state[q], to_hidl_status(report)) = state[q]
        BY <4>1, <4>3 DEF ControlResult, StreamState
      <4>5. PICK s \in {state[q], "DISABLED"} : state' = [state EXCEPT ![q] = s]
        BY <1>4, <2>3, <4>4 DEF Handled
      <4>6. s \in StreamState \ {"STARTED"} /\ s \notin Promise!Running
        BY <4>1, <4>3, <4>5 DEF StreamState, Promise!Running
      <4>7. Seen' = [Seen EXCEPT ![q] = s]
        BY <3>4, <4>5, SeenChanges
      <4>8. Promise!Own(q)
        BY <1>1, <3>1, <4>6, <4>7, SameWords DEF Promise!Own
      <4> QED
        BY <4>8 DEF Promise!Next
    <3> QED
      BY <3>3, <3>4
  <2> QED
    BY <2>1, <2>2, <2>3
<1> QED
  BY <1>3, <1>4

LEMMA ReportingMaps ==
  ASSUME IInv, Reporting PROVE Promise!Next \/ UNCHANGED Promise!reportsVars
<1>1. ASSUME NEW c \in Cookies, Deliver(c)
      PROVE  Promise!Next \/ UNCHANGED Promise!reportsVars
  <2>1. /\ report # Nothing /\ c \in left /\ UNCHANGED <<report, cookie, pc, contested>>
    BY <1>1 DEF Deliver, tables
  <2>2. CASE observers[c] = OtherPort /\ Done(c) /\ state' = state
    <3>1. \A p \in Members : cookie[p] # c
      BY <2>2, MembersListen, Names
    <3> QED
      BY <2>1, <2>2, <3>1, DoneMaps
  <2>3. CASE observers[c] \in Ports /\ Handled(observers[c], c) /\ Done(c)
    <3>1. \A p \in Members : cookie[p] = c => p = observers[c]
      BY MembersListen
    <3> QED
      BY <2>1, <2>3, <3>1, DoneMaps
  <2>4. CASE aidl /\ legacy[c] = NoPort /\ Done(c) /\ state' = state
    <3>1. \A p \in Members : cookie[p] # c
      BY <2>4, MembersListen, Names
    <3> QED
      BY <2>1, <2>4, <3>1, DoneMaps
  <2>5. CASE left' = left /\ state' = state
    <3>1. Still
      BY <2>1 DEF Still, Members
    <3> QED
      BY <2>1, <2>5, <3>1, Stutters
  <2> QED
    BY <1>1, <2>2, <2>3, <2>4, <2>5 DEF Deliver
<1>2. CASE Forward
  <2>1. /\ found \in left /\ aidl /\ report # Nothing /\ legacy[found] \in Ports
        /\ Handled(legacy[found], found) /\ Done(found)
        /\ UNCHANGED <<report, cookie, pc, contested>>
    BY <1>2 DEF Forward, IInv, ReportSound, TypeOK, tables
  <2>2. \A p \in Members : cookie[p] = found => p = legacy[found]
    BY <2>1, MembersListen
  <2> QED
    BY <2>1, <2>2, DoneMaps
<1>4. CASE CallNull
  <2>1. Init' => Promise!Init'
    BY MapsInit, PTL
  <2>2. Promise!Init'
    BY <1>4, <2>1, Anew DEF IInv, TypeOK
  <2>3. Promise!Restart
    BY <2>2 DEF Promise!Init, Promise!Restart
  <2> QED
    BY <2>3 DEF Promise!Next
<1>3. CASE Reported
  <2>1. /\ report # Nothing /\ report' = Nothing /\ left = {} /\ contested' = contested
        /\ left' = left /\ state' = state /\ cookie' = cookie /\ pc' = pc
    BY <1>3 DEF Reported, port, tables
  <2>2. Still /\ Members' = Members /\ Due = {}
    BY <2>1 DEF Still, Members, Due
  <2>3. Heard # Promise!Nothing /\ Heard' = Promise!Nothing
    BY <2>1, HeardValues DEF Heard, Nothing, Status, Promise!Nothing
  <2>4. Promise!Finish
    BY <2>1, <2>2, <2>3, DueStays, SeenChanges DEF Promise!Finish
  <2> QED
    BY <2>4 DEF Promise!Next
<1> QED
  BY <1>1, <1>2, <1>3, <1>4 DEF Reporting

(* A port whose operation goes on, with the cookies of the others kept.     *)
LEMMA OneMoves ==
  ASSUME IInv, NEW p \in Ports, NEW l, Goto(p, l), contested' = contested
  PROVE  /\ l \in InUse \cup {"unregister"} => Members' = Members \cup ({p} \ contested)
         /\ l \notin InUse \cup {"unregister"} => Members' = Members \ {p}
<1>1. pc'[p] = l /\ \A q \in Ports \ {p} : pc'[q] = pc[q]
  BY DEF Goto, IInv, TypeOK
<1> QED
  BY <1>1 DEF Members, InUse

LEMMA PortMaps ==
  ASSUME IInv, NEW p \in Ports, Client(p) \/ Proceed(p)
  PROVE  Promise!Next \/ UNCHANGED Promise!reportsVars
<1>1. p \in Members <=> p \notin contested /\ pc[p] \in InUse \cup {"unregister"}
  BY DEF Members, InUse
<1> USE DEF InUse
<1>2. CASE SetUp(p)
  <2>1. contested' = contested /\ Goto(p, "register")
    BY <1>2 DEF SetUp, tables
  <2>2. Members' = Members \ {p} /\ p \notin Members
    BY <1>1, <1>2, <2>1, OneMoves DEF SetUp
  <2>3. Still /\ UNCHANGED <<report, left>> /\ state' = [state EXCEPT ![p] = "STANDBY"]
    BY <1>2, <2>1, <2>2 DEF SetUp, Still, reports
  <2> QED
    BY <2>3, Owns DEF StreamState, Promise!Running
<1>3. CASE Close(p)
  <2>1. contested' = contested /\ Goto(p, "unregister")
    BY <1>3 DEF Close, tables
  <2>2. Members' = Members
    BY <1>1, <1>3, <2>1, OneMoves DEF Close
  <2>3. Still /\ UNCHANGED <<report, left>> /\ state' = [state EXCEPT ![p] = "DISABLED"]
    BY <1>3, <2>1, <2>2 DEF Close, Still, reports
  <2> QED
    BY <2>3, Owns DEF StreamState, Promise!Running
<1>4. CASE Insert(p) \/ Erase(p)
  <2>1. contested' = contested /\ (Goto(p, "assign") \/ Goto(p, "clear"))
    BY <1>4 DEF Insert, Erase
  <2>2. Members' = Members /\ p \notin Members
    BY <1>1, <1>4, <2>1, OneMoves DEF Insert, Erase
  <2>3. Still /\ UNCHANGED <<report, left, state>>
    BY <1>4, <2>1, <2>2 DEF Insert, Erase, Still, reports, port
  <2> QED
    BY <2>3, Stutters
<1>10. CASE Register(p)
  <2>1. /\ pc[p] = "register" /\ report = Nothing /\ state' = state /\ cookie' = cookie
        /\ report' = report /\ left' = left
    BY <1>10 DEF Register, SessionMutexFree, reports
  <2>2. \A q \in Ports \ {p} : q \in contested' <=> q \in contested
    BY <1>10 DEF Register
  <2>3. pc' \in [Ports -> {"insert", "assign"} \cup {pc[q] : q \in Ports}]
        /\ pc'[p] \in {"insert", "assign"} /\ \A q \in Ports \ {p} : pc'[q] = pc[q]
    BY <1>10 DEF Register, Goto, IInv, TypeOK
  <2>4. Members' = Members /\ p \notin Members
    <3>1. p \notin Members /\ p \notin Members'
      BY <2>1, <2>3 DEF Members
    <3>2. \A q \in Ports \ {p} : q \in Members' <=> q \in Members
      BY <2>2, <2>3 DEF Members
    <3>3. Members \subseteq Ports /\ Members' \subseteq Ports
      BY DEF Members
    <3> QED
      BY <3>1, <3>2, <3>3
  <2>5. Due' = Due /\ Heard' = Heard
    BY <2>1, <2>4 DEF Due, Heard
  <2>6. state[p] \in StreamState /\ state[p] \notin Promise!Running
    BY <2>1 DEF IInv, TypeOK, StreamSound, Runs, Promise!Running
  <2>7. PICK s \in {state[p], "DISABLED"} : Seen' = [Seen EXCEPT ![p] = s]
    <3>1. Seen' = [Seen EXCEPT ![p] = Seen'[p]] /\ Seen'[p] \in {state[p], "DISABLED"}
      BY <2>1, <2>2 DEF Seen
    <3> QED
      BY <3>1
  <2>8. s \in StreamState \ {"STARTED"} /\ s \notin Promise!Running
    BY <2>6 DEF StreamState, Promise!Running
  <2>9. Promise!Own(p)
    BY <2>4, <2>5, <2>7, <2>8, SameWords DEF Promise!Own
  <2> QED
    BY <2>9 DEF Promise!Next
<1>5. CASE Clear(p)
  <2>1. contested' = contested /\ Goto(p, "closed")
    BY <1>5 DEF Clear, tables
  <2>2. Members' = Members /\ p \notin Members
    BY <1>1, <1>5, <2>1, OneMoves DEF Clear
  <2>3. \A q \in Members : cookie'[q] = cookie[q]
    BY <1>5, <2>2 DEF Clear, Members, IInv, TypeOK
  <2>4. Still /\ UNCHANGED <<report, left, state>>
    BY <1>5, <2>1, <2>2, <2>3 DEF Clear, Still, reports
  <2> QED
    BY <2>4, Stutters
<1>6. CASE Assign(p)
  <2>1. /\ p \notin Members /\ UNCHANGED <<report, left, contested>>
        /\ cookie' = [cookie EXCEPT ![p] = claimed[p]]
    BY <1>1, <1>6 DEF Assign, reports, tables
  <2>2. \A q \in Members : cookie'[q] = cookie[q]
    BY <2>1 DEF Members, IInv, TypeOK
  <2>3. CASE claimed[p] = Undefined
    <3>1. Goto(p, "closed") /\ state' = [state EXCEPT ![p] = "DISABLED"]
      BY <1>6, <2>3 DEF Assign
    <3>2. Members' = Members \ {p}
      BY <2>1, <3>1, OneMoves
    <3>3. Still
      BY <2>1, <2>2, <3>2 DEF Still
    <3> QED
      BY <2>1, <3>1, <3>3, Owns DEF StreamState, Promise!Running
  <2>4. CASE claimed[p] # Undefined
    <3>1. Goto(p, "opened") /\ state' = state
      BY <1>6, <2>4 DEF Assign
    <3>2. Members' = Members \cup ({p} \ contested) /\ Heard' = Heard /\ Seen' = Seen
      BY <2>1, <3>1, OneMoves, SeenChanges DEF Heard
    <3>3. CASE p \in contested
      <4>1. Still
        BY <2>1, <2>2, <3>2, <3>3 DEF Still
      <4> QED
        BY <2>1, <3>1, <4>1, Stutters
    <3>4. CASE p \notin contested
      <4>1. Due' = Due \/ (left # {} /\ Due' = Due \cup {p})
        BY <2>1, <2>2, <3>2, <3>4 DEF Due
      <4>2. left # {} => Heard # Promise!Nothing
        BY HeardValues DEF IInv, ReportSound
      <4>3. Promise!Join(p)
        BY <2>1, <3>1, <3>2, <3>4, <4>1, <4>2 DEF Promise!Join
      <4> QED
        BY <4>3 DEF Promise!Next
    <3> QED
      BY <3>3, <3>4
  <2> QED
    BY <2>3, <2>4
<1>7. CASE Unregister(p)
  <2>1. /\ report = Nothing /\ pc[p] = "unregister"
        /\ UNCHANGED <<report, left, cookie, state, contested>>
        /\ Goto(p, "erase") \/ Goto(p, "clear")
    BY <1>7 DEF Unregister, SessionMutexFree, reports, port
  <2>2. Members' = Members \ {p} /\ Heard = Promise!Nothing /\ Heard' = Heard
    <3>1. Members' = Members \ {p}
      BY <2>1, OneMoves
    <3> QED
      BY <2>1, <3>1, HeardValues DEF Heard
  <2>3. CASE p \in contested
    <3>1. Members' = Members
      BY <1>1, <2>2, <2>3
    <3>2. Still
      BY <2>1, <3>1 DEF Still
    <3> QED
      BY <2>1, <3>2, Stutters
  <2>4. CASE p \notin contested
    <3>1. Due = {} /\ Due' = {}
      BY <2>1 DEF Due, IInv, ReportSound
    <3>2. Seen[p] \notin Promise!Running /\ Seen' = Seen
      BY <2>1, <2>4, SeenChanges DEF IInv, StreamSound, Runs, Promise!Running, Seen
    <3>3. Promise!Leave(p)
      BY <1>1, <2>1, <2>2, <2>4, <3>1, <3>2 DEF Promise!Leave
    <3> QED
      BY <3>3 DEF Promise!Next
  <2> QED
    BY <2>3, <2>4
<1>8. CASE Start(p) \/ Suspend(p) \/ Stop(p) \/ Enable(p)
  <2>1. /\ pc[p] \in InUse /\ UNCHANGED <<report, left, cookie, contested>>
        /\ pc' = pc \/ Goto(p, "call")
    BY <1>8 DEF Start, Suspend, Stop, Enable, Begin, Local, reports, tables
  <2>2. Still
    <3>1. CASE pc' = pc
      BY <2>1, <3>1 DEF Still, Members
    <3>2. CASE Goto(p, "call")
      <4>1. Members' = Members
        BY <1>1, <2>1, <3>2, OneMoves
      <4> QED
        BY <2>1, <4>1 DEF Still
    <3> QED
      BY <2>1, <3>1, <3>2
  <2>3. \E s \in StreamState \ {"STARTED"} : state' = [state EXCEPT ![p] = s]
    BY <1>8 DEF Start, Suspend, Stop, Enable, Begin, StreamState
  <2> QED
    BY <1>1, <2>1, <2>2, <2>3, Owns
<1>9. CASE CallStack(p) \/ Condwait(p)
  <2>1. /\ pc[p] \in InUse /\ UNCHANGED <<report, left, cookie, state, contested>>
        /\ \E l \in InUse : Goto(p, l)
    BY <1>9 DEF CallStack, Condwait, Local, reports, tables
  <2>2. Members' = Members
    BY <1>1, <2>1, OneMoves
  <2>3. Still
    BY <2>1, <2>2 DEF Still
  <2> QED
    BY <2>1, <2>3, Stutters
<1> QED
  BY <1>2, <1>3, <1>4, <1>5, <1>6, <1>7, <1>8, <1>9, <1>10 DEF Client, Proceed

(* The session keeps the promise of SessionReports, whatever lies between   *)
(* it and the port: each report reaches every port that listens and is not  *)
(* contested once, and before the next one (ReportControlStatus,            *)
(* HidlToAidlMiddleware.cpp).                                               *)
THEOREM ImplementsReports == Spec => EachPortToldOnce
<1>1. IInv /\ [Next]_vars => [Promise!Next]_Promise!reportsVars
  <2> SUFFICES ASSUME IInv, [Next]_vars PROVE [Promise!Next]_Promise!reportsVars
    OBVIOUS
  <2>1. CASE UNCHANGED vars
    <3>1. UNCHANGED <<report, left, state, cookie, pc, contested>>
      BY <2>1 DEF vars, reports, port, tables
    <3>2. Still
      BY <3>1 DEF Still, Members
    <3> QED
      BY <3>1, <3>2, Stutters
  <2> QED
    BY <2>1, StackMaps, ReportingMaps, PortMaps DEF Next
<1> QED
  BY <1>1, MapsInit, Invariance, PTL DEF Spec, EachPortToldOnce, Promise!Spec
=============================================================================
