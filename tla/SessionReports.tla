---------------------------- MODULE SessionReports ----------------------------
(***************************************************************************)
(* What a session of the Bluetooth audio HAL promises its ports: every      *)
(* answer of the stack and every change of the session is reported once to  *)
(* each port that is a member, one report after the other; and a stream is  *)
(* STARTED by a report and by nothing else.  BluetoothSession, whose        *)
(* reports are one step, and BluetoothHidl, which reports through the       *)
(* middleware, cookie by cookie, while clients go on, implement it.         *)
(***************************************************************************)
EXTENDS BluetoothPort

CONSTANT Ports

VARIABLES
  members, \* the ports that are told
  report,  \* what they are being told, if anything
  due,     \* those that are still to be told
  state    \* state_ of the ports

reportsVars == <<members, report, due, state>>

Nothing == "nothing"
Changed == "session changed"
Running == {"STARTING", "STARTED", "SUSPENDING"}

(* What a stream is after the report r.                                     *)
Told(s, r) == IF r = Changed THEN "DISABLED" ELSE ControlResult(s, r)

Init ==
  /\ members = {} /\ report = Nothing /\ due = {}
  /\ state = [p \in Ports |-> "DISABLED"]

(* A report is begun, goes to one port after the other, and is over.        *)
Issue(r) ==
  /\ report = Nothing
  /\ report' = r /\ due' = members
  /\ UNCHANGED <<members, state>>

Receive(p) ==
  /\ p \in due /\ due' = due \ {p}
  /\ state' = [state EXCEPT ![p] = Told(@, report)]
  /\ UNCHANGED <<members, report>>

Finish ==
  /\ report # Nothing /\ due = {}
  /\ report' = Nothing
  /\ UNCHANGED <<members, due, state>>

(* A report that is one step.                                               *)
Broadcast(r) ==
  /\ report = Nothing
  /\ state' = [p \in Ports |-> IF p \in members THEN Told(state[p], r) ELSE state[p]]
  /\ UNCHANGED <<members, report, due>>

(* The running report may reach a port that joins; none leaves before it    *)
(* has been told, and none leaves with a stream that runs.                  *)
Join(p) ==
  /\ p \notin members /\ members' = members \cup {p}
  /\ due' = due \/ (report # Nothing /\ due' = due \cup {p})
  /\ UNCHANGED <<report, state>>

Leave(p) ==
  /\ p \in members /\ members' = members \ {p}
  /\ report = Nothing
  /\ (state[p] \notin Running /\ UNCHANGED state) \/ state' = [state EXCEPT ![p] = "DISABLED"]
  /\ UNCHANGED <<report, due>>

(* What the client of a port does to its stream.                            *)
Own(p) ==
  /\ \E s \in StreamState \ {"STARTED"} :
       /\ s \in Running => p \in members
       /\ state' = [state EXCEPT ![p] = s]
  /\ UNCHANGED <<members, report, due>>

(* The process of the ports ends, and with it what it was told.             *)
Restart ==
  /\ members' = {} /\ report' = Nothing /\ due' = {}
  /\ state' = [p \in Ports |-> "DISABLED"]

Next ==
  \/ \E r \in Status \cup {Changed} : Issue(r) \/ Broadcast(r)
  \/ Finish \/ Restart
  \/ \E p \in Ports : Receive(p) \/ Join(p) \/ Leave(p) \/ Own(p)

Spec == Init /\ [][Next]_reportsVars
=============================================================================
