-------------------------- MODULE HidlStreamsProofs --------------------------
(***************************************************************************)
(* Proofs about the streams of the audio HIDL service, for any number of    *)
(* streams, any versions and any size of the data queues, however the calls *)
(* of binder threads overlap and whenever a client closes.                  *)
(***************************************************************************)
EXTENDS HidlStreams, FiniteSetTheorems, TLAPS

Jobs    == [op : Ops, n : 0..(Capacity + 1)]
AtMost1 == {<<>>} \cup {<<j>> : j \in Jobs}
Busy    == {"serve", "hal", "answer"}

(* The types of everything but the count, and of what the queues hold.      *)
Types ==
  /\ dev \in [live : BOOLEAN, isClosed : BOOLEAN, hal : {"open", "closed"},
              version : Versions]
  /\ dir \in [Streams -> {"out", "in"}]
  /\ obj \in [Streams -> {"none", "live", "dying"}]
  /\ call \in [Streams -> {"none", "count", "add", "wake", "halClose", "check",
                           "subtract", "join", "free"}]
  /\ hal \in [Streams -> {"open", "closed"}]
  /\ stop \in [Streams -> BOOLEAN] /\ prepared \in [Streams -> BOOLEAN]
  /\ thread \in [Streams -> {"none", "test", "wait", "read", "serve", "hal",
                             "answer", "wake", "exited"}]
  /\ now \in [Streams -> Jobs]
  /\ cmd \in [Streams -> AtMost1] /\ status \in [Streams -> AtMost1]
  /\ flags \in [Streams -> SUBSET {"NOT_EMPTY", "NOT_FULL"}]
  /\ data \in [Streams -> 0..Capacity]
  /\ client \in [Streams -> {"idle", "sent", "await", "gone"}]
  /\ mCallback \in [Streams -> BOOLEAN] /\ registered \in [Streams -> BOOLEAN]
  /\ cb \in [Streams -> {"none", "entered", "notifying"}]

(* One command is in one place: in the queue, with the worker or answered.  *)
(* A client that is idle has none under way.                                *)
OneCommand == \A s \in Streams :
  /\ cmd[s] # <<>> => status[s] = <<>> /\ thread[s] \notin Busy
  /\ thread[s] \in Busy => status[s] = <<>>
  /\ client[s] = "idle" => cmd[s] = <<>> /\ status[s] = <<>> /\ thread[s] \notin Busy

(* From doWrite and doRead to the answer the data queue is the worker's.    *)
Transferred == \A s \in Streams :
  /\ thread[s] = "hal" => /\ now[s].op = "READ"  => now[s].n + data[s] <= Capacity
                          /\ now[s].op = "WRITE" => data[s] = 0
  /\ thread[s] = "answer" => /\ now[s].op = "READ"  => now[s].n <= data[s]
                             /\ now[s].op = "WRITE" => data[s] = 0

(* The destructor has joined the worker before it frees the queues.         *)
JoinedFirst == \A s \in Streams : call[s] = "free" => thread[s] = "none"

Commanded == Types /\ OneCommand /\ Transferred /\ AnswerMatchesData /\ JoinedFirst

-----------------------------------------------------------------------------
(* Types.                                                                   *)

LEMMA Sequences1 ==
  /\ <<>> \in AtMost1
  /\ \A j \in Jobs : <<j>> \in AtMost1 /\ Head(<<j>>) = j /\ <<j>> # <<>>
  /\ \A q \in AtMost1 : q # <<>> => Head(q) \in Jobs
  /\ \A q \in AtMost1 : Len(q) <= 1
<1>1. <<>> \in AtMost1 /\ \A j \in Jobs : <<j>> \in AtMost1
  BY DEF AtMost1
<1>2. \A j : Head(<<j>>) = j /\ <<j>> # <<>> /\ Len(<<j>>) = 1
  OBVIOUS
<1>3. ASSUME NEW q \in AtMost1, q # <<>> PROVE \E j \in Jobs : q = <<j>>
  BY <1>3, Zenon DEF AtMost1
<1>4. Len(<<>>) = 0
  OBVIOUS
<1>5. \A q \in AtMost1 : q # <<>> => Head(q) \in Jobs
  BY <1>2, <1>3
<1>6. \A q \in AtMost1 : Len(q) <= 1
  <2> TAKE q \in AtMost1
  <2>1. CASE q = <<>>
    BY <2>1, <1>4
  <2>2. CASE q # <<>>
    <3>1. PICK j \in Jobs : q = <<j>>
      BY <2>2, <1>3
    <3>2. Len(q) = 1
      BY <3>1, <1>2, Zenon
    <3> QED
      BY <3>2
  <2> QED
    BY <2>1, <2>2
<1> QED
  BY <1>1, <1>2, <1>5, <1>6, Zenon

LEMMA JobTypes ==
  /\ NoJob \in Jobs
  /\ \A j \in Jobs : j.op \in Ops /\ j.n \in 0..(Capacity + 1)
  /\ \A o \in Ops, k \in 0..(Capacity + 1) : [op |-> o, n |-> k] \in Jobs
BY StreamsAssumption DEF NoJob, Jobs, Ops, Unknown

LEMMA NowChanges ==
  ASSUME now \in [Streams -> Jobs], NEW s \in Streams,
         NEW k \in 0..(Capacity + 1)
  PROVE  /\ [now EXCEPT ![s].n = k] \in [Streams -> Jobs]
         /\ [now EXCEPT ![s].n = k][s].n = k
         /\ [now EXCEPT ![s].n = k][s].op = now[s].op
<1> USE DEF Jobs
<1>1. [now EXCEPT ![s].n = k] \in [Streams -> Jobs]
  OBVIOUS
<1>2. [now EXCEPT ![s].n = k][s].n = k
  OBVIOUS
<1>3. [now EXCEPT ![s].n = k][s].op = now[s].op
  OBVIOUS
<1> HIDE DEF Jobs
<1> QED
  BY <1>1, <1>2, <1>3

LEMMA CommandTypes == ASSUME NEW s \in Streams PROVE Commands(s) \subseteq Jobs
<1>1. 0 \in 0..(Capacity + 1)
  BY StreamsAssumption
<1>2. {Position(s), Unknown, "WRITE", "READ"} \subseteq Ops
  BY DEF Position, Unknown, Ops
<1> QED
  BY <1>1, <1>2, JobTypes DEF Commands

LEMMA InitCommanded == Init => Commanded
<1> SUFFICES ASSUME Init PROVE Commanded
  OBVIOUS
<1> USE StreamsAssumption, JobTypes, Sequences1 DEF Init, All
<1>1. now \in [Streams -> Jobs]
  OBVIOUS
<1>2. cmd \in [Streams -> AtMost1] /\ status \in [Streams -> AtMost1]
  OBVIOUS
<1>3. data \in [Streams -> 0..Capacity]
  OBVIOUS
<1>4. flags \in [Streams -> SUBSET {"NOT_EMPTY", "NOT_FULL"}]
  OBVIOUS
<1>5. dev \in [live : BOOLEAN, isClosed : BOOLEAN, hal : {"open", "closed"},
               version : Versions]
  OBVIOUS
<1>6. Types
  BY <1>1, <1>2, <1>3, <1>4, <1>5 DEF Types
<1>7. OneCommand /\ Transferred /\ AnswerMatchesData /\ JoinedFirst
  BY DEF OneCommand, Transferred, AnswerMatchesData, JoinedFirst, Busy
<1> QED
  BY <1>6, <1>7 DEF Commanded

(* The steps about one stream, in groups.                                   *)
LifeStep(s)   == \/ OpenStream(s) \/ Close(s) \/ Destroy(s) \/ Prepare(s) \/ Count(s)
                 \/ Add(s) \/ Wake(s) \/ HalClose(s) \/ Check(s) \/ Subtract(s)
                 \/ Join(s) \/ Free(s)
HookStep(s)   == SetCallback(s) \/ ClearCallback(s) \/ HalCallback(s) \/ AsyncCallback(s)
WorkStep(s)   == ThreadLoop(s) \/ Spurious(s)
ClientStep(s) == ClientRequest(s) \/ ClientWake(s) \/ ClientAnswer(s)
DeviceStep    == OpenDevice \/ CloseDevice \/ DestroyDevice

LEMMA StepCases ==
  Next <=> \/ DeviceStep
           \/ \E s \in Streams :
                LifeStep(s) \/ HookStep(s) \/ WorkStep(s) \/ ClientStep(s) \/ Abort(s)
BY DEF Next, DeviceStep, LifeStep, Calls, HookStep, WorkStep, ClientStep

(* A process that ends begins anew.                                         *)
LEMMA AbortBegins == ASSUME Types, NEW s \in Streams, Abort(s) PROVE Init'
<1>1. dev' \in [live : {FALSE}, isClosed : {TRUE}, hal : {"closed"}, version : Versions]
  BY DEF Abort, Types
<1> QED
  BY <1>1 DEF Abort, Init, All

LEMMA DeviceTypes == Types /\ DeviceStep => Types'
<1> SUFFICES ASSUME Types, DeviceStep PROVE Types'
  OBVIOUS
<1>1. dev' \in [live : BOOLEAN, isClosed : BOOLEAN, hal : {"open", "closed"},
                version : Versions]
  <2>1. CASE OpenDevice
    BY <2>1 DEF OpenDevice
  <2>2. CASE CloseDevice
    BY <2>2 DEF CloseDevice, Closed, Types
  <2>3. CASE DestroyDevice
    BY <2>3 DEF DestroyDevice, Closed, Types
  <2> QED
    BY <2>1, <2>2, <2>3 DEF DeviceStep
<1>2. UNCHANGED <<life, worker, queues, hook>>
  BY DEF DeviceStep, OpenDevice, CloseDevice, DestroyDevice
<1> QED
  BY <1>1, <1>2 DEF Types, life, worker, queues, hook

LEMMA LifeTypes == ASSUME Types, NEW s \in Streams, LifeStep(s) PROVE Types'
<1> USE DEF Types, device, life, worker, queues, hook
<1>1. CASE OpenStream(s)
  BY <1>1 DEF OpenStream
<1>2. CASE Close(s)
  BY <1>2 DEF Close, Abandoned
<1>3. CASE Destroy(s)
  BY <1>3 DEF Destroy, Abandoned
<1>4. CASE Prepare(s)
  BY <1>4 DEF Prepare
<1>5. CASE Count(s) \/ Add(s)
  BY <1>5 DEF Count, Add
<1>6. CASE Wake(s)
  BY <1>6 DEF Wake, AfterWake, Request
<1>7. CASE HalClose(s)
  BY <1>7 DEF HalClose
<1>8. CASE Check(s) \/ Subtract(s)
  BY <1>8 DEF Check, Subtract
<1>9. CASE Join(s)
  BY <1>9 DEF Join
<1>10. CASE Free(s)
  <2>1. now' \in [Streams -> Jobs] /\ 0 \in 0..Capacity
    BY <1>10, JobTypes, StreamsAssumption DEF Free
  <2>2. cmd' \in [Streams -> AtMost1] /\ status' \in [Streams -> AtMost1]
    BY <1>10, Sequences1 DEF Free
  <2> QED
    BY <1>10, <2>1, <2>2 DEF Free
<1> QED
  BY <1>1, <1>2, <1>3, <1>4, <1>5, <1>6, <1>7, <1>8, <1>9, <1>10 DEF LifeStep

LEMMA HookTypes == ASSUME Types, NEW s \in Streams, HookStep(s) PROVE Types'
<1>1. UNCHANGED <<device, life, worker, queues>>
  BY DEF HookStep, SetCallback, ClearCallback, HalCallback, AsyncCallback, LoadCallback,
     CallbackReturn
<1> /\ mCallback \in [Streams -> BOOLEAN] /\ registered \in [Streams -> BOOLEAN]
    /\ cb \in [Streams -> {"none", "entered", "notifying"}]
  BY DEF Types
<1>2. mCallback' \in [Streams -> BOOLEAN] /\ registered' \in [Streams -> BOOLEAN]
  BY DEF HookStep, SetCallback, ClearCallback, HalCallback, AsyncCallback, LoadCallback,
     CallbackReturn
<1>3. cb' \in [Streams -> {"none", "entered", "notifying"}]
  BY DEF HookStep, SetCallback, ClearCallback, HalCallback, AsyncCallback, LoadCallback,
     CallbackReturn
<1>4. UNCHANGED <<dev, dir, obj, call, hal, stop, prepared, thread, now, cmd, status, flags,
                  data, client>>
  BY <1>1 DEF device, life, worker, queues
<1> QED
  BY <1>2, <1>3, <1>4 DEF Types

(* What the worker's steps leave alone, and the control of the worker.      *)
LEMMA WorkFrame ==
  ASSUME Types, NEW s \in Streams, WorkStep(s)
  PROVE  /\ UNCHANGED <<device, life, prepared, client, hook>>
         /\ thread' \in [Streams -> {"none", "test", "wait", "read", "serve", "hal",
                                      "answer", "wake", "exited"}]
         /\ flags' \in [Streams -> SUBSET {"NOT_EMPTY", "NOT_FULL"}]
<1>1. UNCHANGED <<device, life, prepared, client, hook>>
  BY DEF WorkStep, ThreadLoop, Spurious, TestStop, WaitRequest, ReadCommand, DoWrite, DoRead,
     DoGetPosition, UnknownCommand, HalReturn, Answer, WakeClient, queues
<1>2. \E pc \in {"test", "wait", "read", "serve", "hal", "answer", "wake", "exited"} :
        thread' = [thread EXCEPT ![s] = pc]
  BY DEF WorkStep, ThreadLoop, Spurious, TestStop, WaitRequest, ReadCommand, DoWrite, DoRead,
     DoGetPosition, UnknownCommand, HalReturn, Answer, WakeClient, Goto
<1>3. \/ flags' = flags
      \/ flags' = [flags EXCEPT ![s] = @ \ {Request(s)}]
      \/ flags' = [flags EXCEPT ![s] = @ \cup {Reply(s)}]
  BY DEF WorkStep, ThreadLoop, Spurious, TestStop, WaitRequest, ReadCommand, DoWrite, DoRead,
     DoGetPosition, UnknownCommand, HalReturn, Answer, WakeClient, queues
<1>4. Reply(s) \in {"NOT_EMPTY", "NOT_FULL"}
  BY DEF Reply
<1>5. thread' \in [Streams -> {"none", "test", "wait", "read", "serve", "hal",
                               "answer", "wake", "exited"}]
  BY <1>2 DEF Types
<1>6. flags' \in [Streams -> SUBSET {"NOT_EMPTY", "NOT_FULL"}]
  BY <1>3, <1>4 DEF Types
<1> QED
  BY <1>1, <1>5, <1>6

LEMMA WorkTypes == ASSUME Types, NEW s \in Streams, WorkStep(s) PROVE Types'
<1> SUFFICES /\ now' \in [Streams -> Jobs]
             /\ cmd' \in [Streams -> AtMost1] /\ status' \in [Streams -> AtMost1]
             /\ data' \in [Streams -> 0..Capacity]
  BY WorkFrame DEF Types, device, life, hook
<1> now \in [Streams -> Jobs] /\ cmd \in [Streams -> AtMost1]
    /\ status \in [Streams -> AtMost1] /\ data \in [Streams -> 0..Capacity]
  BY DEF Types
<1>1. CASE TestStop(s) \/ Spurious(s) \/ DoGetPosition(s) \/ UnknownCommand(s)
           \/ WaitRequest(s) \/ WakeClient(s)
  <2>1. UNCHANGED <<now, cmd, status, data>>
    BY <1>1 DEF TestStop, Spurious, DoGetPosition, UnknownCommand, WaitRequest, WakeClient,
       queues
  <2> QED
    BY <2>1
<1>2. CASE ReadCommand(s)
  <2>1. UNCHANGED <<status, data>>
    BY <1>2 DEF ReadCommand
  <2>2. CASE UNCHANGED <<cmd, now>>
    BY <2>1, <2>2
  <2>3. CASE cmd[s] # <<>>
    <3>1. now' \in [Streams -> Jobs]
      <4>1. Head(cmd[s]) \in Jobs
        BY <2>3, Sequences1, Zenon
      <4>2. now' = [now EXCEPT ![s] = Head(cmd[s])]
        BY <1>2, <2>3, Zenon DEF ReadCommand
      <4> QED
        BY <4>1, <4>2
    <3>2. cmd' \in [Streams -> AtMost1]
      <4>1. cmd' = [cmd EXCEPT ![s] = <<>>]
        BY <1>2, <2>3, Zenon DEF ReadCommand
      <4> QED
        BY <4>1, Sequences1
    <3> QED
      BY <2>1, <3>1, <3>2
  <2> QED
    BY <1>2, <2>2, <2>3 DEF ReadCommand
<1>3. CASE DoWrite(s)
  <2>1. data[s] \in 0..(Capacity + 1) /\ 0 \in 0..Capacity
    BY StreamsAssumption
  <2>2. now' = [now EXCEPT ![s].n = data[s]] /\ data' = [data EXCEPT ![s] = 0]
        /\ UNCHANGED <<cmd, status>>
    BY <1>3 DEF DoWrite
  <2>3. now' \in [Streams -> Jobs]
    BY <2>1, <2>2, NowChanges
  <2> QED
    BY <2>1, <2>2, <2>3
<1>4. CASE DoRead(s)
  <2>1. Truncated(now[s].n, Capacity - data[s]) \in 0..(Capacity + 1)
    <3>1. Capacity - data[s] \in 0..Capacity /\ now[s].n \in 0..(Capacity + 1)
      BY StreamsAssumption, JobTypes
    <3> QED
      BY <3>1, StreamsAssumption DEF Truncated
  <2>2. now' = [now EXCEPT ![s].n = Truncated(now[s].n, Capacity - data[s])]
        /\ UNCHANGED <<cmd, status, data>>
    BY <1>4 DEF DoRead, queues
  <2>3. now' \in [Streams -> Jobs]
    BY <2>1, <2>2, NowChanges
  <2> QED
    BY <2>2, <2>3
<1>5. CASE HalReturn(s)
  <2>1. PICK k \in 0..now[s].n :
          /\ now' = [now EXCEPT ![s].n = k]
          /\ data' = [data EXCEPT ![s] =
               IF now[s].op = "READ" /\ @ + k <= Capacity THEN @ + k ELSE @]
    BY <1>5 DEF HalReturn
  <2>2. k \in 0..(Capacity + 1) /\ k \in Nat
    BY StreamsAssumption, JobTypes
  <2>3. now' \in [Streams -> Jobs]
    BY <2>1, <2>2, NowChanges
  <2>4. data' \in [Streams -> 0..Capacity]
    BY <2>1, <2>2, StreamsAssumption
  <2>5. UNCHANGED <<cmd, status>>
    BY <1>5 DEF HalReturn
  <2> QED
    BY <2>3, <2>4, <2>5
<1>6. CASE Answer(s)
  <2>1. status' = [status EXCEPT ![s] = IF @ = <<>> THEN <<now[s]>> ELSE @]
        /\ now' = [now EXCEPT ![s] = NoJob] /\ UNCHANGED <<cmd, data>>
    BY <1>6 DEF Answer
  <2>2. status' \in [Streams -> AtMost1]
    BY <2>1, Sequences1
  <2>3. now' \in [Streams -> Jobs]
    BY <2>1, JobTypes
  <2> QED
    BY <2>1, <2>2, <2>3
<1> QED
  BY <1>1, <1>2, <1>3, <1>4, <1>5, <1>6 DEF WorkStep, ThreadLoop

LEMMA ClientTypes == ASSUME Types, NEW s \in Streams, ClientStep(s) PROVE Types'
<1>1. UNCHANGED <<device, life, worker, prepared, hook>>
  BY DEF ClientStep, ClientRequest, ClientWake, ClientAnswer
<1>2. client' \in [Streams -> {"idle", "sent", "await", "gone"}]
  <2>1. \/ client' = client
        \/ \E v \in {"idle", "sent", "await"} : client' = [client EXCEPT ![s] = v]
    BY DEF ClientStep, ClientRequest, ClientWake, ClientAnswer
  <2> QED
    BY <2>1 DEF Types
<1>3. flags' \in [Streams -> SUBSET {"NOT_EMPTY", "NOT_FULL"}]
  <2>1. \/ flags' = flags
        \/ flags' = [flags EXCEPT ![s] = @ \cup {Request(s)}]
        \/ flags' = [flags EXCEPT ![s] = @ \ {Reply(s)}]
    BY DEF ClientStep, ClientRequest, ClientWake, ClientAnswer
  <2>2. Request(s) \in {"NOT_EMPTY", "NOT_FULL"}
    BY DEF Request
  <2> QED
    BY <2>1, <2>2 DEF Types
<1>4. UNCHANGED <<dev, dir, obj, call, hal, stop, prepared, thread, now, mCallback, registered,
                  cb>>
  BY <1>1 DEF device, life, worker, hook
<1> SUFFICES /\ cmd' \in [Streams -> AtMost1] /\ status' \in [Streams -> AtMost1]
             /\ data' \in [Streams -> 0..Capacity]
  BY <1>2, <1>3, <1>4 DEF Types
<1> cmd \in [Streams -> AtMost1] /\ status \in [Streams -> AtMost1]
    /\ data \in [Streams -> 0..Capacity]
  BY DEF Types
<1>5. CASE ClientRequest(s)
  <2>1. PICK c \in Commands(s) :
          /\ cmd' = [cmd EXCEPT ![s] = <<c>>]
          /\ \E k \in IF c.op = "WRITE" THEN 0..(Capacity - data[s]) ELSE {0} :
               data' = [data EXCEPT ![s] = @ + k]
    BY <1>5 DEF ClientRequest
  <2>2. cmd' \in [Streams -> AtMost1]
    BY <2>1, CommandTypes, Sequences1
  <2>3. data' \in [Streams -> 0..Capacity]
    BY <2>1, StreamsAssumption
  <2>4. status' = status
    BY <1>5 DEF ClientRequest
  <2> QED
    BY <2>2, <2>3, <2>4
<1>6. CASE ClientWake(s)
  BY <1>6 DEF ClientWake
<1>7. CASE ClientAnswer(s)
  <2>1. cmd' = cmd
    BY <1>7 DEF ClientAnswer
  <2>2. CASE UNCHANGED <<status, data, client>>
    BY <2>1, <2>2
  <2>3. CASE status[s] # <<>>
    <3>1. status' = [status EXCEPT ![s] = <<>>]
      BY <1>7, <2>3, Zenon DEF ClientAnswer
    <3>2. status' \in [Streams -> AtMost1]
      BY <3>1, Sequences1
    <3>3. PICK k \in IF Head(status[s]).op = "READ" THEN 0..Head(status[s]).n ELSE {0} :
            k <= data[s] /\ data' = [data EXCEPT ![s] = @ - k]
      BY <1>7, <2>3 DEF ClientAnswer
    <3>4. Head(status[s]) \in Jobs
      BY <2>3, Sequences1, Zenon
    <3>5. k \in Nat
      BY <3>4, JobTypes, StreamsAssumption
    <3>6. data' \in [Streams -> 0..Capacity]
      BY <3>3, <3>5, StreamsAssumption
    <3> QED
      BY <2>1, <3>2, <3>6
  <2> QED
    BY <1>7, <2>2, <2>3 DEF ClientAnswer
<1> QED
  BY <1>5, <1>6, <1>7 DEF ClientStep

LEMMA InitTypes == Init => Types
BY InitCommanded DEF Commanded

LEMMA StepTypes == Types /\ [Next]_vars => Types'
<1> SUFFICES ASSUME Types, [Next]_vars PROVE Types'
  OBVIOUS
<1>2. ASSUME NEW s \in Streams, Abort(s) PROVE Types'
  <2>1. Init'
    BY <1>2, AbortBegins
  <2> QED
    BY <2>1, InitTypes, PTL
<1> QED
  BY <1>2, StepCases, DeviceTypes, LifeTypes, HookTypes, WorkTypes, ClientTypes
     DEF vars, Types, device, life, worker, queues, hook

-----------------------------------------------------------------------------
(* Commands and answers.                                                    *)

LEMMA LifeCommanded ==
  ASSUME Commanded, NEW s \in Streams, LifeStep(s)
  PROVE  (OneCommand /\ Transferred /\ AnswerMatchesData /\ JoinedFirst)'
<1> USE DEF Commanded, Types, OneCommand, Transferred, AnswerMatchesData, JoinedFirst, Busy,
        device, life, worker, queues, hook
<1>1. CASE Free(s)
  <2>1. thread[s] = "none"
    BY <1>1 DEF Free
  <2>2. cmd' = [cmd EXCEPT ![s] = <<>>] /\ status' = [status EXCEPT ![s] = <<>>]
        /\ client' = [client EXCEPT ![s] = "idle"] /\ data' = [data EXCEPT ![s] = 0]
        /\ now' = [now EXCEPT ![s] = NoJob] /\ thread' = thread
        /\ call' = [call EXCEPT ![s] = IF Early THEN "none" ELSE "halClose"]
    BY <1>1, Zenon DEF Free
  <2> QED
    BY <2>1, <2>2
<1>2. CASE Join(s)
  BY <1>2 DEF Join, Joined
<1>3. CASE Prepare(s)
  BY <1>3 DEF Prepare
<1>4. CASE OpenStream(s) \/ Close(s) \/ Destroy(s) \/ Count(s) \/ Add(s) \/ HalClose(s)
           \/ Check(s) \/ Subtract(s)
  BY <1>4 DEF OpenStream, Close, Destroy, Abandoned, Count, Add, HalClose, Check, Subtract
<1>5. CASE Wake(s)
  BY <1>5 DEF Wake, AfterWake
<1> QED
  BY <1>1, <1>2, <1>3, <1>4, <1>5 DEF LifeStep

LEMMA WorkCommanded ==
  ASSUME Commanded, NEW s \in Streams, WorkStep(s)
  PROVE  (OneCommand /\ Transferred /\ AnswerMatchesData /\ JoinedFirst)'
<1> USE DEF Commanded, Types, OneCommand, Transferred, AnswerMatchesData, JoinedFirst, Busy,
        Goto, device, life, worker, queues, hook
<1>1. CASE TestStop(s) \/ Spurious(s) \/ WaitRequest(s) \/ WakeClient(s)
  BY <1>1 DEF TestStop, Spurious, WaitRequest, WakeClient
<1>2. CASE ReadCommand(s)
  <2>1. CASE cmd[s] = <<>>
    BY <1>2, <2>1 DEF ReadCommand
  <2>2. CASE cmd[s] # <<>>
    <3>1. cmd' = [cmd EXCEPT ![s] = <<>>] /\ thread' = [thread EXCEPT ![s] = "serve"]
          /\ now' = [now EXCEPT ![s] = Head(cmd[s])] /\ thread[s] = "read"
          /\ UNCHANGED <<call, status, data, client>>
      BY <1>2, <2>2, Zenon DEF ReadCommand
    <3> QED
      BY <2>2, <3>1
  <2> QED
    BY <2>1, <2>2
<1>3. CASE DoWrite(s)
  <2>1. data[s] \in 0..(Capacity + 1)
    BY StreamsAssumption
  <2>2. now'[s].op = "WRITE"
    BY <1>3, <2>1 DEF DoWrite, Jobs
  <2> QED
    BY <1>3, <2>2 DEF DoWrite
<1>4. CASE DoRead(s)
  <2>1. now'[s].op = "READ" /\ now'[s].n = Truncated(now[s].n, Capacity - data[s])
    <3>1. Truncated(now[s].n, Capacity - data[s]) \in 0..(Capacity + 1)
      BY StreamsAssumption, JobTypes DEF Truncated
    <3> QED
      BY <1>4, <3>1 DEF DoRead, Jobs
  <2>2. now'[s].n + data[s] <= Capacity
    BY <2>1, StreamsAssumption, JobTypes DEF Truncated
  <2> QED
    BY <1>4, <2>1, <2>2 DEF DoRead
<1>5. CASE DoGetPosition(s)
  BY <1>5 DEF DoGetPosition, Position
<1>6. CASE UnknownCommand(s)
  BY <1>6 DEF UnknownCommand, Unknown
<1>7. CASE HalReturn(s)
  <2>1. PICK k \in 0..now[s].n :
          /\ now' = [now EXCEPT ![s].n = k]
          /\ data' = [data EXCEPT ![s] =
               IF now[s].op = "READ" /\ @ + k <= Capacity THEN @ + k ELSE @]
    BY <1>7 DEF HalReturn
  <2>2. k \in 0..(Capacity + 1) /\ k \in Nat /\ now[s].n \in Nat
    BY StreamsAssumption, JobTypes
  <2>3. now'[s].op = now[s].op /\ now'[s].n = k
    BY <2>1, <2>2, NowChanges
  <2>4. now[s].op = "READ" => now'[s].n <= data'[s]
    BY <1>7, <2>1, <2>2, <2>3, StreamsAssumption DEF HalReturn
  <2>5. now[s].op = "WRITE" => data'[s] = 0
    BY <1>7, <2>1 DEF HalReturn
  <2>6. \A u \in Streams \ {s} : now'[u] = now[u] /\ data'[u] = data[u]
    BY <2>1
  <2> QED
    BY <1>7, <2>3, <2>4, <2>5, <2>6 DEF HalReturn
<1>8. CASE Answer(s)
  <2>1. status[s] = <<>> /\ status' = [status EXCEPT ![s] = <<now[s]>>]
    BY <1>8 DEF Answer
  <2>2. Head(status'[s]) = now[s] /\ status'[s] # <<>>
    BY <2>1, Sequences1
  <2> QED
    BY <1>8, <2>1, <2>2 DEF Answer
<1> QED
  BY <1>1, <1>2, <1>3, <1>4, <1>5, <1>6, <1>7, <1>8 DEF WorkStep, ThreadLoop

LEMMA ClientCommanded ==
  ASSUME Commanded, NEW s \in Streams, ClientStep(s)
  PROVE  (OneCommand /\ Transferred /\ AnswerMatchesData /\ JoinedFirst)'
<1> USE DEF Commanded, Types, OneCommand, Transferred, AnswerMatchesData, JoinedFirst, Busy,
        device, life, worker, hook
<1>1. CASE ClientRequest(s)
  <2>1. PICK c \in Commands(s) : cmd' = [cmd EXCEPT ![s] = <<c>>]
    BY <1>1 DEF ClientRequest
  <2>2. \A u \in Streams \ {s} :
          cmd'[u] = cmd[u] /\ data'[u] = data[u] /\ client'[u] = client[u]
    BY <1>1 DEF ClientRequest
  <2>3. status[s] = <<>> /\ thread[s] \notin Busy /\ client'[s] = "sent"
        /\ UNCHANGED <<status, thread, call, now>>
    BY <1>1 DEF ClientRequest
  <2> QED
    BY <2>2, <2>3
<1>2. CASE ClientWake(s)
  BY <1>2 DEF ClientWake
<1>3. CASE ClientAnswer(s)
  <2>1. CASE status[s] = <<>>
    BY <1>3, <2>1 DEF ClientAnswer
  <2>2. CASE status[s] # <<>>
    <3>1. status' = [status EXCEPT ![s] = <<>>] /\ client' = [client EXCEPT ![s] = "idle"]
          /\ UNCHANGED <<cmd, thread, call, now>>
      BY <1>3, <2>2, Zenon DEF ClientAnswer
    <3>2. \A u \in Streams \ {s} : data'[u] = data[u]
      BY <1>3, <2>2 DEF ClientAnswer
    <3>3. cmd[s] = <<>> /\ thread[s] \notin Busy
      BY <2>2
    <3>4. /\ status'[s] = <<>>
          /\ \A u \in Streams \ {s} : status'[u] = status[u] /\ client'[u] = client[u]
      BY <3>1
    <3>5. client'[s] = "idle"
      BY <3>1
    <3>6. OneCommand'
      BY <3>1, <3>3, <3>4, <3>5
    <3>7. AnswerMatchesData'
      <4>1. ASSUME NEW u \in Streams, status'[u] # <<>>
            PROVE  u # s /\ status'[u] = status[u] /\ data'[u] = data[u]
        BY <3>2, <3>4, <4>1, Zenon
      <4>2. ASSUME NEW u \in Streams, status'[u] # <<>>
            PROVE  LET a == Head(status[u]) IN
                     /\ a.op = "WRITE" => data[u] = 0
                     /\ a.op = "READ"  => a.n <= data[u]
        BY <4>1, <4>2, Zenon
      <4> QED
        BY <4>1, <4>2, Zenon
    <3>8. ASSUME NEW u \in Streams, thread[u] \in Busy PROVE u # s
      BY <3>3, <3>8
    <3>9. Transferred'
      <4>1. \A u \in Streams : (thread[u] = "hal" \/ thread[u] = "answer") => data'[u] = data[u]
        BY <3>2, <3>8
      <4>2. thread' = thread /\ now' = now
        BY <3>1
      <4> QED
        BY <4>1, <4>2
    <3> QED
      BY <3>1, <3>6, <3>7, <3>9
  <2> QED
    BY <2>1, <2>2
<1> QED
  BY <1>1, <1>2, <1>3 DEF ClientStep

LEMMA StepCommanded == Commanded /\ [Next]_vars => Commanded'
<1> SUFFICES ASSUME Commanded, [Next]_vars PROVE Commanded'
  OBVIOUS
<1>1. Types'
  BY StepTypes DEF Commanded
<1>2. CASE UNCHANGED vars \/ DeviceStep \/ \E s \in Streams : HookStep(s)
  <2>1. UNCHANGED <<call, thread, now, cmd, status, data, client>>
    BY <1>2 DEF vars, DeviceStep, OpenDevice, CloseDevice, DestroyDevice, HookStep,
       AsyncCallback, SetCallback, ClearCallback, HalCallback, LoadCallback, CallbackReturn,
       device, life, worker, queues, hook
  <2> QED
    BY <1>1, <2>1 DEF Commanded, OneCommand, Transferred, AnswerMatchesData, JoinedFirst
<1>3. ASSUME NEW s \in Streams, LifeStep(s) \/ WorkStep(s) \/ ClientStep(s) PROVE Commanded'
  BY <1>1, <1>3, LifeCommanded, WorkCommanded, ClientCommanded DEF Commanded
<1>4. ASSUME NEW s \in Streams, Abort(s) PROVE Commanded'
  <2>1. Init'
    BY <1>4, AbortBegins DEF Commanded
  <2> QED
    BY <2>1, InitCommanded, PTL
<1> QED
  BY <1>2, <1>3, <1>4, StepCases

(* An answer tells the truth about the data queue, however the worker, the  *)
(* client and the calls that close the stream interleave (doWrite, doRead). *)
THEOREM AnswersAreTrue == Spec => []AnswerMatchesData
<1>1. Commanded => AnswerMatchesData
  BY DEF Commanded
<1> QED
  BY <1>1, InitCommanded, StepCommanded, PTL DEF Spec

-----------------------------------------------------------------------------
(* The life of streams and the count of them.                               *)

(* What the steps of a call mean for the object and the HAL's stream, which *)
(* depends on the version: close() closes it, or the destructor.            *)
LateClose == {"halClose", "check", "subtract"}

Phases == \A s \in Streams :
  /\ obj[s] = "none" => call[s] = "none"
  /\ call[s] \in {"count", "add"} => obj[s] = "live" /\ ~stop[s]
  /\ call[s] \in {"wake", "join", "free"} \cup LateClose => stop[s]
  /\ call[s] \in {"join", "free"} => obj[s] = "dying"
  /\ ~Early /\ call[s] \in LateClose => obj[s] = "dying"
  /\ obj[s] = "dying" => call[s] # "none"
  /\ hal[s] = "open" <=> /\ obj[s] # "none"
                         /\ call[s] \notin {"check", "subtract"}
                         /\ Early => /\ call[s] \notin {"join", "free"}
                                     /\ call[s] = "none" => ~stop[s]

(* The worker is gone before the queues and, up to version 5, the HAL's     *)
(* stream are.                                                              *)
Workers == \A s \in Streams :
  /\ thread[s] # "none" => obj[s] # "none" /\ prepared[s]
  /\ call[s] = "free" => thread[s] = "none"
  /\ ~Early /\ call[s] \in LateClose => thread[s] = "none"
  /\ cb[s] # "none" => hal[s] = "open"

(* mOpenedStreamsCount lags behind the HAL by the calls that are changing   *)
(* it, until one of them overwrites what another did.                       *)
Counted == {s \in Streams : \/ hal[s] = "open" /\ call[s] \notin {"count", "add"}
                            \/ call[s] \in {"check", "subtract"}}

Counts ==
  /\ lost \in BOOLEAN /\ opened \in Nat /\ loaded \in [Streams -> Nat]
  /\ \A s \in Streams : call[s] = "subtract" => loaded[s] # 0
  /\ ~lost => opened = Cardinality(Counted)

DeviceLast ==
  /\ overtaken \subseteq Streams
  /\ dev.isClosed <=> dev.hal = "closed"
  /\ ~dev.live => \A s \in Streams : obj[s] = "none"
  /\ ~dev.live /\ ~lost => dev.isClosed
  /\ dev.isClosed /\ ~lost => \A s \in Streams : hal[s] = "closed" \/ s \in overtaken

Lives == Types /\ Phases /\ Workers /\ Counts /\ DeviceLast

LEMMA CountedFinite == IsFiniteSet(Counted) /\ Cardinality(Counted) \in Nat
<1>1. IsFiniteSet(Counted)
  BY StreamsAssumption, FS_Subset DEF Counted
<1> QED
  BY <1>1, FS_CardinalityType

LEMMA SameEarly == dev'.version = dev.version => Early' = Early
BY DEF Early

LEMMA InitLives == Init => Lives
<1> SUFFICES ASSUME Init PROVE Lives
  OBVIOUS
<1>1. Types
  BY InitCommanded DEF Commanded
<1>2. Phases /\ Workers /\ DeviceLast
  BY DEF Init, All, Phases, LateClose, Workers, DeviceLast
<1>3. Counted = {}
  BY DEF Init, All, Counted
<1>4. Cardinality(Counted) = 0
  BY <1>3, FS_EmptySet
<1>5. Counts
  BY <1>4 DEF Init, All, Counts
<1> QED
  BY <1>1, <1>2, <1>5 DEF Lives

(* doClose closes a device that has no open stream, and no other.           *)
LEMMA ClosedDevice ==
  ASSUME Types
  PROVE  /\ Closed(dev).version = dev.version /\ Closed(dev).live = dev.live
         /\ Closed(dev) = dev \/ (opened = 0 /\ ~dev.isClosed /\ Closed(dev).isClosed = TRUE
                                               /\ Closed(dev).hal = "closed")
         /\ opened = 0 => Closed(dev).isClosed = TRUE
         /\ [Closed(dev) EXCEPT !.live = FALSE].version = dev.version
         /\ [Closed(dev) EXCEPT !.live = FALSE].live = FALSE
         /\ [Closed(dev) EXCEPT !.live = FALSE].isClosed = Closed(dev).isClosed
         /\ [Closed(dev) EXCEPT !.live = FALSE].hal = Closed(dev).hal
<1>1. CASE dev.isClosed \/ opened # 0
  <2>1. Closed(dev) = dev
    BY <1>1 DEF Closed
  <2> QED
    BY <1>1, <2>1 DEF Types
<1>2. CASE ~dev.isClosed /\ opened = 0
  <2>1. Closed(dev) = [dev EXCEPT !.isClosed = TRUE, !.hal = "closed"]
    BY <1>2 DEF Closed
  <2> QED
    BY <1>2, <2>1 DEF Types
<1> QED
  BY <1>1, <1>2

LEMMA DeviceLives ==
  ASSUME Lives, DeviceStep
  PROVE  Lives'
<1>1. Types'
  BY DeviceTypes DEF Lives
<1>2. UNCHANGED <<dir, obj, call, loaded, hal, stop, thread, prepared, cb>>
  BY DEF DeviceStep, OpenDevice, CloseDevice, DestroyDevice, life, worker, queues, hook
<1>3. Counted' = Counted
  BY <1>2 DEF Counted
<1>4. CASE OpenDevice
  <2>1. \A s \in Streams : obj[s] = "none" /\ call[s] = "none" /\ hal[s] = "closed"
                           /\ thread[s] = "none" /\ cb[s] = "none"
    BY <1>4 DEF OpenDevice, Lives, DeviceLast, Phases, Workers, Types
  <2>2. Phases' /\ Workers'
    BY <1>2, <2>1 DEF Phases, Workers, LateClose
  <2>3. Counted = {} /\ opened' = 0 /\ lost' = FALSE
    BY <1>4, <2>1 DEF Counted, OpenDevice
  <2>4. Counts'
    BY <1>2, <1>3, <2>1, <2>3, FS_EmptySet DEF Counts, Lives
  <2>5. DeviceLast'
    BY <1>2, <1>4, <2>1 DEF OpenDevice, DeviceLast
  <2> QED
    BY <1>1, <2>2, <2>4, <2>5 DEF Lives
<1>5. CASE CloseDevice \/ DestroyDevice
  <2>1. dev'.version = dev.version /\ opened' = opened /\ lost' = lost
    BY <1>5, ClosedDevice DEF CloseDevice, DestroyDevice, Lives, Types
  <2>2. Phases' /\ Workers'
    BY <1>2, <2>1, SameEarly DEF Lives, Phases, Workers
  <2>3. Counts'
    BY <1>2, <1>3, <2>1 DEF Lives, Counts
  <2>4. opened = 0 /\ ~lost => Counted = {}
    BY CountedFinite, FS_EmptySet DEF Lives, Counts
  <2>5. DeviceLast'
    <3>1. CASE CloseDevice
      <4>1. CASE Closed(dev) = dev
        BY <1>2, <2>1, <3>1, <4>1 DEF CloseDevice, DeviceLast, Lives
      <4>2. CASE Closed(dev) # dev
        <5>1. /\ opened = 0 /\ dev'.isClosed = TRUE /\ dev'.hal = "closed"
              /\ dev'.live = dev.live /\ dev.live
              /\ overtaken' = {s \in Streams : call[s] \in {"count", "add"}}
          BY <3>1, <4>2, ClosedDevice DEF CloseDevice, Lives
        <5>2. ~lost => \A s \in Streams : hal[s] = "closed" \/ s \in overtaken'
          BY <2>4, <5>1 DEF Counted, Lives, Types
        <5> QED
          BY <1>2, <2>1, <5>1, <5>2 DEF DeviceLast, Lives
      <4> QED
        BY <4>1, <4>2
    <3>2. CASE DestroyDevice
      <4>1. \A s \in Streams : obj[s] = "none" /\ call[s] = "none" /\ hal[s] = "closed"
        BY <3>2 DEF DestroyDevice, Lives, Phases, Types
      <4>2. Counted = {}
        BY <4>1 DEF Counted
      <4>3. ~lost => opened = 0
        BY <4>2, FS_EmptySet DEF Lives, Counts
      <4>4. ~lost => Closed(dev).isClosed = TRUE
        BY <4>3, ClosedDevice DEF Lives
      <4>5. Closed(dev).isClosed <=> Closed(dev).hal = "closed"
        BY ClosedDevice DEF Lives, DeviceLast
      <4>6. /\ dev'.live = FALSE /\ dev'.isClosed = Closed(dev).isClosed
            /\ dev'.hal = Closed(dev).hal /\ overtaken' = overtaken
        BY <3>2, ClosedDevice DEF DestroyDevice, Lives
      <4> QED
        BY <1>2, <2>1, <4>1, <4>4, <4>5, <4>6 DEF DeviceLast, Lives
    <3> QED
      BY <1>5, <3>1, <3>2
  <2> QED
    BY <1>1, <2>2, <2>3, <2>5 DEF Lives
<1> QED
  BY <1>4, <1>5 DEF DeviceStep

LEMMA LifeDevice ==
  ASSUME NEW s \in Streams, LifeStep(s)
  PROVE  dev' = dev /\ overtaken' = overtaken /\ Early' = Early
<1>1. dev' = dev /\ overtaken' = overtaken
  BY DEF LifeStep, OpenStream, Close, Destroy, Prepare, Count, Add, Wake, HalClose, Check,
     Subtract, Join, Free, device
<1> QED
  BY <1>1, SameEarly

LEMMA LifePhases ==
  ASSUME Lives, NEW s \in Streams, LifeStep(s)
  PROVE  Phases' /\ Workers'
<1> Early' = Early
  BY LifeDevice
<1> USE DEF Lives, Types, Phases, Workers, LateClose, life, worker, queues, hook
<1>1. CASE OpenStream(s)
  BY <1>1 DEF OpenStream
<1>2. CASE Close(s)
  BY <1>2 DEF Close
<1>3. CASE Destroy(s)
  BY <1>3 DEF Destroy
<1>4. CASE Prepare(s)
  BY <1>4 DEF Prepare
<1>5. CASE Count(s)
  BY <1>5 DEF Count
<1>6. CASE Add(s)
  BY <1>6 DEF Add
<1>7. CASE Wake(s)
  BY <1>7 DEF Wake, AfterWake
<1>8. CASE HalClose(s)
  BY <1>8 DEF HalClose
<1>9. CASE Check(s)
  BY <1>9 DEF Check
<1>10. CASE Subtract(s)
  BY <1>10 DEF Subtract
<1>11. CASE Join(s)
  BY <1>11 DEF Join, Joined
<1>12. CASE Free(s)
  BY <1>12 DEF Free
<1> QED
  BY <1>1, <1>2, <1>3, <1>4, <1>5, <1>6, <1>7, <1>8, <1>9, <1>10, <1>11, <1>12 DEF LifeStep

(* A step that neither writes the count nor moves a call past it.           *)
LEMMA SameCount ==
  ASSUME Lives, UNCHANGED <<opened, lost>>, Counted' = Counted, loaded' \in [Streams -> Nat],
         \A u \in Streams : call'[u] = "subtract" => loaded'[u] # 0
  PROVE  Counts'
BY DEF Lives, Counts

(* A step that writes the count, and the change it stands for.              *)
LEMMA NewCount ==
  ASSUME Lives, NEW s \in Streams, opened' \in Nat, lost' = (lost \/ opened # loaded[s]),
         loaded' = [loaded EXCEPT ![s] = 0],
         opened = Cardinality(Counted) /\ opened = loaded[s] => opened' = Cardinality(Counted'),
         call'[s] # "subtract", \A u \in Streams \ {s} : call'[u] = call[u]
  PROVE  Counts'
<1>1. lost' \in BOOLEAN
  BY Zenon
<1>2. ~lost' => ~lost /\ opened = loaded[s]
  BY Zenon
<1>3. ~lost' => opened' = Cardinality(Counted')
  BY <1>2 DEF Lives, Counts
<1>4. loaded' \in [Streams -> Nat] /\ \A u \in Streams : call'[u] = "subtract" => loaded'[u] # 0
  BY DEF Lives, Counts
<1> QED
  BY <1>1, <1>3, <1>4 DEF Counts

LEMMA AddCounts == ASSUME Lives, NEW s \in Streams, Add(s) PROVE Counts'
<1>1. Counted' = Counted \cup {s} /\ s \notin Counted
  BY DEF Lives, Types, Phases, Add, Counted
<1>2. Cardinality(Counted') = Cardinality(Counted) + 1
  BY <1>1, CountedFinite, FS_AddElement
<1>3. /\ opened' = loaded[s] + 1 /\ lost' = (lost \/ opened # loaded[s])
      /\ loaded' = [loaded EXCEPT ![s] = 0]
  BY DEF Add
<1>4. opened' \in Nat
  BY <1>3 DEF Lives, Counts
<1>5. opened = Cardinality(Counted) /\ opened = loaded[s] => opened' = Cardinality(Counted')
  BY <1>2, <1>3
<1>6. call'[s] # "subtract" /\ \A u \in Streams \ {s} : call'[u] = call[u]
  BY DEF Add, Lives, Types
<1> QED
  BY <1>3, <1>4, <1>5, <1>6, NewCount

LEMMA SubtractCounts == ASSUME Lives, NEW s \in Streams, Subtract(s) PROVE Counts'
<1>1. s \in Counted /\ Counted' = Counted \ {s}
  BY DEF Lives, Types, Phases, LateClose, Subtract, Counted
<1>2. Cardinality(Counted') = Cardinality(Counted) - 1
  BY <1>1, CountedFinite, FS_RemoveElement
<1>3. /\ opened' = loaded[s] - 1 /\ lost' = (lost \/ opened # loaded[s])
      /\ loaded' = [loaded EXCEPT ![s] = 0]
  BY DEF Subtract
<1>4. opened' \in Nat
  BY <1>3 DEF Subtract, Lives, Counts
<1>5. opened = Cardinality(Counted) /\ opened = loaded[s] => opened' = Cardinality(Counted')
  BY <1>2, <1>3
<1>6. call'[s] # "subtract" /\ \A u \in Streams \ {s} : call'[u] = call[u]
  BY DEF Subtract, Lives, Types
<1> QED
  BY <1>3, <1>4, <1>5, <1>6, NewCount

LEMMA LifeCounts ==
  ASSUME Lives, NEW s \in Streams, LifeStep(s)
  PROVE  Counts'
<1> USE DEF Lives, Types, Phases, LateClose, life, device
<1>1. opened \in Nat /\ loaded \in [Streams -> Nat]
  BY DEF Counts
<1>2. CASE OpenStream(s) \/ Close(s) \/ Destroy(s) \/ Prepare(s) \/ Wake(s) \/ HalClose(s)
           \/ Join(s) \/ Free(s)
  <2>1. Counted' = Counted
    <3>1. CASE OpenStream(s)
      BY <3>1 DEF OpenStream, Counted
    <3>2. CASE Close(s) \/ Destroy(s) \/ Prepare(s)
      BY <3>2 DEF Close, Destroy, Prepare, Counted
    <3>3. CASE Wake(s)
      BY <3>3 DEF Wake, AfterWake, Counted
    <3>4. CASE HalClose(s)
      BY <3>4 DEF HalClose, Counted
    <3>5. CASE Join(s) \/ Free(s)
      BY <3>5 DEF Join, Free, Counted
    <3> QED
      BY <1>2, <3>1, <3>2, <3>3, <3>4, <3>5
  <2>2. UNCHANGED <<opened, lost, loaded>>
    BY <1>2 DEF OpenStream, Close, Destroy, Prepare, Wake, HalClose, Join, Free
  <2>3. \A u \in Streams : call'[u] = "subtract" => call[u] = "subtract"
    BY <1>2 DEF OpenStream, Close, Destroy, Prepare, Wake, AfterWake, HalClose, Join, Free
  <2>4. \A u \in Streams : call'[u] = "subtract" => loaded'[u] # 0
    BY <2>2, <2>3 DEF Counts
  <2> QED
    BY <1>1, <2>1, <2>2, <2>4, SameCount
<1>3. CASE Count(s)
  <2>1. Counted' = Counted
    BY <1>3 DEF Count, Counted
  <2>2. loaded' = [loaded EXCEPT ![s] = opened] /\ UNCHANGED <<opened, lost>>
        /\ call' = [call EXCEPT ![s] = "add"]
    BY <1>3 DEF Count
  <2>3. loaded' \in [Streams -> Nat]
        /\ \A u \in Streams : call'[u] = "subtract" => loaded'[u] # 0
    BY <1>1, <2>2 DEF Counts
  <2> QED
    BY <2>1, <2>2, <2>3, SameCount
<1>4. CASE Check(s)
  <2>1. Counted' = Counted
    BY <1>4 DEF Check, Counted
  <2>2. loaded' = [loaded EXCEPT ![s] = opened] /\ opened # 0 /\ UNCHANGED <<opened, lost>>
        /\ call' = [call EXCEPT ![s] = "subtract"]
    BY <1>4 DEF Check
  <2>3. loaded' \in [Streams -> Nat]
        /\ \A u \in Streams : call'[u] = "subtract" => loaded'[u] # 0
    BY <1>1, <2>2 DEF Counts
  <2> QED
    BY <2>1, <2>2, <2>3, SameCount
<1>5. CASE Add(s) \/ Subtract(s)
  BY <1>5, AddCounts, SubtractCounts
<1> QED
  BY <1>2, <1>3, <1>4, <1>5 DEF LifeStep

LEMMA LifeLives ==
  ASSUME Lives, NEW s \in Streams, LifeStep(s)
  PROVE  Lives'
<1>1. dev' = dev /\ overtaken' = overtaken /\ Types'
  BY LifeDevice, LifeTypes DEF Lives
<1>2. lost => lost'
  BY DEF LifeStep, OpenStream, Close, Destroy, Prepare, Count, Add, Wake, HalClose, Check,
     Subtract, Join, Free, device
<1>3. dev.isClosed => \A u \in Streams : hal'[u] = "closed" \/ hal'[u] = hal[u]
  BY DEF LifeStep, OpenStream, Close, Destroy, Prepare, Count, Add, Wake, HalClose, Check,
     Subtract, Join, Free, life, Lives, Types
<1>4. ~dev.live => \A u \in Streams : obj'[u] = "none"
  BY DEF LifeStep, OpenStream, Close, Destroy, Prepare, Count, Add, Wake, HalClose, Check,
     Subtract, Join, Free, life, Lives, Types, DeviceLast, Phases
<1>5. DeviceLast'
  BY <1>1, <1>2, <1>3, <1>4 DEF Lives, DeviceLast
<1> QED
  BY <1>1, <1>5, LifePhases, LifeCounts DEF Lives

(* The worker, the callback thread and the client leave the object, the     *)
(* count and the HAL's stream alone.                                        *)
LEMMA OtherLives ==
  ASSUME Lives, NEW s \in Streams, HookStep(s) \/ WorkStep(s) \/ ClientStep(s)
  PROVE  Lives'
<1>1. UNCHANGED <<device, life>> /\ prepared' = prepared
  BY DEF HookStep, AsyncCallback, SetCallback, ClearCallback, HalCallback, LoadCallback,
     CallbackReturn, WorkStep, ThreadLoop, Spurious, TestStop, WaitRequest, ReadCommand, DoWrite,
     DoRead, DoGetPosition, UnknownCommand, HalReturn, Answer, WakeClient, ClientStep,
     ClientRequest, ClientWake, ClientAnswer, queues
<1>2. \A u \in Streams : thread[u] = "none" <=> thread'[u] = "none"
  BY DEF HookStep, AsyncCallback, SetCallback, ClearCallback, HalCallback, LoadCallback,
     CallbackReturn, WorkStep, ThreadLoop, Spurious, TestStop, WaitRequest, ReadCommand, DoWrite,
     DoRead, DoGetPosition, UnknownCommand, HalReturn, Answer, WakeClient, ClientStep,
     ClientRequest, ClientWake, ClientAnswer, worker, Goto, Lives, Types
<1>3. \A u \in Streams : cb'[u] # "none" => hal[u] = "open"
  BY DEF HookStep, AsyncCallback, SetCallback, ClearCallback, HalCallback, LoadCallback,
     CallbackReturn, WorkStep, ThreadLoop, Spurious, TestStop, WaitRequest, ReadCommand, DoWrite,
     DoRead, DoGetPosition, UnknownCommand, HalReturn, Answer, WakeClient, ClientStep,
     ClientRequest, ClientWake, ClientAnswer, hook, Lives, Types, Workers
<1>4. Early' = Early /\ Counted' = Counted
  BY <1>1, SameEarly DEF device, life, Counted
<1>5. Phases' /\ Workers'
  BY <1>1, <1>2, <1>3, <1>4 DEF life, Lives, Phases, Workers
<1>6. Counts' /\ DeviceLast'
  BY <1>1, <1>4 DEF device, life, Lives, Counts, DeviceLast
<1> QED
  BY <1>5, <1>6, HookTypes, WorkTypes, ClientTypes DEF Lives

LEMMA StepLives == Lives /\ [Next]_vars => Lives'
<1> SUFFICES ASSUME Lives, [Next]_vars PROVE Lives'
  OBVIOUS
<1>1. CASE UNCHANGED vars
  <2>1. Early' = Early /\ Counted' = Counted
    BY <1>1 DEF vars, device, life, Early, Counted
  <2>2. Types'
    BY StepTypes DEF Lives
  <2> QED
    BY <1>1, <2>1, <2>2 DEF vars, device, life, worker, queues, hook, Lives, Phases, Workers,
       Counts, DeviceLast
<1>2. ASSUME NEW s \in Streams, Abort(s) PROVE Lives'
  <2>1. Init'
    BY <1>2, AbortBegins DEF Lives
  <2> QED
    BY <2>1, InitLives, PTL
<1> QED
  BY <1>1, <1>2, StepCases, DeviceLives, LifeLives, OtherLives

(* Until a call overwrites what another did to it, mOpenedStreamsCount is   *)
(* the number of open HAL streams and the assertion on it holds, however    *)
(* else the calls of binder threads overlap (openOutputStreamCore,          *)
(* closeOutputStream and their like for input).                             *)
THEOREM CountIsExact == Spec => []CountExact
<1>1. Lives => CountExact
  <2> SUFFICES ASSUME Lives, ~lost PROVE CountExact
    BY DEF CountExact
  <2>1. ASSUME \A s \in Streams : call[s] \notin {"count", "add", "check", "subtract"}
        PROVE  opened = Cardinality({s \in Streams : hal[s] = "open"})
    <3>1. Counted = {s \in Streams : hal[s] = "open"}
      BY <2>1 DEF Counted
    <3> QED
      BY <3>1 DEF Lives, Counts
  <2>2. ASSUME NEW s \in Streams, call[s] = "check" PROVE opened # 0
    <3>1. s \in Counted
      BY <2>2 DEF Counted
    <3>2. Cardinality(Counted) # 0
      BY <3>1, CountedFinite, FS_EmptySet
    <3> QED
      BY <3>2 DEF Lives, Counts
  <2> QED
    BY <2>1, <2>2 DEF CountExact
<1> QED
  BY <1>1, InitLives, StepLives, PTL DEF Spec

-----------------------------------------------------------------------------
(* What is used after it is gone.                                           *)

Inv == Commanded /\ Lives

LEMMA InvType == Inv => TypeOK
<1> SUFFICES ASSUME Inv PROVE TypeOK
  OBVIOUS
<1>1. \A s \in Streams : Len(cmd[s]) <= 1 /\ Len(status[s]) <= 1
  BY Sequences1 DEF Inv, Lives, Types
<1>2. now \in [Streams -> [op : Ops, n : 0..(Capacity + 1)]]
  BY DEF Inv, Lives, Types, Jobs
<1> QED
  BY <1>1, <1>2 DEF Inv, Lives, Types, Counts, DeviceLast, TypeOK

LEMMA InvAlive == Inv => HalStreamAlive /\ ObjectOutlivesThreads /\ DeviceOutlivesStreams
<1> SUFFICES ASSUME Inv PROVE HalStreamAlive /\ ObjectOutlivesThreads /\ DeviceOutlivesStreams
  OBVIOUS
<1> USE DEF Inv, Lives, Types
<1>1. ASSUME NEW s \in Streams, thread[s] = "hal"
      PROVE  hal[s] = "open" \/ (Early /\ stop[s] /\ client[s] # "idle")
  <2>1. client[s] # "idle"
    BY <1>1 DEF Commanded, OneCommand, Busy
  <2> QED
    BY <1>1, <2>1 DEF Phases, Workers, LateClose
<1>2. ASSUME NEW s \in Streams, call[s] = "halClose" PROVE hal[s] = "open"
  BY <1>2 DEF Phases
<1>3. HalStreamAlive
  BY <1>1, <1>2 DEF HalStreamAlive, Workers
<1>4. ASSUME NEW s \in Streams, obj[s] = "none" PROVE thread[s] = "none" /\ cb[s] = "none"
  BY <1>4 DEF Phases, Workers
<1>5. ObjectOutlivesThreads
  BY <1>4 DEF ObjectOutlivesThreads
<1>6. DeviceOutlivesStreams
  BY DEF DeviceLast, DeviceOutlivesStreams
<1> QED
  BY <1>3, <1>5, <1>6

(* Nothing is used after it is gone, however calls overlap and whenever a   *)
(* client closes: no HAL stream is closed twice, or used when it is closed  *)
(* but by the worker of a client that closed it with a command under way;   *)
(* no thread outlives the object it points to; and the device is closed     *)
(* after its streams unless the count has lost a call, but for a stream the *)
(* closing overtook (close, ~StreamOut, ~StreamIn, doClose).                *)
THEOREM NothingIsUsedAfter == Spec => []NothingDangles
<1>1. Init => Inv
  BY InitCommanded, InitLives DEF Inv
<1>2. Inv /\ [Next]_vars => Inv'
  BY StepCommanded, StepLives DEF Inv
<1>3. Inv => NothingDangles
  BY InvType, InvAlive DEF NothingDangles
<1> QED
  BY <1>1, <1>2, <1>3, PTL DEF Spec

-----------------------------------------------------------------------------
(* Wake-ups.  Nothing is assumed here of calls and clients.                 *)

Waked == {"wake", "join", "free"} \cup LateClose

(* The queues exist while a worker or a client uses them, and a worker runs *)
(* from prepareForWriting or prepareForReading on until it is stopped.      *)
Standing ==
  /\ ~dev.live => \A s \in Streams : obj[s] = "none"
  /\ \A s \in Streams :
       /\ obj[s] = "none" => call[s] = "none" /\ ~prepared[s]
       /\ thread[s] # "none" \/ client[s] # "idle" => prepared[s]
       /\ ~Early /\ call[s] \in LateClose => ~prepared[s]
       /\ call[s] \in Waked => stop[s]
       /\ prepared[s] /\ ~stop[s] => thread[s] \notin {"none", "exited"}

(* Before its client has set the bit a command may be served already.       *)
SentAt(s) == client[s] = "sent" /\ ~stop[s] =>
  \/ cmd[s] # <<>> \/ thread[s] \in Busy
  \/ status[s] # <<>> /\ (thread[s] = "wake" \/ Reply(s) \in flags[s])

Sent == \A s \in Streams : SentAt(s)

(* NoLostWakeUp for one stream.                                             *)
WokenAt(s) ==
  /\ thread[s] = "wait" /\ stop[s] => Request(s) \in flags[s] \/ call[s] = "wake"
  /\ client[s] = "await" /\ ~stop[s] =>
       /\ thread[s] \notin {"none", "exited"}
       /\ \/ cmd[s] # <<>> /\ (Request(s) \in flags[s] \/ thread[s] = "read")
          \/ thread[s] \in Busy
          \/ status[s] # <<>> /\ (thread[s] = "wake" \/ Reply(s) \in flags[s])

WakeInv == Commanded /\ Standing /\ Sent /\ NoLostWakeUp

LEMMA InitWake == Init => WakeInv
<1> SUFFICES ASSUME Init PROVE WakeInv
  OBVIOUS
<1>1. Standing /\ Sent /\ NoLostWakeUp
  BY DEF Init, All, Standing, Sent, SentAt, NoLostWakeUp, Waked, LateClose
<1> QED
  BY <1>1, InitCommanded DEF WakeInv

LEMMA DeviceWake ==
  ASSUME WakeInv, UNCHANGED <<life, worker, queues>>, DeviceStep \/ UNCHANGED dev
  PROVE  Standing' /\ Sent' /\ NoLostWakeUp'
<1>1. UNCHANGED <<dir, obj, call, stop, thread, cmd, status, flags, prepared, client>>
  BY DEF life, worker, queues
<1>2. Sent' /\ NoLostWakeUp'
  BY <1>1 DEF WakeInv, Sent, SentAt, NoLostWakeUp, Request, Reply
<1>3. CASE OpenDevice
  <2>1. \A s \in Streams : obj[s] = "none" /\ call[s] = "none"
    BY <1>3 DEF OpenDevice, WakeInv, Standing
  <2>2. dev'.live = TRUE
    BY <1>3 DEF OpenDevice
  <2> QED
    BY <1>1, <1>2, <2>1, <2>2 DEF WakeInv, Standing, LateClose
<1>4. CASE CloseDevice \/ DestroyDevice
  <2>1. dev'.version = dev.version /\ (dev'.live = dev.live \/ DestroyDevice)
    BY <1>4, ClosedDevice DEF CloseDevice, DestroyDevice, WakeInv, Commanded,
       Types
  <2>2. ~dev'.live => \A s \in Streams : obj[s] = "none"
    BY <2>1 DEF DestroyDevice, WakeInv, Standing
  <2> QED
    BY <1>1, <1>2, <2>1, <2>2, SameEarly DEF WakeInv, Standing
<1>5. CASE UNCHANGED dev
  BY <1>1, <1>2, <1>5, SameEarly DEF WakeInv, Standing
<1> QED
  BY <1>3, <1>4, <1>5 DEF DeviceStep

LEMMA LifeStanding ==
  ASSUME WakeInv, NEW s \in Streams, LifeStep(s) PROVE Standing'
<1>1. dev' = dev /\ Early' = Early
  BY SameEarly DEF LifeStep, OpenStream, Close, Destroy, Prepare, Count, Add, Wake,
     HalClose, Check, Subtract, Join, Free, device
<1> USE DEF WakeInv, Commanded, Types, Standing, Waked, LateClose, life, worker, queues
<1>2. CASE OpenStream(s)
  BY <1>1, <1>2 DEF OpenStream
<1>3. CASE Close(s) \/ Destroy(s)
  BY <1>1, <1>3 DEF Close, Destroy, Abandoned
<1>4. CASE Prepare(s)
  BY <1>1, <1>4 DEF Prepare
<1>5. CASE Count(s) \/ Add(s)
  BY <1>1, <1>5 DEF Count, Add
<1>6. CASE Wake(s)
  BY <1>1, <1>6 DEF Wake, AfterWake
<1>7. CASE HalClose(s) \/ Check(s)
  BY <1>1, <1>7 DEF HalClose, Check
<1>8. CASE Subtract(s)
  BY <1>1, <1>8 DEF Subtract
<1>9. CASE Join(s)
  BY <1>1, <1>9 DEF Join, Joined
<1>10. CASE Free(s)
  BY <1>1, <1>10 DEF Free, JoinedFirst
<1> QED
  BY <1>2, <1>3, <1>4, <1>5, <1>6, <1>7, <1>8, <1>9, <1>10 DEF LifeStep

(* A step about the stream s leaves the others as they are.                 *)
LEMMA AtOne ==
  ASSUME WakeInv, NEW s \in Streams, SentAt(s)', WokenAt(s)',
         \A u \in Streams \ {s} :
           /\ dir'[u] = dir[u] /\ call'[u] = call[u] /\ stop'[u] = stop[u]
           /\ thread'[u] = thread[u] /\ client'[u] = client[u]
           /\ cmd'[u] = cmd[u] /\ status'[u] = status[u] /\ flags'[u] = flags[u]
  PROVE  Sent' /\ NoLostWakeUp'
<1>1. \A u \in Streams \ {s} : SentAt(u) /\ WokenAt(u)
  BY DEF WakeInv, Sent, NoLostWakeUp, WokenAt, Busy
<1>2. ASSUME NEW u \in Streams \ {s} PROVE SentAt(u)' /\ WokenAt(u)'
  BY <1>1, <1>2 DEF SentAt, WokenAt, Request, Reply
<1> QED
  BY <1>2 DEF Sent, NoLostWakeUp, WokenAt, Busy

LEMMA LifeWake ==
  ASSUME WakeInv, NEW s \in Streams, LifeStep(s) PROVE Sent' /\ NoLostWakeUp'
<1> Types
  BY DEF WakeInv, Commanded
<1>1. /\ SentAt(s) /\ WokenAt(s)
      /\ thread[s] # "none" \/ client[s] # "idle" => prepared[s]
      /\ obj[s] = "none" => ~prepared[s]
  BY DEF WakeInv, Standing, Sent, NoLostWakeUp, WokenAt, Busy
<1>2. \A u \in Streams \ {s} :
        /\ dir'[u] = dir[u] /\ call'[u] = call[u] /\ stop'[u] = stop[u]
        /\ thread'[u] = thread[u] /\ client'[u] = client[u]
        /\ cmd'[u] = cmd[u] /\ status'[u] = status[u] /\ flags'[u] = flags[u]
  BY DEF LifeStep, OpenStream, Close, Destroy, Abandoned, Prepare, Count, Add, Wake, HalClose,
     Check, Subtract, Join, Free, life, worker, queues, Types
<1>3. SentAt(s)' /\ WokenAt(s)'
  <2> USE <1>1 DEF Types, SentAt, WokenAt, Busy, Request, Reply, life, worker, queues
  <2>1. CASE OpenStream(s)
    BY <2>1 DEF OpenStream
  <2>2. CASE Close(s)
    BY <2>2 DEF Close, Abandoned
  <2>3. CASE Destroy(s)
    BY <2>3 DEF Destroy, Abandoned
  <2>4. CASE Prepare(s)
    BY <2>4 DEF Prepare
  <2>5. CASE Count(s) \/ Add(s)
    BY <2>5 DEF Count, Add
  <2>6. CASE Wake(s)
    BY <2>6 DEF Wake, AfterWake
  <2>7. CASE HalClose(s) \/ Check(s) \/ Subtract(s)
    BY <2>7 DEF HalClose, Check, Subtract
  <2>8. CASE Join(s)
    <3>1. stop[s]
      BY <2>8 DEF Join, WakeInv, Standing, Waked
    <3> QED
      BY <2>8, <3>1 DEF Join, Joined
  <2>9. CASE Free(s)
    BY <2>9 DEF Free, WakeInv, Commanded, JoinedFirst
  <2> QED
    BY <2>1, <2>2, <2>3, <2>4, <2>5, <2>6, <2>7, <2>8, <2>9 DEF LifeStep
<1> QED
  BY <1>2, <1>3, AtOne

LEMMA WorkStanding ==
  ASSUME WakeInv, NEW s \in Streams, WorkStep(s) PROVE Standing'
<1>1. UNCHANGED <<dev, obj, call, stop, prepared, client>> /\ Early' = Early
  BY WorkFrame, SameEarly DEF WakeInv, Commanded, device, life
<1>2. \A u \in Streams \ {s} : thread'[u] = thread[u]
  BY DEF WorkStep, ThreadLoop, Spurious, TestStop, WaitRequest, ReadCommand, DoWrite, DoRead,
     DoGetPosition, UnknownCommand, HalReturn, Answer, WakeClient, Goto, WakeInv, Commanded,
     Types
<1>3. thread[s] # "none" /\ thread'[s] # "none" /\ (thread'[s] = "exited" => stop[s])
  BY DEF WorkStep, ThreadLoop, Spurious, TestStop, WaitRequest, ReadCommand, DoWrite, DoRead,
     DoGetPosition, UnknownCommand, HalReturn, Answer, WakeClient, Goto, WakeInv, Commanded,
     Types
<1> QED
  BY <1>1, <1>2, <1>3 DEF WakeInv, Standing

LEMMA WorkWake ==
  ASSUME WakeInv, NEW s \in Streams, WorkStep(s) PROVE Sent' /\ NoLostWakeUp'
<1> Types
  BY DEF WakeInv, Commanded
<1>1. SentAt(s) /\ WokenAt(s) /\ (thread[s] \in Busy => status[s] = <<>>)
  BY DEF WakeInv, Commanded, OneCommand, Sent, NoLostWakeUp, WokenAt, Busy
<1>2. UNCHANGED <<dir, call, stop, client>>
  BY WorkFrame DEF life
<1>3. \A u \in Streams \ {s} :
        /\ thread'[u] = thread[u] /\ cmd'[u] = cmd[u]
        /\ status'[u] = status[u] /\ flags'[u] = flags[u]
  BY DEF WorkStep, ThreadLoop, Spurious, TestStop, WaitRequest, ReadCommand, DoWrite, DoRead,
     DoGetPosition, UnknownCommand, HalReturn, Answer, WakeClient, Goto, Types, queues
<1>4. SentAt(s)' /\ WokenAt(s)'
  <2> USE <1>1, <1>2 DEF Types, SentAt, WokenAt, Busy, Request, Reply, Goto
  <2>1. CASE TestStop(s) \/ Spurious(s)
    BY <2>1 DEF TestStop, Spurious, queues
  <2>2. CASE WaitRequest(s)
    BY <2>2 DEF WaitRequest
  <2>3. CASE ReadCommand(s) /\ cmd[s] = <<>>
    BY <2>3 DEF ReadCommand
  <2>4. CASE ReadCommand(s) /\ cmd[s] # <<>>
    BY <2>4 DEF ReadCommand
  <2>5. CASE DoWrite(s) \/ DoRead(s) \/ DoGetPosition(s)
    BY <2>5 DEF DoWrite, DoRead, DoGetPosition, queues
  <2>6. CASE UnknownCommand(s) \/ HalReturn(s)
    BY <2>6 DEF UnknownCommand, HalReturn, queues
  <2>7. CASE Answer(s)
    BY <2>7 DEF Answer
  <2>8. CASE WakeClient(s)
    BY <2>8 DEF WakeClient
  <2> QED
    BY <2>1, <2>2, <2>3, <2>4, <2>5, <2>6, <2>7, <2>8 DEF WorkStep, ThreadLoop
<1> QED
  BY <1>2, <1>3, <1>4, AtOne

LEMMA ClientWakes ==
  ASSUME WakeInv, NEW s \in Streams, ClientStep(s)
  PROVE  Standing' /\ Sent' /\ NoLostWakeUp'
<1> Types
  BY DEF WakeInv, Commanded
<1>1. UNCHANGED <<dev, dir, obj, call, stop, thread, prepared>> /\ Early' = Early
  BY SameEarly DEF ClientStep, ClientRequest, ClientWake, ClientAnswer, device, life, worker
<1>2. \A u \in Streams \ {s} :
        /\ client'[u] = client[u] /\ cmd'[u] = cmd[u]
        /\ status'[u] = status[u] /\ flags'[u] = flags[u]
  BY DEF ClientStep, ClientRequest, ClientWake, ClientAnswer, Types
<1>3. client'[s] # "idle" => prepared[s]
  BY DEF ClientStep, ClientRequest, ClientWake, ClientAnswer, Types, WakeInv, Standing
<1>4. Standing'
  BY <1>1, <1>2, <1>3 DEF WakeInv, Standing
<1>5. /\ SentAt(s) /\ WokenAt(s)
      /\ prepared[s] /\ ~stop[s] => thread[s] \notin {"none", "exited"}
      /\ client[s] # "idle" => prepared[s]
  BY DEF WakeInv, Standing, Sent, NoLostWakeUp, WokenAt, Busy
<1>6. SentAt(s)' /\ WokenAt(s)'
  <2> USE <1>1, <1>5 DEF Types, SentAt, WokenAt, Busy, Request, Reply
  <2>1. CASE ClientRequest(s)
    BY <2>1 DEF ClientRequest
  <2>2. CASE ClientWake(s)
    BY <2>2 DEF ClientWake
  <2>3. CASE ClientAnswer(s) /\ status[s] = <<>>
    BY <2>3 DEF ClientAnswer
  <2>4. CASE ClientAnswer(s) /\ status[s] # <<>>
    BY <2>4 DEF ClientAnswer
  <2> QED
    BY <2>1, <2>2, <2>3, <2>4 DEF ClientStep
<1> QED
  BY <1>1, <1>2, <1>4, <1>6, AtOne

LEMMA StepWake == WakeInv /\ [Next]_vars => WakeInv'
<1> SUFFICES ASSUME WakeInv, [Next]_vars PROVE WakeInv'
  OBVIOUS
<1>1. Commanded'
  BY StepCommanded DEF WakeInv
<1>2. CASE DeviceStep
  <2>1. UNCHANGED <<life, worker, queues>>
    BY <1>2 DEF DeviceStep, OpenDevice, CloseDevice, DestroyDevice
  <2> QED
    BY <1>1, <1>2, <2>1, DeviceWake DEF WakeInv
<1>3. CASE UNCHANGED vars \/ \E s \in Streams : HookStep(s)
  <2>1. UNCHANGED <<dev, life, worker, queues>>
    BY <1>3 DEF HookStep, AsyncCallback, SetCallback, ClearCallback, HalCallback, LoadCallback,
       CallbackReturn, vars, device
  <2> QED
    BY <1>1, <2>1, DeviceWake DEF WakeInv
<1>4. ASSUME NEW s \in Streams, LifeStep(s) \/ WorkStep(s) \/ ClientStep(s) PROVE WakeInv'
  BY <1>1, <1>4, LifeStanding, LifeWake, WorkStanding, WorkWake, ClientWakes DEF WakeInv
<1>5. ASSUME NEW s \in Streams, Abort(s) PROVE WakeInv'
  <2>1. Init'
    BY <1>5, AbortBegins DEF WakeInv, Commanded
  <2> QED
    BY <2>1, InitWake, PTL
<1> QED
  BY <1>2, <1>3, <1>4, <1>5, StepCases

(* No wake-up is lost between the worker, the client and close(), although  *)
(* the worker tests its flag before it sleeps, bits are set and cleared     *)
(* apart from the queues, and calls may overlap (close, threadLoop).        *)
THEOREM WakeUpsArrive == Spec => []NoLostWakeUp
<1>1. WakeInv => NoLostWakeUp
  BY DEF WakeInv
<1> QED
  BY <1>1, InitWake, StepWake, PTL DEF Spec
=============================================================================
