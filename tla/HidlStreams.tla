----------------------------- MODULE HidlStreams -----------------------------
(***************************************************************************)
(* The audio HIDL service: a Device, its StreamOut and StreamIn objects and *)
(* the thread each of them runs to serve the fast message queues.  Binder   *)
(* threads open, prepare, close and destroy streams; the worker of a stream *)
(* reads one command at a time, calls the HAL and answers.  The HAL, its    *)
(* callback thread and the client's end of the queues are external.         *)
(***************************************************************************)
EXTENDS Integers, Sequences, FiniteSets

CONSTANTS
  Streams,         \* slots for stream objects
  Served,          \* bound: those whose client prepares the queues or sets a callback
  Versions,        \* MAJOR_VERSIONs of the interface the service registers
  Capacity,        \* frames in a data queue
  MaxCount         \* bound: no stream is opened with the count as high as this

ASSUME StreamsAssumption ==
  /\ Served \subseteq Streams /\ IsFiniteSet(Streams)
  /\ Versions \subseteq Nat /\ Versions # {} /\ Capacity \in Nat \ {0}
  /\ MaxCount \in Nat

VARIABLES
  dev,        \* the Device: object, mIsClosed, HAL device, and the
              \* MAJOR_VERSION it was compiled for
  opened,     \* mOpenedStreamsCount
  lost,       \* history: one call has overwritten what another did to the count
  overtaken,  \* history: streams being opened while the device was closed
  dir,        \* the stream object is a StreamOut ("out") or a StreamIn ("in")
  obj,        \* stream objects: "none", "live", or "dying" in the destructor
  call,       \* where the binder call about a stream is
  loaded,     \* the value of mOpenedStreamsCount a call has read
  hal,        \* the HAL's stream: "open" or "closed" (external)
  stop,       \* mStopWriteThread, mStopReadThread
  prepared,   \* the queues and mEfGroup exist
  thread,     \* where the worker is
  now,        \* the worker's command, then its mStatus
  cmd,        \* mCommandMQ
  status,     \* mStatusMQ
  data,       \* frames in mDataMQ
  flags,      \* bits set in the event flag word
  client,     \* the client's end of the queues (external)
  mCallback,  \* a client callback is set
  registered, \* asyncCallback was handed to the HAL (external)
  cb          \* where the HAL's callback thread is in asyncCallback

device  == <<dev, opened, lost, overtaken>>
life    == <<dir, obj, call, loaded, stop, hal>>
worker  == <<thread, now>>
queues  == <<prepared, cmd, status, data, flags, client>>
hook    == <<mCallback, registered, cb>>
vars    == <<device, life, worker, queues, hook>>

Early == dev.version >= 6   \* close() closes the HAL stream, not the destructor

(* The bit that wakes the worker and the bit that wakes the client.         *)
Request(s) == IF dir[s] = "out" THEN "NOT_EMPTY" ELSE "NOT_FULL"
Reply(s)   == IF dir[s] = "out" THEN "NOT_FULL" ELSE "NOT_EMPTY"

Position(s) == IF dir[s] = "out" THEN "GET_PRESENTATION_POSITION"
                                ELSE "GET_CAPTURE_POSITION"
Unknown     == "unknown"
Ops         == {"WRITE", "READ", "GET_PRESENTATION_POSITION",
                "GET_CAPTURE_POSITION", Unknown}

NoJob == [op |-> Unknown, n |-> 0]

TypeOK ==
  /\ dev \in [live : BOOLEAN, isClosed : BOOLEAN, hal : {"open", "closed"},
           version : Versions]
  /\ opened \in Nat /\ lost \in BOOLEAN /\ overtaken \subseteq Streams
  /\ dir \in [Streams -> {"out", "in"}]
  /\ obj \in [Streams -> {"none", "live", "dying"}]
  /\ call \in [Streams -> {"none", "count", "add", "wake", "halClose", "check",
                           "subtract", "join", "free"}]
  /\ loaded \in [Streams -> Nat]
  /\ hal \in [Streams -> {"open", "closed"}]
  /\ stop \in [Streams -> BOOLEAN] /\ prepared \in [Streams -> BOOLEAN]
  /\ thread \in [Streams -> {"none", "test", "wait", "read", "serve", "hal",
                             "answer", "wake", "exited"}]
  /\ now \in [Streams -> [op : Ops, n : 0..(Capacity + 1)]]
  /\ \A s \in Streams : /\ Len(cmd[s]) <= 1 /\ Len(status[s]) <= 1
                        /\ flags[s] \subseteq {"NOT_EMPTY", "NOT_FULL"}
                        /\ data[s] \in 0..Capacity
  /\ client \in [Streams -> {"idle", "sent", "await", "gone"}]
  /\ mCallback \in [Streams -> BOOLEAN] /\ registered \in [Streams -> BOOLEAN]
  /\ cb \in [Streams -> {"none", "entered", "notifying"}]

All(v)   == [s \in Streams |-> v]

Init ==
  /\ dev \in [live : {FALSE}, isClosed : {TRUE}, hal : {"closed"},
             version : Versions]
  /\ opened = 0 /\ lost = FALSE /\ overtaken = {} /\ dir = All("out")
  /\ obj = All("none") /\ call = All("none") /\ loaded = All(0)
  /\ hal = All("closed") /\ stop = All(TRUE)
  /\ thread = All("none") /\ now = All(NoJob)
  /\ prepared = All(FALSE) /\ cmd = All(<<>>) /\ status = All(<<>>)
  /\ data = All(0) /\ flags = All({}) /\ client = All("idle")
  /\ mCallback = All(FALSE) /\ registered = All(FALSE) /\ cb = All("none")

(* A definition whose name ends in an underscore and a word is never used   *)
(* by the specification: it is the next definition with a plausible bug,    *)
(* listed under "mutants" in PROJECT.json.                                  *)
-----------------------------------------------------------------------------
(* The device.                                                              *)

OpenDevice ==
  /\ ~dev.live
  /\ dev' \in [live : {TRUE}, isClosed : {FALSE}, hal : {"open"},
              version : Versions]
  /\ opened' = 0 /\ lost' = FALSE /\ overtaken' = {}
  /\ UNCHANGED <<life, worker, queues, hook>>

(* doClose: the device d after it.                                          *)
Closed(d) ==
  IF d.isClosed \/ opened # 0 THEN d
  ELSE [d EXCEPT !.isClosed = TRUE, !.hal = "closed"]

(* It takes no account of a stream the HAL has opened but openOutputStream- *)
(* Core has not counted.                                                    *)
CloseDevice ==
  /\ Early
  /\ dev.live
  /\ dev' = Closed(dev)
  /\ overtaken' = IF Closed(dev) = dev THEN overtaken
                  ELSE {s \in Streams : call[s] \in {"count", "add"}}
  /\ UNCHANGED <<opened, lost, life, worker, queues, hook>>

(* ~Device, once neither the client nor a stream refers to it.  (A client   *)
(* that has let go of the device is one that calls it no more.)             *)
DestroyDevice ==
  /\ dev.live
  /\ \A s \in Streams : obj[s] = "none" /\ call[s] = "none"
  /\ dev' = [Closed(dev) EXCEPT !.live = FALSE]
  /\ UNCHANGED <<opened, lost, overtaken, life, worker, queues, hook>>
-----------------------------------------------------------------------------
(* Opening and closing a HAL stream.  The count is a plain int that binder  *)
(* threads read and write back in parallel, without a lock: calls about two *)
(* streams, and about the device, overlap in any way.  A client makes one   *)
(* call about a stream at a time.                                           *)

(* The HAL may refuse: nothing changes then.  The direction of a stream     *)
(* whose queues nobody uses makes no difference.                            *)
OpenStream(s) ==
  /\ dev.live /\ ~dev.isClosed /\ opened < MaxCount
  /\ obj[s] = "none" /\ call[s] = "none"
  /\ \E d \in IF s \in Served THEN {"out", "in"} ELSE {"out"} : dir' = [dir EXCEPT ![s] = d]
  /\ obj' = [obj EXCEPT ![s] = "live"]
  /\ hal' = [hal EXCEPT ![s] = "open"]
  /\ stop' = [stop EXCEPT ![s] = FALSE]
  /\ call' = [call EXCEPT ![s] = "count"]
  /\ UNCHANGED <<loaded, device, worker, queues, hook>>

Count(s) ==
  /\ call[s] = "count"
  /\ loaded' = [loaded EXCEPT ![s] = opened]
  /\ call' = [call EXCEPT ![s] = "add"]
  /\ UNCHANGED <<dir, obj, hal, stop, device, worker, queues, hook>>

Add(s) ==
  /\ call[s] = "add"
  /\ opened' = loaded[s] + 1
  /\ lost' = (lost \/ opened # loaded[s])
  /\ loaded' = [loaded EXCEPT ![s] = 0]
  /\ call' = [call EXCEPT ![s] = "none"]
  /\ UNCHANGED <<dev, overtaken, dir, obj, hal, stop, worker, queues, hook>>

(* close_output_stream and close_input_stream wait for the HAL's callback   *)
(* thread and stop it.                                                      *)
HalClose(s) ==
  /\ call[s] = "halClose"
  /\ cb[s] = "none"
  /\ hal' = [hal EXCEPT ![s] = "closed"]
  /\ registered' = [registered EXCEPT ![s] = FALSE]
  /\ call' = [call EXCEPT ![s] = "check"]
  /\ UNCHANGED <<dir, obj, loaded, stop, device, worker, queues, mCallback, cb>>

(* LOG_ALWAYS_FATAL_IF(mOpenedStreamsCount == 0); the value it tests is the *)
(* one that is decremented.                                                 *)
Check(s) ==
  /\ call[s] = "check"
  /\ opened # 0
  /\ loaded' = [loaded EXCEPT ![s] = opened]
  /\ call' = [call EXCEPT ![s] = "subtract"]
  /\ UNCHANGED <<dir, obj, hal, stop, device, worker, queues, hook>>

(* It ends the process, and everything begins anew.                         *)
Abort(s) ==
  /\ call[s] = "check"
  /\ opened = 0
  /\ dev' = [dev EXCEPT !.live = FALSE, !.isClosed = TRUE, !.hal = "closed"]
  /\ opened' = 0 /\ lost' = FALSE /\ overtaken' = {} /\ dir' = All("out")
  /\ obj' = All("none") /\ call' = All("none") /\ loaded' = All(0)
  /\ hal' = All("closed") /\ stop' = All(TRUE)
  /\ thread' = All("none") /\ now' = All(NoJob)
  /\ prepared' = All(FALSE) /\ cmd' = All(<<>>) /\ status' = All(<<>>)
  /\ data' = All(0) /\ flags' = All({}) /\ client' = All("idle")
  /\ mCallback' = All(FALSE) /\ registered' = All(FALSE) /\ cb' = All("none")

(* The end of closeOutputStream: the caller is close() or, up to version 5, *)
(* the destructor, which is done with it.                                   *)
Subtract_OutputsOnly(s) ==
  /\ call[s] = "subtract"
  /\ opened' = IF dir[s] = "out" THEN loaded[s] - 1 ELSE opened
  /\ lost' = (lost \/ opened # loaded[s])
  /\ loaded' = [loaded EXCEPT ![s] = 0]
  /\ call' = [call EXCEPT ![s] = IF Early /\ obj[s] = "dying" THEN "join" ELSE "none"]
  /\ obj' = [obj EXCEPT ![s] = IF ~Early THEN "none" ELSE @]
  /\ UNCHANGED <<dev, overtaken, dir, hal, stop, worker, queues, hook>>

Subtract(s) ==
  /\ call[s] = "subtract"
  /\ opened' = loaded[s] - 1
  /\ lost' = (lost \/ opened # loaded[s])
  /\ loaded' = [loaded EXCEPT ![s] = 0]
  /\ call' = [call EXCEPT ![s] = IF Early /\ obj[s] = "dying" THEN "join" ELSE "none"]
  /\ obj' = [obj EXCEPT ![s] = IF ~Early THEN "none" ELSE @]
  /\ UNCHANGED <<dev, overtaken, dir, hal, stop, worker, queues, hook>>
-----------------------------------------------------------------------------
(* close() and the destructor of a stream.                                  *)

(* A client that closes the stream, lets go of it or dies leaves a command  *)
(* it has sent behind.                                                      *)
Abandoned(s) == client' = [client EXCEPT ![s] = IF @ = "idle" THEN "idle" ELSE "gone"]

Close(s) ==
  /\ obj[s] = "live" /\ call[s] = "none"
  /\ ~stop[s]
  /\ stop' = [stop EXCEPT ![s] = TRUE]
  /\ call' = [call EXCEPT ![s] = "wake"]
  /\ Abandoned(s)
  /\ UNCHANGED <<dir, obj, loaded, hal, device, worker, prepared, cmd, status, data, flags,
                 hook>>

AfterWake_Again(s) == IF Early \/ obj[s] = "dying" THEN "halClose" ELSE "none"

AfterWake(s) ==
  CASE Early                       -> "halClose"
    [] ~Early /\ obj[s] = "dying" -> "join"
    [] ~Early /\ obj[s] # "dying" -> "none"

Wake_WrongBit(s) ==
  /\ call[s] = "wake"
  /\ flags' = [flags EXCEPT ![s] = IF prepared[s] THEN @ \cup {Reply(s)} ELSE @]
  /\ call' = [call EXCEPT ![s] = AfterWake(s)]
  /\ UNCHANGED <<dir, obj, loaded, hal, stop, device, worker, prepared, cmd, status,
                 data, client, hook>>

Wake(s) ==
  /\ call[s] = "wake"
  /\ flags' = [flags EXCEPT ![s] = IF prepared[s] THEN @ \cup {Request(s)} ELSE @]
  /\ call' = [call EXCEPT ![s] = AfterWake(s)]
  /\ UNCHANGED <<dir, obj, loaded, hal, stop, device, worker, prepared, cmd, status,
                 data, client, hook>>

(* The last reference goes.  The destructor begins with close().            *)
Destroy(s) ==
  /\ obj[s] = "live" /\ call[s] = "none"
  /\ obj' = [obj EXCEPT ![s] = "dying"]
  /\ stop' = [stop EXCEPT ![s] = TRUE]
  /\ call' = [call EXCEPT ![s] = IF stop[s] THEN "join" ELSE "wake"]
  /\ Abandoned(s)
  /\ UNCHANGED <<dir, loaded, hal, device, worker, prepared, cmd, status, data, flags, hook>>

Joined(s) == thread[s] \in {"none", "exited"}

Join(s) ==
  /\ call[s] = "join"
  /\ Joined(s)
  /\ thread' = [thread EXCEPT ![s] = IF @ = "exited" THEN "none" ELSE @]
  /\ call' = [call EXCEPT ![s] = "free"]
  /\ UNCHANGED <<dir, obj, loaded, hal, stop, device, now, queues, hook>>

(* The rest of the destructor.  Up to version 5 the HAL stream goes last.   *)
Free(s) ==
  /\ call[s] = "free"
  /\ prepared' = [prepared EXCEPT ![s] = FALSE]
  /\ cmd' = [cmd EXCEPT ![s] = <<>>] /\ status' = [status EXCEPT ![s] = <<>>]
  /\ data' = [data EXCEPT ![s] = 0]  /\ flags' = [flags EXCEPT ![s] = {}]
  /\ client' = [client EXCEPT ![s] = "idle"]
  /\ now' = [now EXCEPT ![s] = NoJob]
  /\ mCallback' = [mCallback EXCEPT ![s] = FALSE]
  /\ call' = [call EXCEPT ![s] = IF Early THEN "none" ELSE "halClose"]
  /\ obj' = [obj EXCEPT ![s] = IF Early THEN "none" ELSE @]
  /\ UNCHANGED <<dir, loaded, hal, stop, device, thread, registered, cb>>

(* prepareForWriting, prepareForReading.  A second call is refused; a call  *)
(* with a bad size, or that fails to make the queues or the thread, leaves  *)
(* everything as it was.                                                    *)
Prepare(s) ==
  /\ s \in Served /\ obj[s] = "live" /\ call[s] = "none"
  /\ ~prepared[s]
  /\ prepared' = [prepared EXCEPT ![s] = TRUE]
  /\ thread' = [thread EXCEPT ![s] = "test"]
  /\ UNCHANGED <<device, life, now, cmd, status, data, flags, client, hook>>
-----------------------------------------------------------------------------
(* The worker: WriteThread and ReadThread.                                  *)

Goto(s, pc) == thread' = [thread EXCEPT ![s] = pc]

TestStop(s) ==
  /\ thread[s] = "test"
  /\ Goto(s, IF stop[s] THEN "exited" ELSE "wait")
  /\ UNCHANGED <<device, life, now, queues, hook>>

WaitRequest(s) ==
  /\ thread[s] = "wait"
  /\ Request(s) \in flags[s]
  /\ flags' = [flags EXCEPT ![s] = @ \ {Request(s)}]
  /\ Goto(s, "read")
  /\ UNCHANGED <<device, life, now, prepared, cmd, status, data, client, hook>>

(* While the bit is not set the wait may be interrupted.                    *)
Spurious(s) ==
  /\ thread[s] = "wait"
  /\ Request(s) \notin flags[s]
  /\ Goto(s, "test")
  /\ UNCHANGED <<device, life, now, queues, hook>>

ReadCommand(s) ==
  /\ thread[s] = "read"
  /\ \/ /\ cmd[s] = <<>>
        /\ Goto(s, "test")
        /\ UNCHANGED <<cmd, now>>
     \/ /\ cmd[s] # <<>>
        /\ now' = [now EXCEPT ![s] = Head(cmd[s])]
        /\ cmd' = [cmd EXCEPT ![s] = <<>>]
        /\ Goto(s, "serve")
  /\ UNCHANGED <<device, life, prepared, status, data, flags, client, hook>>

(* doWrite takes what the data queue holds into the HAL's write.            *)
DoWrite(s) ==
  /\ thread[s] = "serve" /\ now[s].op = "WRITE"
  /\ now' = [now EXCEPT ![s].n = data[s]]
  /\ data' = [data EXCEPT ![s] = 0]
  /\ Goto(s, "hal")
  /\ UNCHANGED <<device, life, prepared, cmd, status, flags, client, hook>>

(* doRead asks the HAL for no more than the data queue has room for.        *)
Truncated_Not(n, room) == n

Truncated(n, room) == IF n > room THEN room ELSE n

DoRead(s) ==
  /\ thread[s] = "serve" /\ now[s].op = "READ"
  /\ now' = [now EXCEPT ![s].n = Truncated(@, Capacity - data[s])]
  /\ Goto(s, "hal")
  /\ UNCHANGED <<device, life, queues, hook>>

(* GET_LATENCY goes the same way.                                           *)
DoGetPosition(s) ==
  /\ thread[s] = "serve" /\ now[s].op = Position(s)
  /\ Goto(s, "hal")
  /\ UNCHANGED <<device, life, now, queues, hook>>

UnknownCommand(s) ==
  /\ thread[s] = "serve" /\ now[s].op = Unknown
  /\ Goto(s, "answer")
  /\ UNCHANGED <<device, life, now, queues, hook>>

(* The HAL returns the number of frames it took or gave, none if it failed. *)
HalReturn(s) ==
  /\ thread[s] = "hal"
  /\ \E k \in 0..now[s].n :
       /\ now' = [now EXCEPT ![s].n = k]
       /\ data' = [data EXCEPT ![s] =
            IF now[s].op = "READ" /\ @ + k <= Capacity THEN @ + k ELSE @]
  /\ Goto(s, "answer")
  /\ UNCHANGED <<device, life, prepared, cmd, status, flags, client, hook>>

(* An answer that finds the status queue full is lost.                      *)
Answer(s) ==
  /\ thread[s] = "answer"
  /\ status' = [status EXCEPT ![s] = IF @ = <<>> THEN <<now[s]>> ELSE @]
  /\ now' = [now EXCEPT ![s] = NoJob]
  /\ Goto(s, "wake")
  /\ UNCHANGED <<device, life, prepared, cmd, data, flags, client, hook>>

WakeClient_NotFull(s) ==
  /\ thread[s] = "wake"
  /\ flags' = [flags EXCEPT ![s] = @ \cup {"NOT_FULL"}]
  /\ Goto(s, "test")
  /\ UNCHANGED <<device, life, now, prepared, cmd, status, data, client, hook>>

WakeClient(s) ==
  /\ thread[s] = "wake"
  /\ flags' = [flags EXCEPT ![s] = @ \cup {Reply(s)}]
  /\ Goto(s, "test")
  /\ UNCHANGED <<device, life, now, prepared, cmd, status, data, client, hook>>
-----------------------------------------------------------------------------
(* The HAL's callback thread and the client's callback.                     *)

SetCallback(s) ==
  /\ s \in Served /\ dir[s] = "out" /\ obj[s] = "live" /\ call[s] = "none" /\ ~stop[s]
  /\ registered' = [registered EXCEPT ![s] = TRUE]
  /\ mCallback' = [mCallback EXCEPT ![s] = TRUE]
  /\ UNCHANGED <<device, life, worker, queues, cb>>

ClearCallback(s) ==
  /\ s \in Served /\ dir[s] = "out" /\ obj[s] = "live" /\ call[s] = "none" /\ ~stop[s]
  /\ mCallback' = [mCallback EXCEPT ![s] = FALSE]
  /\ UNCHANGED <<device, life, worker, queues, registered, cb>>

HalCallback(s) ==
  /\ registered[s] /\ hal[s] = "open" /\ call[s] # "halClose"
  /\ cb[s] = "none"
  /\ cb' = [cb EXCEPT ![s] = "entered"]
  /\ UNCHANGED <<device, life, worker, queues, mCallback, registered>>

(* asyncCallback loads mCallback and calls the client without a lock.       *)
LoadCallback(s) ==
  /\ cb[s] = "entered"
  /\ cb' = [cb EXCEPT ![s] = IF mCallback[s] THEN "notifying" ELSE "none"]
  /\ UNCHANGED <<device, life, worker, queues, mCallback, registered>>

CallbackReturn(s) ==
  /\ cb[s] = "notifying"
  /\ cb' = [cb EXCEPT ![s] = "none"]
  /\ UNCHANGED <<device, life, worker, queues, mCallback, registered>>
-----------------------------------------------------------------------------
(* The client's end of the queues: one command at a time.                   *)

Commands(s) ==
  {[op |-> o, n |-> 0] :
     o \in {Position(s), Unknown} \cup (IF dir[s] = "out" THEN {"WRITE"} ELSE {})}
  \cup {[op |-> "READ", n |-> k] :
          k \in IF dir[s] = "out" THEN {} ELSE 0..(Capacity + 1)}

ClientRequest(s) ==
  /\ prepared[s] /\ obj[s] = "live" /\ client[s] = "idle" /\ cmd[s] = <<>>
  /\ call[s] = "none" /\ ~stop[s]
  /\ \E c \in Commands(s) :
       /\ cmd' = [cmd EXCEPT ![s] = <<c>>]
       /\ \E k \in IF c.op = "WRITE" THEN 0..(Capacity - data[s]) ELSE {0} :
            data' = [data EXCEPT ![s] = @ + k]
  /\ client' = [client EXCEPT ![s] = "sent"]
  /\ UNCHANGED <<device, life, worker, prepared, status, flags, hook>>

ClientWake(s) ==
  /\ client[s] = "sent"
  /\ flags' = [flags EXCEPT ![s] = @ \cup {Request(s)}]
  /\ client' = [client EXCEPT ![s] = "await"]
  /\ UNCHANGED <<device, life, worker, prepared, cmd, status, data, hook>>

ClientAnswer(s) ==
  /\ client[s] = "await"
  /\ Reply(s) \in flags[s]
  /\ flags' = [flags EXCEPT ![s] = @ \ {Reply(s)}]
  /\ \/ /\ status[s] = <<>>
        /\ UNCHANGED <<status, data, client>>
     \/ /\ status[s] # <<>>
        /\ status' = [status EXCEPT ![s] = <<>>]
        /\ client' = [client EXCEPT ![s] = "idle"]
        /\ \E k \in IF Head(status[s]).op = "READ" THEN 0..Head(status[s]).n ELSE {0} :
             /\ k <= data[s]
             /\ data' = [data EXCEPT ![s] = @ - k]
  /\ UNCHANGED <<device, life, worker, prepared, cmd, hook>>
-----------------------------------------------------------------------------
Calls(s) ==
  \/ Count(s) \/ Add(s) \/ Wake(s) \/ HalClose(s) \/ Check(s) \/ Abort(s)
  \/ Subtract(s) \/ Join(s) \/ Free(s)

ThreadLoop(s) ==
  \/ TestStop(s) \/ WaitRequest(s) \/ ReadCommand(s)
  \/ DoWrite(s) \/ DoRead(s) \/ DoGetPosition(s) \/ UnknownCommand(s)
  \/ HalReturn(s) \/ Answer(s) \/ WakeClient(s)

AsyncCallback(s) == LoadCallback(s) \/ CallbackReturn(s)

Next ==
  \/ OpenDevice \/ CloseDevice \/ DestroyDevice
  \/ \E s \in Streams :
       \/ OpenStream(s) \/ Close(s) \/ Destroy(s) \/ Prepare(s)
       \/ SetCallback(s) \/ ClearCallback(s) \/ HalCallback(s)
       \/ Calls(s) \/ ThreadLoop(s) \/ Spurious(s) \/ AsyncCallback(s)
       \/ ClientRequest(s) \/ ClientWake(s) \/ ClientAnswer(s)

Spec == Init /\ [][Next]_vars

(* A binder thread, a worker and the HAL's callback thread keep running; a  *)
(* call of the HAL returns.  Nothing is assumed of the client.              *)
Fairness == \A s \in Served :
  WF_vars(Calls(s)) /\ WF_vars(ThreadLoop(s)) /\ WF_vars(AsyncCallback(s))

FairSpec == Spec /\ Fairness
-----------------------------------------------------------------------------
(* Nothing is used after it is gone.  A HAL stream is used only while it is *)
(* open and closed only once: by the worker inside a HAL call, the callback *)
(* thread, close() and the destructor.  Only the worker of a stream whose   *)
(* client closes it, from version 6 on, with a command under way may find   *)
(* it closed: close() does not wait for it (StreamOut.cpp:326-328).         *)
HalStreamAlive == \A s \in Streams :
  /\ cb[s] # "none" \/ call[s] = "halClose" => hal[s] = "open"
  /\ thread[s] = "hal" => hal[s] = "open" \/ (Early /\ stop[s] /\ client[s] # "idle")

(* The two threads, which hold a bare pointer to the stream object, are     *)
(* gone when it is: the comments of WriteThread and asyncCallback rely on   *)
(* it (StreamOut.cpp:52, 476).                                              *)
ObjectOutlivesThreads == \A s \in Streams :
  obj[s] = "none" => thread[s] = "none" /\ cb[s] = "none"

(* The HAL device is closed neither under an open stream nor after the      *)
(* Device, unless the count has lost a call; a stream whose opening it      *)
(* overtook may be open (doClose).                                          *)
DeviceOutlivesStreams == ~lost =>
  /\ dev.hal = "closed" => \A s \in Streams : hal[s] = "closed" \/ s \in overtaken
  /\ ~dev.live => dev.hal = "closed"

NothingDangles ==
  TypeOK /\ HalStreamAlive /\ ObjectOutlivesThreads /\ DeviceOutlivesStreams

(* Until one call writes the count back over another's change of it,        *)
(* mOpenedStreamsCount is the number of open HAL streams whenever no call   *)
(* is changing it, so that doClose decides rightly, and LOG_ALWAYS_FATAL_IF *)
(* does not end the process, however else calls overlap (++ and -- in       *)
(* openOutputStreamCore, closeOutputStream and their like for input).       *)
CountExact == ~lost =>
  /\ (\A s \in Streams : call[s] \notin {"count", "add", "check", "subtract"}) =>
       opened = Cardinality({s \in Streams : hal[s] = "open"})
  /\ \A s \in Streams : call[s] = "check" => opened # 0

(* An answer tells the truth about the data queue: a write has emptied it,  *)
(* and the frames of a read are in it (doWrite, doRead).                    *)
AnswerMatchesData == \A s \in Streams : status[s] # <<>> =>
  LET a == Head(status[s]) IN
    /\ a.op = "WRITE" => data[s] = 0
    /\ a.op = "READ"  => a.n <= data[s]

(* No wake-up is lost, which is what the two properties below rest on: a    *)
(* stopped worker does not sleep on, and while a client waits its command   *)
(* is on its way to a worker that will see it, or its answer on its way     *)
(* back (close, threadLoop; the bits of the event flag may be stale).       *)
NoLostWakeUp == \A s \in Streams :
  /\ thread[s] = "wait" /\ stop[s] => Request(s) \in flags[s] \/ call[s] = "wake"
  /\ client[s] = "await" /\ ~stop[s] =>
       /\ thread[s] \notin {"none", "exited"}
       /\ \/ cmd[s] # <<>> /\ (Request(s) \in flags[s] \/ thread[s] = "read")
          \/ thread[s] \in {"serve", "hal", "answer"}
          \/ status[s] # <<>> /\ (thread[s] = "wake" \/ Reply(s) \in flags[s])

(* A destructor that has begun ends, or the process does: the join does not *)
(* wait for a worker that nobody wakes (close, ~StreamOut, ~StreamIn).      *)
DestructorEnds == \A s \in Served : obj[s] = "dying" ~> obj[s] = "none"

(* A client that has sent a command and woken the worker gets an answer and *)
(* is woken, unless the stream is stopped or the process ends (threadLoop). *)
Answered == \A s \in Served :
  client[s] = "await" ~> \/ client[s] = "idle" \/ stop[s]
                         \/ status[s] # <<>> /\ Reply(s) \in flags[s]
=============================================================================
