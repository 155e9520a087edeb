---------------------------- MODULE BluetoothPcm ----------------------------
(***************************************************************************)
(* The audio data of one stream: out_write and in_read, the message queue   *)
(* (FMQ) of the session they move the data through, the frame counters, and *)
(* what other threads do with the stream while they do.                     *)
(*                                                                         *)
(*   client thread --- BluetoothStreamOut/In --- FMQ --- Bluetooth stack    *)
(*                           other thread                                  *)
(*                                                                         *)
(* The transfer polls the queue and holds the session mutex for one poll at *)
(* a time; the stream's mutex_ is free meanwhile, so that the session may   *)
(* end or restart, the stack may answer, and another thread may suspend or  *)
(* stop the stream in between (out_standby, out_pause and in_standby by a   *)
(* thread of the service, out_set_parameters by the device's).  A wait for  *)
(* an answer of the stack (Start, Suspend), on the other hand, holds        *)
(* mutex_; the loops that give a state a little time to change let go of it *)
(* while they sleep.  How the stack finds a port and what Start and Suspend *)
(* do step by step is in BluetoothSession; here they are one step each.     *)
(*                                                                         *)
(* Data are samples, numbered in the order their source produces them.      *)
(***************************************************************************)
EXTENDS Naturals, Sequences, FiniteSetsExt, BluetoothPort

CONSTANTS
  Sizes,       \* of the client's buffers, in samples (whole frames)
  QueueSize,   \* of the message queue
  MaxPolls,    \* polls before giving up (1000 for the FMQ, 20 for a state)
  Latencies,   \* of the remote device, in frames
  MaxSessions, \* bound on the sessions
  MaxSamples   \* bound on the samples of the track

FrameSize == 2 \* samples of a stereo frame

ASSUME PcmAssumption ==
  /\ \A n \in Sizes : n \in Nat \ {0} /\ n % FrameSize = 0
  /\ QueueSize \in Nat \ {0} /\ MaxPolls \in Nat \ {0} /\ Latencies \subseteq Nat
  /\ MaxSessions \in Nat /\ MaxSamples \in Nat

VARIABLES
  direction,   \* "out" or "in"
  mono,        \* is_stereo_to_mono_: the session wants one sample per frame
  session,     \* number of the last session
  ready,       \* IsSessionReady
  queue,       \* the samples in its message queue
  transmitted, \* the stack's own count of this session's samples
  state,       \* state_ of the port
  pc,          \* where the client's thread is
  rest,        \* what is left of its buffer
  done,        \* items OutWritePcmData or InReadPcmData has moved so far
  polls,       \* how often it may still poll
  other,       \* where the other thread is
  waits,       \* how often it may still look at the state
  frames_presented,
  position,    \* samples of the track its source is done with
  moved,       \* history: <<session, sample>> of what the stream moved
  dropped,     \* history: samples thrown away on purpose, or with a session
  restarted,   \* history: in_read has started the stream under in_standby
  aligned      \* history: neither the stack's count nor the HAL's was reset,
               \* nor a buffer written in part, since both were 0

link    == <<session, ready, queue, transmitted>>
frames  == <<frames_presented, aligned>>
thread  == <<pc, rest, done, polls>>
control == <<other, waits, restarted>>
track   == <<position, moved, dropped>>
vars    == <<direction, mono, link, state, frames, thread, control, track>>

(* A definition whose name ends in an underscore and a word is never used   *)
(* by the specification: it is the next definition with a plausible bug,    *)
(* listed under "mutants" in PROJECT.json.                                  *)

Init ==
  /\ direction \in {"out", "in"} /\ mono \in BOOLEAN /\ (mono => direction = "out")
  /\ session = 0 /\ ready = FALSE /\ queue = <<>> /\ transmitted = 0
  /\ state = "DISABLED" /\ frames_presented = 0 /\ aligned = TRUE
  /\ pc = "closed" /\ rest = 0 /\ done = 0 /\ polls = 0
  /\ other = "idle" /\ waits = 0 /\ restarted = FALSE
  /\ position = 0 /\ moved = <<>> /\ dropped = {}

-----------------------------------------------------------------------------
(* The session and the stack (external).                                    *)

SessionChanged_Ignored == state
SessionChanged == IF pc = "closed" THEN state ELSE "DISABLED"

(* The client's thread is in OutWritePcmData or InReadPcmData, or has not   *)
(* counted what it moved there.                                             *)
Transferring == pc \in {"moving", "count"}

(* What was in the queue goes with it; what an input stream has not read is *)
(* lost.                                                                    *)
NewQueue == /\ queue' = <<>> /\ transmitted' = 0
            /\ aligned' = (frames_presented = 0 /\ (Transferring => done = 0))
            /\ dropped' = IF direction = "in"
                          THEN dropped \cup {queue[i] : i \in DOMAIN queue}
                          ELSE dropped

(* OnSessionStarted, of a stack that may have been restarted; nobody is     *)
(* told when its queue cannot be mapped.                                    *)
SessionStarted ==
  /\ session < MaxSessions /\ session' = session + 1
  /\ NewQueue
  /\ \/ ready' = TRUE /\ state' = SessionChanged
     \/ ready' = FALSE /\ UNCHANGED state
  /\ UNCHANGED <<direction, mono, frames_presented, thread, control, position, moved>>

SessionEnded ==
  /\ ready /\ ready' = FALSE
  /\ NewQueue
  /\ state' = SessionChanged
  /\ UNCHANGED <<direction, mono, session, frames_presented, thread, control, position,
                 moved>>

StackAnswered(status) ==
  /\ ready /\ state \notin {"STANDBY", "DISABLED"}
  /\ state' = ControlResult(state, status)
  /\ UNCHANGED <<direction, mono, link, frames, thread, control, track>>

(* The stack takes a sample of an output stream, or has one for an input.   *)
StackMoves ==
  /\ ready /\ transmitted' = transmitted + 1
  /\ IF direction = "out"
     THEN /\ queue # <<>> /\ queue' = Tail(queue)
          /\ UNCHANGED position
     ELSE /\ position < MaxSamples /\ Len(queue) < QueueSize
          /\ position' = position + 1
          /\ queue' = Append(queue, position + 1)
  /\ UNCHANGED <<direction, mono, session, ready, state, frames, thread, control, moved,
                 dropped>>

-----------------------------------------------------------------------------
(* The client's thread.                                                     *)

Goto(l) == pc' = l

(* The other thread has mutex_ while it waits for an answer.                *)
Lock == other \notin {"pausing", "stopping", "halting"}

Idle(returned) == Goto(IF returned THEN "idle" ELSE pc)

Quiet == UNCHANGED <<direction, mono, link, control>>

(* adev_open_*_stream and adev_close_*_stream, which no other call may      *)
(* overlap: it deletes the stream.                                          *)
Open ==
  /\ pc = "closed" /\ ready
  /\ state' = "STANDBY" /\ frames_presented' = 0
  /\ aligned' = (transmitted = 0 /\ queue = <<>>)
  /\ Goto("idle") /\ rest' = 0
  /\ UNCHANGED <<done, polls, track>> /\ Quiet

Close ==
  /\ pc = "idle" /\ other = "idle"
  /\ state' = "DISABLED"
  /\ IF state = "DISABLED" \/ direction = "in"
     THEN UNCHANGED frames
     ELSE frames_presented' = 0 /\ aligned' = FALSE
  /\ Goto("closed") /\ rest' = 0
  /\ position' = IF direction = "out" THEN position + rest ELSE position
  /\ dropped' = dropped \cup (position + 1)..position'
  /\ UNCHANGED <<done, polls, moved>> /\ Quiet

(* The client comes with a new buffer, or with what is left of the last one *)
(* (an input stream fills any buffer from its start).                       *)
Buffer == IF rest = 0 \/ direction = "in" THEN Sizes ELSE {rest}

Begin_Transfer == Goto("moving") /\ done' = 0 /\ polls' = MaxPolls

OutWrite(bytes) ==
  /\ direction = "out" /\ pc = "idle" /\ Lock
  /\ position + bytes <= MaxSamples
  /\ rest' = bytes
  /\ IF state = "STARTED" THEN Begin_Transfer ELSE Goto("resume") /\ UNCHANGED <<done, polls>>
  /\ UNCHANGED <<state, frames, track>> /\ Quiet

(* stream->resume(stream), after mutex_ was free for a moment.              *)
OutResume ==
  /\ pc = "resume" /\ Lock
  /\ CASE state = "STARTED" -> Begin_Transfer /\ UNCHANGED state
       [] state = "STANDBY" -> /\ state' = "STARTING" /\ Goto("starting")
                               /\ UNCHANGED <<done, polls>>
       [] OTHER -> Goto("refused") /\ UNCHANGED <<state, done, polls>>
  /\ UNCHANGED <<rest, frames, track>> /\ Quiet

(* Start returns: it was answered, or StartStream failed, or 4500 ms over.  *)
Started ==
  /\ pc = "starting"
  /\ IF state = "STARTED" THEN Begin_Transfer
     ELSE /\ Goto(IF direction = "out" THEN "refused" ELSE "idle")
          /\ UNCHANGED <<done, polls>>
  /\ UNCHANGED <<rest, state, frames, track>> /\ Quiet

(* resume failed: the buffer is dropped, as if written, if DISABLED.        *)
OutRefused ==
  /\ pc = "refused" /\ Goto("idle")
  /\ IF state = "DISABLED"
     THEN /\ position' = position + rest
          /\ dropped' = dropped \cup (position + 1)..position'
          /\ rest' = 0
     ELSE UNCHANGED <<position, dropped, rest>>
  /\ UNCHANGED <<done, polls, state, frames, moved>> /\ Quiet

(* in_read, which gives a start that is under way a little time.            *)
InRead(bytes) ==
  /\ direction = "in" /\ pc = "idle"
  /\ rest' = bytes /\ Goto("read") /\ polls' = MaxPolls
  /\ UNCHANGED <<done, state, frames, track>> /\ Quiet

(* Start may come where in_standby has let go of mutex_.                    *)
InStart ==
  /\ pc = "read" /\ Lock
  /\ CASE state = "STARTING" -> /\ polls' = polls - 1
                                /\ Idle(polls = 1)
                                /\ UNCHANGED <<state, done>>
       [] state = "STARTED" -> Begin_Transfer /\ UNCHANGED state
       [] state = "STANDBY" -> /\ state' = "STARTING" /\ Goto("starting")
                               /\ UNCHANGED <<done, polls>>
       [] OTHER -> Goto("idle") /\ UNCHANGED <<state, done, polls>>
  /\ restarted' = (restarted \/ (other = "settle" /\ state = "STANDBY"))
  /\ UNCHANGED <<direction, mono, link, other, waits, rest, frames, track>>

-----------------------------------------------------------------------------
(* The transfer.                                                            *)

Step  == IF mono THEN FrameSize ELSE 1
Items == rest \div Step

(* The sample that the k-th item of the buffer stands for.                  *)
Sample_FromStart(k) == position + 1 + (k - done - 1) * Step
Sample(k) == position + 1 + (k - 1) * Step

(* One poll of OutWritePcmData ...                                          *)
Write(n) ==
  /\ direction = "out" /\ n > 0
  /\ LET new == [k \in 1..n |-> Sample(done + k)]
     IN /\ queue' = queue \o new
        /\ moved' = moved \o [k \in 1..n |-> <<session, new[k]>>]
  /\ done' = done + n
  /\ UNCHANGED polls

(* ... and of InReadPcmData.                                                *)
Read(n) ==
  /\ direction = "in" /\ n > 0
  /\ queue' = SubSeq(queue, n + 1, Len(queue))
  /\ moved' = moved \o [k \in 1..n |-> <<session, queue[k]>>]
  /\ done' = done + n
  /\ UNCHANGED polls

Available == LET most == IF direction = "out" THEN QueueSize - Len(queue) ELSE Len(queue)
             IN Min({most, Items - done})

PollAgain_Forever == polls' = polls
PollAgain == polls > 0 /\ polls' = polls - 1

Poll ==
  /\ pc = "moving" /\ ready /\ done < Items
  /\ \/ Write(Available) \/ Read(Available)
     \/ Available = 0 /\ PollAgain /\ UNCHANGED <<queue, moved, done>>
  /\ UNCHANGED <<direction, mono, session, ready, transmitted, state, frames, pc, rest,
                 control, position, dropped>>

(* All is moved, the session is over, or polling took too long.             *)
Moved ==
  /\ pc = "moving"
  /\ done = Items \/ ~ready \/ (Available = 0 /\ polls = 0)
  /\ Goto("count")
  /\ UNCHANGED <<rest, done, polls, state, frames, track>> /\ Quiet

(* out_write counts the frames it was asked to write, in_read those it read.*)
Frames == (IF direction = "out" THEN rest ELSE done) \div FrameSize

CountFrames_Failed ==
  /\ frames_presented' = frames_presented + Frames
  /\ UNCHANGED aligned
CountFrames ==
  IF done = 0 THEN UNCHANGED frames
  ELSE /\ frames_presented' = frames_presented + Frames
       /\ aligned' = (aligned /\ (direction = "out" => done = Items))

Count ==
  /\ pc = "count" /\ Lock /\ Goto("idle")
  /\ IF direction = "out"
     THEN /\ position' = position + done * Step
          /\ rest' = rest - done * Step
     ELSE UNCHANGED <<position, rest>>
  /\ CountFrames
  /\ UNCHANGED <<done, polls, state, moved, dropped>> /\ Quiet

-----------------------------------------------------------------------------
(* The other thread.  It needs mutex_, which the client's has while Start   *)
(* waits for an answer.                                                     *)

OtherMay == pc \notin {"closed", "starting"}

OtherOnly == UNCHANGED <<direction, mono, link, thread, track>>

OtherGoto(l) == other' = l

(* out_standby and out_pause.                                               *)
OutStandby ==
  /\ direction = "out" /\ other = "idle" /\ OtherMay /\ state = "STARTED"
  /\ state' = "SUSPENDING" /\ OtherGoto("pausing")
  /\ UNCHANGED <<waits, restarted, frames>> /\ OtherOnly

(* in_standby, which first waits for a start that is under way.             *)
InStandby ==
  /\ direction = "in" /\ other = "idle" /\ OtherMay
  /\ OtherGoto("standby") /\ waits' = MaxPolls /\ restarted' = FALSE
  /\ UNCHANGED <<state, frames>> /\ OtherOnly

Pending_NotWaited == FALSE
Pending == state = "STARTING"

(* One look at the state in the loop of in_state_transition_timeout.        *)
Look == waits' = waits - 1 /\ OtherGoto(IF waits = 1 THEN "idle" ELSE other)

InSuspend ==
  /\ other = "standby" /\ OtherMay
  /\ IF Pending THEN Look /\ UNCHANGED state
     ELSE CASE state = "STARTED" -> /\ state' = "SUSPENDING" /\ OtherGoto("halting")
                                    /\ UNCHANGED waits
            [] state = "SUSPENDING" -> /\ OtherGoto("settle") /\ waits' = MaxPolls
                                       /\ UNCHANGED state
            [] OTHER -> OtherGoto("idle") /\ UNCHANGED <<state, waits>>
  /\ UNCHANGED <<restarted, frames>> /\ OtherOnly

(* Suspend returns: it was answered, or failed, or 4500 ms are over.        *)
Suspended ==
  /\ ~Lock
  /\ IF other = "halting" THEN OtherGoto("settle") /\ waits' = MaxPolls
                          ELSE OtherGoto("idle") /\ UNCHANGED waits
  /\ state' = IF other = "stopping" THEN "DISABLED" ELSE state
  /\ UNCHANGED <<restarted, frames>> /\ OtherOnly

InSettle ==
  /\ other = "settle" /\ OtherMay
  /\ IF state = "SUSPENDING" THEN Look ELSE (OtherGoto("idle") /\ UNCHANGED waits)
  /\ UNCHANGED <<restarted, state, frames>> /\ OtherOnly

(* out_set_parameters, called by the device's thread (adev_set_parameters): *)
(* "A2dpSuspended=true": Suspend or Stop ...                                *)
A2dpSuspend ==
  /\ direction = "out" /\ other = "idle" /\ OtherMay
  /\ IF state = "STARTED" THEN state' = "SUSPENDING" /\ OtherGoto("stopping")
                          ELSE state' = "DISABLED" /\ UNCHANGED other
  /\ UNCHANGED <<waits, restarted, frames>> /\ OtherOnly

(* ... "A2dpSuspended=false" ...                                            *)
A2dpResume ==
  /\ direction = "out" /\ other = "idle" /\ OtherMay /\ state = "DISABLED"
  /\ state' = "STANDBY"
  /\ UNCHANGED <<control, frames>> /\ OtherOnly

(* ... "closing=true", "exiting=1".                                         *)
Closing ==
  /\ direction = "out" /\ other = "idle" /\ OtherMay /\ state # "DISABLED"
  /\ state' = "DISABLED" /\ frames_presented' = 0 /\ aligned' = FALSE
  /\ UNCHANGED control /\ OtherOnly

-----------------------------------------------------------------------------

Proceed == \/ OutResume \/ OutRefused \/ InStart \/ Started
           \/ Poll \/ Moved \/ Count

OtherProceeds == InSuspend \/ Suspended \/ InSettle

Client == \/ Open \/ Close
          \/ \E bytes \in Buffer : OutWrite(bytes) \/ InRead(bytes)

OtherCalls == OutStandby \/ InStandby \/ A2dpSuspend \/ A2dpResume \/ Closing

Stack == \/ SessionStarted \/ SessionEnded \/ StackMoves
         \/ \E status \in Status : StackAnswered(status)

Next == Proceed \/ OtherProceeds \/ Client \/ OtherCalls \/ Stack

(* Both threads go on, and a thread that waits for mutex_ gets it when it   *)
(* is free again and again.                                                 *)
Spec == Init /\ [][Next]_vars /\ SF_vars(Proceed) /\ SF_vars(OtherProceeds)

-----------------------------------------------------------------------------
(* Correctness.                                                             *)

(* What the device has played: out_calculate_feeding_delay_ms (and          *)
(* in_calculate_starving_delay_ms), from the stack's count and the HAL's.   *)
Absorbed == transmitted \div FrameSize

StackCount(latency) ==
  IF frames_presented < Absorbed \/ frames_presented - Absorbed > latency
  THEN frames_presented ELSE Absorbed

(* The types, the queue's limit, and no more polls than allowed.            *)
TypeOK ==
  /\ state \in StreamState /\ session \in 0..MaxSessions /\ ready \in BOOLEAN
  /\ pc \in {"closed", "idle", "resume", "starting", "refused", "read", "moving", "count"}
  /\ other \in {"idle", "pausing", "stopping", "standby", "halting", "settle"}
  /\ Len(queue) <= QueueSize /\ polls \in 0..MaxPolls /\ waits \in 0..MaxPolls
  /\ rest \in Nat /\ done \in Nat /\ frames_presented \in Nat
  /\ restarted \in BOOLEAN /\ aligned \in BOOLEAN
  /\ position \in 0..MaxSamples /\ dropped \subseteq 1..MaxSamples

(* Whatever a transfer is interrupted by, however little of a buffer it     *)
(* moves, and with a remainder offered again: the samples pass in order,    *)
(* none twice, and none is missing but those dropped while DISABLED or lost *)
(* with a session (OutWritePcmData, InReadPcmData, WriteData, out_write).   *)
InOrder ==
  /\ TypeOK
  /\ \A i \in DOMAIN moved :
       LET before == IF i = 1 THEN 1 ELSE moved[i - 1][2] + Step
       IN /\ i > 1 => moved[i - 1][1] <= moved[i][1]
          /\ before <= moved[i][2]
          /\ before..(moved[i][2] - 1) \subseteq dropped

(* One buffer may end up in the queues of two sessions, because the loop    *)
(* lets go of the session while it polls; but never on a stream that goes   *)
(* on playing: SessionChangedHandler has disabled it (OutWritePcmData).     *)
Sessions == {moved[i][1] : i \in (Len(moved) - done + 1)..Len(moved)}
SplitOnlyIfDisabled ==
  pc = "moving" /\ Sessions \ {session} # {} /\ ready => state \notin {"STARTING", "STARTED"}

(* The HAL takes the stack's count for that of another session when it is   *)
(* more than the latency behind its own ("Is the Bluetooth output reset /   *)
(* restarted?!", out_calculate_feeding_delay_ms), although it counts a      *)
(* buffer only after mutex_ was free and the stack may have sent it: as     *)
(* long as neither count was reset, no buffer written in part and the queue *)
(* is no longer than the latency, the stack's count, as far as the HAL's    *)
(* goes, is the one that is reported.                                       *)
ResetsToldApart ==
  aligned /\ ~mono =>
    \A latency \in Latencies :
      (direction = "out" => QueueSize <= latency * FrameSize)
        => StackCount(latency) = Min({frames_presented, Absorbed})

(* "Don't loose suspend request, AF will not retry": in_standby returns     *)
(* before its time is up only when the stream is neither started nor about  *)
(* to be, nor still suspending; unless it was suspended and in_read, which  *)
(* may take mutex_ between two looks at the state, has started it again.    *)
SuspendNotLost ==
  [][(other \in {"standby", "settle"} /\ other' = "idle" /\ waits' > 0)
       => (state' \in {"STANDBY", "DISABLED"} \/ restarted)]_vars

(* A write, a read or a standby comes to its end whatever the stack and the *)
(* other thread do: "Don't block AF forever".                               *)
OperationsReturn ==
  /\ pc \notin {"idle", "closed"} ~> pc \in {"idle", "closed"}
  /\ other # "idle" ~> other = "idle"

=============================================================================
