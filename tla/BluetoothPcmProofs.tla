------------------------- MODULE BluetoothPcmProofs -------------------------
(***************************************************************************)
(* Proofs about BluetoothPcm, for any buffers, queue, number of polls,      *)
(* latencies, sessions and length of the track: the samples pass in order,  *)
(* a buffer that was split between sessions disabled its stream, the stack's*)
(* count is not taken for an earlier session's, and no suspend request is   *)
(* lost.                                                                    *)
(*                                                                         *)
(* The order of the samples follows from what comes next: every number      *)
(* between the sample that was moved last (Expected) and the one that is    *)
(* moved next (Upcoming) is dropped.  For an input stream the next one is   *)
(* the head of the queue, which holds the last samples of its source.       *)
(***************************************************************************)
EXTENDS BluetoothPcm, SequenceTheorems, FiniteSetTheorems, TLAPS

(* The types of the data.                                                   *)
Samples ==
  /\ direction \in {"out", "in"} /\ mono \in BOOLEAN /\ (mono => direction = "out")
  /\ queue \in Seq(Nat) /\ transmitted \in Nat
  /\ moved \in Seq(Nat \X Nat)

(* Where the client's thread can be, and what it has left.                  *)
ClientSound ==
  /\ direction = "in" => pc \notin {"resume", "refused"}
  /\ pc = "read" => polls > 0
  /\ Transferring => done <= Items /\ done <= Len(moved)
  /\ direction = "out" => position + rest <= MaxSamples

(* Who has mutex_ while it waits for an answer, and what in_standby can     *)
(* find.                                                                    *)
Playing == state \in {"STARTING", "STARTED"}
OtherSound ==
  /\ pc = "closed" => other = "idle"
  /\ other \in {"standby", "halting", "settle"} => direction = "in"
  /\ other \in {"standby", "settle"} => waits > 0
  /\ ~Lock => pc # "starting" /\ ~Playing
  /\ other = "settle" => restarted \/ ~Playing

(* As long as no count was reset and no buffer written in part, the HAL has *)
(* counted no more than what the stack has taken and what is in its queue   *)
(* (or what it has taken out of it, for an input stream).                   *)
InFlight == IF Transferring THEN done ELSE 0
Counted ==
  aligned /\ ~mono =>
    IF direction = "out"
    THEN FrameSize * frames_presented + InFlight <= transmitted + Len(queue)
    ELSE FrameSize * frames_presented + InFlight + Len(queue) <= transmitted

(* The sample that is moved next: behind those of the buffer that are in    *)
(* the queue already, or the one at the head of the queue.                  *)
Ahead == IF Transferring THEN done * Step ELSE 0
Upcoming == IF direction = "out" THEN position + 1 + Ahead ELSE position + 1 - Len(queue)

(* The one that would follow the last one that was moved.                   *)
Expected == IF moved = <<>> THEN 1 ELSE moved[Len(moved)][2] + Step

(* An input stream's queue holds the last samples of its source.            *)
InQueue ==
  direction = "in" => /\ Len(queue) <= position
                      /\ \A i \in 1..Len(queue) : queue[i] = position - Len(queue) + i

(* No sample has been moved in a session yet to come, and what lies between *)
(* the last one moved and the next is dropped.                              *)
Gapless ==
  /\ \A i \in 1..Len(moved) : moved[i][1] <= session
  /\ Expected <= Upcoming /\ Expected..(Upcoming - 1) \subseteq dropped

(* InOrder, without the types.                                              *)
Ordered ==
  \A i \in 1..Len(moved) :
     LET before == IF i = 1 THEN 1 ELSE moved[i - 1][2] + Step
     IN /\ i > 1 => moved[i - 1][1] <= moved[i][1]
        /\ before <= moved[i][2]
        /\ before..(moved[i][2] - 1) \subseteq dropped

(* The inductive invariant: the types, the order, and the split of a        *)
(* buffer.                                                                  *)
Typed == Samples /\ TypeOK /\ ClientSound
Order == InQueue /\ Gapless /\ Ordered
PcmInv == Typed /\ OtherSound /\ Counted /\ Order /\ SplitOnlyIfDisabled

-----------------------------------------------------------------------------
(* The smaller of two numbers.                                              *)
LEMMA MinOfTwo ==
  ASSUME NEW a \in Int, NEW b \in Int
  PROVE  Min({a, b}) = IF a <= b THEN a ELSE b
  BY DEF Min

(* A function from 1..n is a sequence of length n.                          *)
LEMMA SeqOfFunction ==
  ASSUME NEW T, NEW n \in Nat, NEW f \in [1..n -> T]
  PROVE  f \in Seq(T) /\ Len(f) = n
  OBVIOUS

(* The elements of a concatenation.                                         *)
LEMMA Concatenated ==
  ASSUME NEW T, NEW s \in Seq(T), NEW t \in Seq(T)
  PROVE  /\ s \o t \in Seq(T) /\ Len(s \o t) = Len(s) + Len(t)
         /\ \A i \in 1..Len(s) : (s \o t)[i] = s[i]
         /\ \A i \in Len(s) + 1..Len(s) + Len(t) : (s \o t)[i] = t[i - Len(s)]
<1>1. Len(s) \in Nat /\ Len(t) \in Nat
  OBVIOUS
<1>2. /\ s \o t \in Seq(T) /\ Len(s \o t) = Len(s) + Len(t)
      /\ \A i \in 1..Len(s) + Len(t) :
           (s \o t)[i] = IF i <= Len(s) THEN s[i] ELSE t[i - Len(s)]
  BY ConcatProperties
<1>3. ASSUME NEW i \in 1..Len(s) PROVE (s \o t)[i] = s[i]
  BY <1>1, <1>2
<1>4. ASSUME NEW i \in Len(s) + 1..Len(s) + Len(t) PROVE (s \o t)[i] = t[i - Len(s)]
  BY <1>1, <1>2
<1> QED BY <1>2, <1>3, <1>4

(* A number, halved or not.                                                 *)
LEMMA Divided ==
  ASSUME NEW r \in Nat, NEW m \in BOOLEAN
  PROVE  r \div (IF m THEN 2 ELSE 1) \in Nat
<1>1. r \div 2 \in Nat /\ r \div 1 \in Nat
  OBVIOUS
<1> QED BY <1>1

(* A sample is numbered one or, of a track made mono, two behind the one    *)
(* before; a buffer holds whole ones.                                       *)
LEMMA Stepping ==
  ASSUME mono \in BOOLEAN, rest \in Nat
  PROVE  /\ mono => Step = 2
         /\ ~mono => Step = 1
         /\ Items \in Nat
         /\ Items * Step <= rest
<1>1. CASE mono
  <2>1. Step = 2
    BY <1>1 DEF Step, FrameSize
  <2>2. Items = rest \div 2
    BY <2>1 DEF Items
  <2> QED BY <1>1, <2>1, <2>2
<1>2. CASE ~mono
  <2>1. Step = 1
    BY <1>2 DEF Step
  <2>2. Items = rest
    BY <2>1 DEF Items
  <2> QED BY <1>2, <2>1, <2>2
<1> QED BY <1>1, <1>2

(* What has been moved of a buffer is a part of it.                         *)
LEMMA Part ==
  ASSUME mono \in BOOLEAN, rest \in Nat, done \in Nat, done <= Items
  PROVE  done * Step \in Nat /\ done * Step <= rest
<1>1. CASE mono
  BY <1>1, Stepping
<1>2. CASE ~mono
  BY <1>2, Stepping
<1> QED BY <1>1, <1>2

(* What is free or waiting in the queue, and what is left to move.          *)
LEMMA Polled ==
  ASSUME Samples, TypeOK, done < Items
  PROVE  /\ Available \in Nat /\ Available <= Items - done
         /\ direction = "out" => Available + Len(queue) <= QueueSize
         /\ direction = "in" => Available <= Len(queue)
<1>1. /\ done \in Nat /\ Items \in Nat /\ Len(queue) \in Nat /\ Len(queue) <= QueueSize
      /\ QueueSize \in Nat /\ direction \in {"out", "in"}
  BY PcmAssumption, Stepping DEF Samples, TypeOK
<1>2. CASE direction = "out"
  <2>1. Available = Min({QueueSize - Len(queue), Items - done})
    BY <1>2 DEF Available
  <2>2. Available = IF QueueSize - Len(queue) <= Items - done
                        THEN QueueSize - Len(queue) ELSE Items - done
    BY <1>1, <2>1, MinOfTwo
  <2> QED BY <1>1, <1>2, <2>2
<1>3. CASE direction = "in"
  <2>1. Available = Min({Len(queue), Items - done})
    BY <1>3 DEF Available
  <2>2. Available = IF Len(queue) <= Items - done THEN Len(queue) ELSE Items - done
    BY <1>1, <2>1, MinOfTwo
  <2> QED BY <1>1, <1>3, <2>2
<1> QED BY <1>1, <1>2, <1>3

(* What the write of a poll appends.                                        *)
LEMMA Written ==
  ASSUME Samples, TypeOK, NEW n \in Nat, Write(n)
  PROVE  /\ direction = "out" /\ n > 0 /\ done' = done + n /\ polls' = polls
         /\ queue' \in Seq(Nat) /\ Len(queue') = Len(queue) + n
         /\ moved' \in Seq(Nat \X Nat) /\ Len(moved') = Len(moved) + n
         /\ \A i \in 1..Len(moved) : moved'[i] = moved[i]
         /\ \A i \in Len(moved) + 1..Len(moved) + n :
              /\ moved'[i][1] = session
              /\ moved'[i][2] = Sample(done + (i - Len(moved)))
<1> DEFINE new == [k \in 1..n |-> Sample(done + k)]
           more == [k \in 1..n |-> <<session, new[k]>>]
<1>1. /\ direction = "out" /\ n > 0 /\ done' = done + n /\ polls' = polls
      /\ queue' = queue \o new /\ moved' = moved \o more
  BY DEF Write
<1>2. /\ queue \in Seq(Nat) /\ moved \in Seq(Nat \X Nat) /\ session \in Nat
      /\ done \in Nat /\ position \in Nat /\ rest \in Nat /\ mono \in BOOLEAN
  BY DEF Samples, TypeOK
<1>3. ASSUME NEW k \in 1..n PROVE Sample(done + k) \in Nat
  BY <1>2, Stepping DEF Sample
<1>4. new \in Seq(Nat) /\ Len(new) = n
  BY <1>3
<1>5. more \in Seq(Nat \X Nat) /\ Len(more) = n
  <2>1. \A k \in 1..n : <<session, new[k]>> \in Nat \X Nat
    BY <1>2, <1>3
  <2>2. more \in [1..n -> Nat \X Nat]
    BY <2>1
  <2> HIDE DEF more
  <2> QED BY <2>2, SeqOfFunction
<1>6. /\ queue' \in Seq(Nat) /\ Len(queue') = Len(queue) + n
  BY <1>1, <1>2, <1>4, ConcatProperties
<1>7. /\ moved' \in Seq(Nat \X Nat) /\ Len(moved') = Len(moved) + n
      /\ \A i \in 1..Len(moved) : moved'[i] = moved[i]
      /\ \A i \in Len(moved) + 1..Len(moved) + n : moved'[i] = more[i - Len(moved)]
  <2> HIDE DEF more
  <2>1. /\ moved \o more \in Seq(Nat \X Nat) /\ Len(moved \o more) = Len(moved) + Len(more)
        /\ \A i \in 1..Len(moved) : (moved \o more)[i] = moved[i]
        /\ \A i \in Len(moved) + 1..Len(moved) + Len(more) :
             (moved \o more)[i] = more[i - Len(moved)]
    BY <1>2, <1>5, Concatenated
  <2> QED BY <1>1, <1>5, <2>1
<1>8. Len(moved) \in Nat
  BY <1>2
<1>10. ASSUME NEW i \in Len(moved) + 1..Len(moved) + n
       PROVE  moved'[i][1] = session /\ moved'[i][2] = Sample(done + (i - Len(moved)))
  <2>1. moved'[i] = more[i - Len(moved)] /\ i - Len(moved) \in 1..n
    <3> HIDE DEF more
    <3> QED BY <1>7, <1>8
  <2>2. more[i - Len(moved)] = <<session, Sample(done + (i - Len(moved)))>>
    BY <2>1
  <2>3. moved'[i] = <<session, Sample(done + (i - Len(moved)))>>
    BY <2>1, <2>2
  <2> QED BY <2>3
<1> QED BY <1>1, <1>6, <1>7, <1>10

(* What is left of a queue when its first n samples are read.               *)
LEMMA LeftOver ==
  ASSUME NEW s \in Seq(Nat), NEW n \in Nat, n <= Len(s)
  PROVE  /\ SubSeq(s, n + 1, Len(s)) \in Seq(Nat)
         /\ Len(SubSeq(s, n + 1, Len(s))) = Len(s) - n
         /\ \A i \in 1..Len(s) - n : SubSeq(s, n + 1, Len(s))[i] = s[n + i]
<1> DEFINE r == SubSeq(s, n + 1, Len(s))
<1>1. /\ n + 1 \in Int /\ Len(s) \in Nat
      /\ \A i \in n + 1..Len(s) : s[i] \in Nat
  OBVIOUS
<1>2. /\ r \in Seq(Nat)
      /\ Len(r) = IF n + 1 <= Len(s) THEN Len(s) - (n + 1) + 1 ELSE 0
      /\ \A i \in 1..Len(s) - (n + 1) + 1 : r[i] = s[(n + 1) + i - 1]
  BY <1>1, SubSeqProperties
<1> HIDE DEF r
<1>3. \A i \in 1..Len(s) - n : (n + 1) + i - 1 = n + i
  BY <1>1
<1>4. Len(r) = Len(s) - n /\ Len(s) - (n + 1) + 1 = Len(s) - n
  BY <1>1, <1>2
<1> QED BY <1>2, <1>3, <1>4 DEF r

(* And what the read of one appends.                                        *)
LEMMA ReadOff ==
  ASSUME Samples, TypeOK, NEW n \in Nat, n <= Len(queue), Read(n)
  PROVE  /\ direction = "in" /\ n > 0 /\ done' = done + n /\ polls' = polls
         /\ queue' \in Seq(Nat) /\ Len(queue') = Len(queue) - n
         /\ \A i \in 1..Len(queue) - n : queue'[i] = queue[n + i]
         /\ moved' \in Seq(Nat \X Nat) /\ Len(moved') = Len(moved) + n
         /\ \A i \in 1..Len(moved) : moved'[i] = moved[i]
         /\ \A i \in Len(moved) + 1..Len(moved) + n :
              /\ moved'[i][1] = session
              /\ moved'[i][2] = queue[i - Len(moved)]
<1> DEFINE more == [k \in 1..n |-> <<session, queue[k]>>]
<1>1. /\ direction = "in" /\ n > 0 /\ done' = done + n /\ polls' = polls
      /\ queue' = SubSeq(queue, n + 1, Len(queue)) /\ moved' = moved \o more
  BY DEF Read
<1>2. /\ queue \in Seq(Nat) /\ moved \in Seq(Nat \X Nat) /\ session \in Nat
      /\ Len(queue) \in Nat /\ Len(moved) \in Nat
  BY DEF Samples, TypeOK
<1>3. \A k \in 1..Len(queue) : queue[k] \in Nat
  BY <1>2
<1>4. /\ queue' \in Seq(Nat) /\ Len(queue') = Len(queue) - n
      /\ \A i \in 1..Len(queue) - n : queue'[i] = queue[n + i]
  <2>1. /\ queue \in Seq(Nat) /\ n \in Nat /\ n <= Len(queue)
        /\ queue' = SubSeq(queue, n + 1, Len(queue))
    BY <1>1, <1>2
  <2> QED BY ONLY <2>1, LeftOver
<1>5. more \in Seq(Nat \X Nat) /\ Len(more) = n
  <2>1. \A k \in 1..n : <<session, queue[k]>> \in Nat \X Nat
    BY <1>2, <1>3
  <2>2. more \in [1..n -> Nat \X Nat]
    BY <2>1
  <2> HIDE DEF more
  <2> QED BY <2>2, SeqOfFunction
<1>7. /\ moved' \in Seq(Nat \X Nat) /\ Len(moved') = Len(moved) + n
      /\ \A i \in 1..Len(moved) : moved'[i] = moved[i]
      /\ \A i \in Len(moved) + 1..Len(moved) + n : moved'[i] = more[i - Len(moved)]
  <2> HIDE DEF more
  <2>1. /\ moved \o more \in Seq(Nat \X Nat) /\ Len(moved \o more) = Len(moved) + Len(more)
        /\ \A i \in 1..Len(moved) : (moved \o more)[i] = moved[i]
        /\ \A i \in Len(moved) + 1..Len(moved) + Len(more) :
             (moved \o more)[i] = more[i - Len(moved)]
    BY <1>2, <1>5, Concatenated
  <2> QED BY <1>1, <1>5, <2>1
<1>10. ASSUME NEW i \in Len(moved) + 1..Len(moved) + n
       PROVE  moved'[i][1] = session /\ moved'[i][2] = queue[i - Len(moved)]
  <2>1. moved'[i] = more[i - Len(moved)] /\ i - Len(moved) \in 1..n
    <3> HIDE DEF more
    <3> QED BY <1>7, <1>2
  <2>2. more[i - Len(moved)] = <<session, queue[i - Len(moved)]>>
    BY <2>1
  <2>3. moved'[i] = <<session, queue[i - Len(moved)]>>
    BY <2>1, <2>2
  <2> QED BY <2>3
<1> QED BY <1>1, <1>4, <1>7, <1>10

(* A stream that has just been opened.                                      *)
LEMMA InitPcm == Init => PcmInv
<1> SUFFICES ASSUME Init PROVE PcmInv
  OBVIOUS
<1>1. Samples /\ Len(queue) = 0
  BY DEF Init, Samples
<1>5. TypeOK
  <2>1. /\ QueueSize \in Nat /\ MaxPolls \in Nat /\ MaxSessions \in Nat /\ MaxSamples \in Nat
    BY PcmAssumption
  <2>2. /\ session = 0 /\ ready = FALSE /\ state = "DISABLED" /\ pc = "closed" /\ other = "idle"
        /\ rest = 0 /\ done = 0 /\ polls = 0 /\ waits = 0 /\ frames_presented = 0
        /\ restarted = FALSE /\ aligned = TRUE /\ position = 0 /\ dropped = {}
    BY DEF Init
  <2>3. Len(queue) <= QueueSize /\ session \in 0..MaxSessions
        /\ polls \in 0..MaxPolls /\ waits \in 0..MaxPolls
    BY <1>1, <2>1, <2>2
  <2>4. position \in 0..MaxSamples /\ dropped \subseteq 1..MaxSamples
    BY <2>1, <2>2
  <2>5. state \in StreamState
    BY <2>2 DEF StreamState
  <2> QED BY <2>2, <2>3, <2>4, <2>5 DEF TypeOK
<1>6. ClientSound
  <2>1. MaxSamples \in Nat /\ pc = "closed" /\ position = 0 /\ rest = 0
    BY PcmAssumption DEF Init
  <2> QED BY <2>1 DEF ClientSound, Transferring
<1>2. moved = <<>> /\ queue = <<>> /\ pc = "closed" /\ position = 0 /\ session = 0
  BY DEF Init
<1>3. InQueue /\ Gapless /\ Ordered
  BY <1>2 DEF InQueue, Gapless, Ordered, Expected, Upcoming, Ahead, Transferring
<1>4. SplitOnlyIfDisabled
  BY <1>2 DEF SplitOnlyIfDisabled
<1>7. OtherSound
  BY DEF Init, OtherSound, Lock, Playing
<1>8. Counted
  <2>1. frames_presented = 0 /\ transmitted = 0 /\ InFlight = 0
    BY DEF Init, InFlight, Transferring
  <2> QED BY <1>1, <2>1 DEF Counted, FrameSize
<1> QED BY <1>1, <1>3, <1>4, <1>5, <1>6, <1>7, <1>8 DEF PcmInv, Typed, Order

-----------------------------------------------------------------------------
(* What most actions leave alone.                                           *)
Still == UNCHANGED <<direction, mono, session, queue, transmitted, moved, position, dropped>>

(* The steps of the client's thread between two transfers, and those of the *)
(* other thread.                                                            *)
LEMMA StillSteps ==
  ASSUME \/ Open \/ (\E b \in Buffer : OutWrite(b) \/ InRead(b))
         \/ OutResume \/ Started \/ InStart \/ Moved
         \/ OutStandby \/ InStandby \/ InSuspend \/ Suspended \/ InSettle
         \/ A2dpSuspend \/ A2dpResume \/ Closing
         \/ (\E st \in Status : StackAnswered(st))
  PROVE  Still
<1>1. CASE Open \/ \E b \in Buffer : OutWrite(b) \/ InRead(b)
  BY <1>1 DEF Still, Open, OutWrite, InRead, Quiet, link, track
<1>2. CASE OutResume \/ Started \/ InStart \/ Moved
  BY <1>2 DEF Still, OutResume, Started, InStart, Moved, Quiet,
              link, track
<1>3. CASE OutStandby \/ InStandby \/ InSuspend \/ Suspended \/ InSettle
  BY <1>3 DEF Still, OutStandby, InStandby, InSuspend, Suspended,
              InSettle, OtherOnly, link, track
<1>4. CASE A2dpSuspend \/ A2dpResume \/ Closing
  BY <1>4 DEF Still, A2dpSuspend, A2dpResume, Closing,
              OtherOnly, link, track
<1>5. CASE \E st \in Status : StackAnswered(st)
  BY <1>5 DEF Still, StackAnswered, link, track
<1> QED BY <1>1, <1>2, <1>3, <1>4, <1>5

(* Those steps leave the data alone.                                        *)
LEMMA StillSamples ==
  ASSUME Samples, Still PROVE Samples'
  BY DEF Samples, Still

Small ==
  /\ state \in StreamState /\ ready \in BOOLEAN
  /\ pc \in {"closed", "idle", "resume", "starting", "refused", "read", "moving", "count"}
  /\ other \in {"idle", "pausing", "stopping", "standby", "halting", "settle"}
  /\ polls \in 0..MaxPolls /\ waits \in 0..MaxPolls
  /\ rest \in Nat /\ done \in Nat /\ frames_presented \in Nat
  /\ restarted \in BOOLEAN /\ aligned \in BOOLEAN
Large ==
  /\ session \in 0..MaxSessions /\ Len(queue) <= QueueSize
  /\ position \in 0..MaxSamples /\ dropped \subseteq 1..MaxSamples

LEMMA TypeOKSplit == /\ TypeOK <=> Small /\ Large
                     /\ TypeOK' <=> Small' /\ Large'
  BY DEF TypeOK, Small, Large

StillStep ==
  \/ Open \/ (\E b \in Buffer : OutWrite(b)) \/ (\E b \in Buffer : InRead(b))
  \/ OutResume \/ Started \/ InStart \/ Moved
  \/ OutStandby \/ InStandby \/ InSuspend \/ Suspended \/ InSettle
  \/ A2dpSuspend \/ A2dpResume \/ Closing
  \/ (\E st \in Status : StackAnswered(st))

(* And keep the types.                                                      *)
LEMMA StillTyped ==
  ASSUME Typed, OtherSound, StillStep
  PROVE  Typed'
<1>1. Still
  BY StillSteps DEF StillStep
<1>2. Small /\ Large /\ Samples /\ ClientSound
  BY TypeOKSplit DEF Typed
<1>3. Samples' /\ Large'
  BY <1>1, <1>2, StillSamples DEF Still, Large
<1>4. /\ MaxPolls \in Nat \ {0} /\ \A b \in Sizes : b \in Nat
      /\ MaxSamples \in Nat /\ position \in Nat /\ Len(moved) \in Nat
  BY PcmAssumption, <1>2 DEF Samples, Large
<1>5. /\ direction' = direction /\ position' = position /\ moved' = moved
      /\ rest' = rest => Items' = Items
  BY <1>1 DEF Still, Items, Step
<1>6. direction \in {"out", "in"} /\ Items \in Nat
  BY <1>2, Stepping DEF Samples, Small
<1>8. other \in {"standby", "settle"} => waits > 0
  BY DEF OtherSound
<1>7. Small' /\ ClientSound'
  <2>1. CASE Open
    BY <2>1, <1>2, <1>4, <1>5, <1>6
    DEF Small, ClientSound, Transferring, Goto, Quiet, OtherOnly, OtherGoto, link, frames, control,
       thread, StreamState, Open
  <2>2. CASE \E b \in Buffer : OutWrite(b)
    <3>1. PICK b \in Buffer : OutWrite(b)
      BY <2>2
    <3>2. b \in Nat
      BY <1>2, <1>4 DEF Buffer, Small
    <3>3. /\ rest' = b /\ position + b <= MaxSamples /\ pc' \in {"moving", "resume"}
          /\ pc' = "moving" => done' = 0 /\ polls' = MaxPolls
          /\ pc' = "resume" => done' = done /\ polls' = polls
          /\ UNCHANGED <<direction, mono, ready, other, waits, restarted, state,
                         frames_presented, aligned>>
          /\ direction = "out"
      BY <3>1 DEF OutWrite, Begin_Transfer, Goto, Quiet, link, frames, control
    <3>4. Items' \in Nat
      <4>1. rest' \in Nat /\ mono' \in BOOLEAN
        BY <3>2, <3>3, <1>2 DEF Samples
      <4>2. Items' = rest' \div (IF mono' THEN 2 ELSE 1)
        BY DEF Items, Step, FrameSize
      <4> QED BY <4>1, <4>2, Divided
    <3>5. Small'
      BY <3>2, <3>3, <1>2, <1>4 DEF Small
    <3> QED BY <3>3, <3>4, <3>5, <1>4, <1>5 DEF ClientSound, Transferring
  <2>3. CASE \E b \in Buffer : InRead(b)
    BY <2>3, <1>2, <1>4, <1>5, <1>6
    DEF Small, ClientSound, Transferring, Goto, Quiet, OtherOnly, OtherGoto, link, frames, control,
       thread, StreamState, InRead, Buffer
  <2>4. CASE OutResume
    BY <2>4, <1>2, <1>4, <1>5, <1>6
    DEF Small, ClientSound, Transferring, Goto, Quiet, OtherOnly, OtherGoto, link, frames, control,
       thread, StreamState, OutResume, Begin_Transfer
  <2>5. CASE Started
    BY <2>5, <1>2, <1>4, <1>5, <1>6
    DEF Small, ClientSound, Transferring, Goto, Quiet, OtherOnly, OtherGoto, link, frames, control,
       thread, StreamState, Started, Begin_Transfer
  <2>6. CASE InStart
    BY <2>6, <1>2, <1>4, <1>5, <1>6
    DEF Small, ClientSound, Transferring, Goto, Quiet, OtherOnly, OtherGoto, link, frames, control,
       thread, StreamState, InStart, Begin_Transfer, Idle
  <2>7. CASE Moved
    BY <2>7, <1>2, <1>4, <1>5, <1>6
    DEF Small, ClientSound, Transferring, Goto, Quiet, OtherOnly, OtherGoto, link, frames, control,
       thread, StreamState, Moved
  <2>8. CASE OutStandby
    BY <2>8, <1>2, <1>4, <1>5, <1>6
    DEF Small, ClientSound, Transferring, Goto, Quiet, OtherOnly, OtherGoto, link, frames, control,
       thread, StreamState, OutStandby, OtherMay
  <2>9. CASE InStandby
    <3>1. /\ UNCHANGED <<direction, mono, ready, pc, rest, done, polls, state,
                         frames_presented, aligned>>
          /\ other' = "standby" /\ waits' = MaxPolls
      BY <2>9 DEF InStandby, OtherGoto, OtherOnly, link, thread, frames
    <3>2. restarted' \in BOOLEAN
      BY <2>9, Zenon DEF InStandby
    <3>3. Small'
      BY <1>2, <1>4, <3>1, <3>2 DEF Small
    <3> QED BY <1>2, <1>5, <3>1, <3>3 DEF ClientSound, Transferring
  <2>10. CASE InSuspend
    BY <2>10, <1>2, <1>4, <1>5, <1>6, <1>8
    DEF Small, ClientSound, Transferring, Goto, Quiet, OtherOnly, OtherGoto, link, frames, control,
       thread, StreamState, InSuspend, Look, OtherMay
  <2>11. CASE Suspended
    BY <2>11, <1>2, <1>4, <1>5, <1>6
    DEF Small, ClientSound, Transferring, Goto, Quiet, OtherOnly, OtherGoto, link, frames, control,
       thread, StreamState, Suspended
  <2>12. CASE InSettle
    BY <2>12, <1>2, <1>4, <1>5, <1>6, <1>8
    DEF Small, ClientSound, Transferring, Goto, Quiet, OtherOnly, OtherGoto, link, frames, control,
       thread, StreamState, InSettle, Look, OtherMay
  <2>13. CASE A2dpSuspend
    BY <2>13, <1>2, <1>4, <1>5, <1>6
    DEF Small, ClientSound, Transferring, Goto, Quiet, OtherOnly, OtherGoto, link, frames, control,
       thread, StreamState, A2dpSuspend, OtherMay
  <2>14. CASE A2dpResume
    BY <2>14, <1>2, <1>4, <1>5, <1>6
    DEF Small, ClientSound, Transferring, Goto, Quiet, OtherOnly, OtherGoto, link, frames, control,
       thread, StreamState, A2dpResume, OtherMay
  <2>15. CASE Closing
    BY <2>15, <1>2, <1>4, <1>5, <1>6
    DEF Small, ClientSound, Transferring, Goto, Quiet, OtherOnly, OtherGoto, link, frames, control,
       thread, StreamState, Closing, OtherMay
  <2>16. CASE \E st \in Status : StackAnswered(st)
    BY <2>16, <1>2, <1>4, <1>5, <1>6
    DEF Small, ClientSound, Transferring, Goto, Quiet, OtherOnly, OtherGoto, link, frames, control,
       thread, StreamState, StackAnswered, ControlResult
  <2> QED
    BY <2>1, <2>2, <2>3, <2>4, <2>5, <2>6, <2>7, <2>8, <2>9, <2>10, <2>11, <2>12, <2>13, <2>14, <2>15, <2>16 DEF StillStep
<1> QED BY <1>3, <1>7, TypeOKSplit DEF Typed

-----------------------------------------------------------------------------
(* The types, for each of the other steps.                                  *)
LEMMA RefusedTyped ==
  ASSUME Typed, OutRefused
  PROVE  Typed'
<1>1. /\ pc = "refused" /\ pc' = "idle"
      /\ UNCHANGED <<direction, mono, session, ready, queue, transmitted, done, polls, state,
                     frames_presented, aligned, other, waits, restarted, moved>>
      /\ \/ /\ position' = position + rest /\ rest' = 0
            /\ dropped' = dropped \cup (position + 1)..position'
         \/ UNCHANGED <<position, dropped, rest>>
  BY DEF OutRefused, Goto, Quiet, link, frames, control
<1>2. Small /\ Large /\ Samples /\ ClientSound
  BY TypeOKSplit DEF Typed
<1>3. direction = "out" /\ position + rest <= MaxSamples /\ MaxSamples \in Nat
      /\ position \in Nat /\ rest \in Nat
  BY PcmAssumption, <1>1, <1>2 DEF ClientSound, Samples, Small, Large
<1>4. Samples'
  BY <1>1, <1>2 DEF Samples
<1>5. Small'
  BY <1>1, <1>2 DEF Small
<1>6. Large'
  <2>1. session' \in 0..MaxSessions /\ Len(queue') <= QueueSize
    BY <1>1, <1>2 DEF Large
  <2>2. dropped \subseteq 1..MaxSamples /\ position \in 0..MaxSamples
    BY <1>2 DEF Large
  <2>3. CASE UNCHANGED <<position, dropped, rest>>
    BY <2>1, <2>2, <2>3 DEF Large
  <2>4. CASE /\ position' = position + rest /\ rest' = 0
             /\ dropped' = dropped \cup (position + 1)..position'
    <3>1. position' \in 0..MaxSamples
      BY <1>3, <2>4
    <3>2. (position + 1)..position' \subseteq 1..MaxSamples
      BY <1>3, <3>1
    <3> QED BY <2>1, <2>2, <2>4, <3>1, <3>2 DEF Large
  <2> QED BY <1>1, <2>3, <2>4
<1>7. ClientSound'
  <2>1. position' + rest' <= MaxSamples
    BY <1>1, <1>3
  <2> QED BY <1>1, <1>3, <2>1 DEF ClientSound, Transferring
<1> QED BY <1>4, <1>5, <1>6, <1>7, TypeOKSplit DEF Typed

LEMMA CloseTyped ==
  ASSUME Typed, Close
  PROVE  Typed'
<1>1. /\ pc = "idle" /\ pc' = "closed" /\ rest' = 0 /\ state' = "DISABLED"
      /\ UNCHANGED <<direction, mono, session, ready, queue, transmitted, other, waits, restarted,
                     done, polls, moved>>
      /\ position' = IF direction = "out" THEN position + rest ELSE position
      /\ dropped' = dropped \cup (position + 1)..position'
  BY DEF Close, Goto, Quiet, link, control
<1>2. Small /\ Large /\ Samples /\ ClientSound
  BY TypeOKSplit DEF Typed
<1>3. /\ direction = "out" => position + rest <= MaxSamples
      /\ MaxSamples \in Nat /\ position \in 0..MaxSamples /\ rest \in Nat
  BY PcmAssumption, <1>1, <1>2 DEF ClientSound, Samples, Small, Large
<1>4. Samples'
  BY <1>1, <1>2 DEF Samples
<1>5. Small'
  <2>1. frames_presented' \in Nat
    BY <1>2 DEF Small, Close, frames
  <2>3. aligned' \in BOOLEAN
    BY <1>2, Zenon DEF Small, Close, frames
  <2> QED BY <1>1, <1>2, <2>1, <2>3 DEF Small, StreamState
<1>6. Large'
  <2>1. session' \in 0..MaxSessions /\ Len(queue') <= QueueSize
    BY <1>1, <1>2 DEF Large
  <2>2. position' \in 0..MaxSamples
    BY <1>1, <1>3
  <2>3. (position + 1)..position' \subseteq 1..MaxSamples
    BY <1>3, <2>2
  <2> QED BY <1>1, <1>2, <2>1, <2>2, <2>3 DEF Large
<1>7. ClientSound'
  <2>1. position' <= MaxSamples /\ position' + rest' = position'
    BY <1>1, <1>3
  <2> QED BY <1>1, <1>3, <2>1 DEF ClientSound, Transferring
<1> QED BY <1>4, <1>5, <1>6, <1>7, TypeOKSplit DEF Typed

LEMMA CountTyped ==
  ASSUME Typed, Count
  PROVE  Typed'
<1>1. /\ pc = "count" /\ pc' = "idle"
      /\ UNCHANGED <<direction, mono, session, ready, queue, transmitted, other, waits,
                     restarted, done, polls, state, moved, dropped>>
  BY DEF Count, Goto, Quiet, link, control
<1>9. \/ /\ direction = "out"
         /\ position' = position + done * Step /\ rest' = rest - done * Step
      \/ direction # "out" /\ UNCHANGED <<position, rest>>
  BY DEF Count
<1>2. Small /\ Large /\ Samples /\ ClientSound
  BY TypeOKSplit DEF Typed
<1>3. /\ direction = "out" => position + rest <= MaxSamples
      /\ MaxSamples \in Nat /\ position \in 0..MaxSamples /\ rest \in Nat
      /\ done * Step \in Nat /\ done * Step <= rest
  <2>1. done <= Items /\ mono \in BOOLEAN /\ rest \in Nat /\ done \in Nat
    BY <1>1, <1>2 DEF ClientSound, Transferring, Samples, Small
  <2>2. done * Step \in Nat /\ done * Step <= rest
    BY <2>1, Part
  <2> QED BY PcmAssumption, <2>1, <2>2, <1>2 DEF ClientSound, Large
<1>4. Samples'
  BY <1>1, <1>2 DEF Samples
<1>5. /\ rest' \in Nat /\ position' \in 0..MaxSamples
      /\ direction = "out" => position' + rest' <= MaxSamples
  BY <1>3, <1>9
<1>6. Small'
  <2>1. Frames \in Nat
    BY <1>2 DEF Small, Frames, FrameSize
  <2>2. frames_presented' \in Nat
    BY <1>2, <2>1 DEF Small, Count, CountFrames, frames
  <2>3. aligned' \in BOOLEAN
    BY <1>2, Zenon DEF Small, Count, CountFrames, frames
  <2> QED BY <1>1, <1>2, <1>5, <2>2, <2>3 DEF Small
<1>7. Large'
  BY <1>1, <1>2, <1>5 DEF Large
<1>8. ClientSound'
  BY <1>1, <1>5 DEF ClientSound, Transferring
<1> QED BY <1>4, <1>6, <1>7, <1>8, TypeOKSplit DEF Typed

LEMMA PollTyped ==
  ASSUME Typed, Poll
  PROVE  Typed'
<1>1. /\ pc = "moving" /\ pc' = pc /\ done < Items
      /\ UNCHANGED <<direction, mono, session, ready, transmitted, other, waits, restarted,
                     state, rest, frames_presented, aligned, position, dropped>>
  BY DEF Poll, frames, control
<1>2. Small /\ Large /\ Samples /\ ClientSound
  BY TypeOKSplit DEF Typed
<1>3. Items' = Items /\ Items \in Nat
  BY <1>1, <1>2, Stepping DEF Items, Step, Samples, Small
<1>4. done \in Nat /\ Len(moved) \in Nat /\ Len(queue) \in Nat /\ done <= Len(moved)
      /\ QueueSize \in Nat /\ MaxPolls \in Nat /\ Len(queue) <= QueueSize /\ polls \in 0..MaxPolls
  BY PcmAssumption, <1>1, <1>2 DEF Samples, Small, Large, ClientSound, Transferring
<1>5. /\ queue' \in Seq(Nat) /\ moved' \in Seq(Nat \X Nat) /\ Len(queue') <= QueueSize
      /\ done' \in Nat /\ done' <= Items /\ done' <= Len(moved') /\ polls' \in 0..MaxPolls
  <2> DEFINE n == Available
  <2>1. /\ n \in Nat /\ n <= Items - done
        /\ direction = "out" => n + Len(queue) <= QueueSize
        /\ direction = "in" => n <= Len(queue)
    BY <1>1, Polled DEF Typed
  <2> HIDE DEF n
  <2>2. CASE Write(n)
    <3>1. /\ direction = "out" /\ done' = done + n /\ polls' = polls
          /\ queue' \in Seq(Nat) /\ Len(queue') = Len(queue) + n
          /\ moved' \in Seq(Nat \X Nat) /\ Len(moved') = Len(moved) + n
      BY <2>1, <2>2, Written DEF Typed
    <3>2. /\ Len(queue') <= QueueSize /\ done' \in Nat /\ done' <= Items
          /\ done' <= Len(moved') /\ polls' \in 0..MaxPolls
      BY <1>3, <1>4, <2>1, <3>1
    <3> QED BY <3>1, <3>2
  <2>3. CASE Read(n)
    <3>0. direction = "in"
      BY <2>3 DEF Read
    <3>1. /\ done' = done + n /\ polls' = polls
          /\ queue' \in Seq(Nat) /\ Len(queue') = Len(queue) - n
          /\ moved' \in Seq(Nat \X Nat) /\ Len(moved') = Len(moved) + n
      BY <2>1, <2>3, <3>0, ReadOff DEF Typed
    <3>2. /\ Len(queue') <= QueueSize /\ done' \in Nat /\ done' <= Items
          /\ done' <= Len(moved') /\ polls' \in 0..MaxPolls
      BY <1>3, <1>4, <2>1, <3>0, <3>1
    <3> QED BY <3>1, <3>2
  <2>4. CASE PollAgain /\ UNCHANGED <<queue, moved, done>>
    <3>1. polls' \in 0..MaxPolls
      BY <1>4, <2>4 DEF PollAgain
    <3> QED BY <1>1, <1>2, <1>3, <1>4, <2>4, <3>1 DEF Samples
  <2> QED BY <2>2, <2>3, <2>4 DEF Poll, n
<1>6. Samples'
  BY <1>1, <1>2, <1>5 DEF Samples
<1>7. Small'
  BY <1>1, <1>2, <1>5 DEF Small
<1>8. Large'
  BY <1>1, <1>2, <1>5 DEF Large
<1>9. ClientSound'
  BY <1>1, <1>2, <1>3, <1>5 DEF ClientSound, Transferring
<1> QED BY <1>6, <1>7, <1>8, <1>9, TypeOKSplit DEF Typed

(* A queue that goes with its session: what is in it is a part of the track.*)
LEMMA NewQueueTyped ==
  ASSUME Typed, InQueue, SessionStarted \/ SessionEnded
  PROVE  Typed'
<1>1. /\ UNCHANGED <<direction, mono, frames_presented, pc, rest, done, polls, other, waits,
                     restarted, position, moved>>
      /\ NewQueue /\ aligned' \in BOOLEAN
  BY DEF SessionStarted, SessionEnded, thread, control, NewQueue
<1>2. Small /\ Large /\ Samples /\ ClientSound
  BY TypeOKSplit DEF Typed
<1>3. session' \in 0..MaxSessions /\ ready' \in BOOLEAN /\ state' \in {state, "DISABLED"}
  <2>1. session \in 0..MaxSessions /\ MaxSessions \in Nat
    BY PcmAssumption, <1>2 DEF Large
  <2>2. SessionChanged \in {state, "DISABLED"}
    BY DEF SessionChanged
  <2>3. CASE SessionStarted
    <3>1. session < MaxSessions /\ session' = session + 1
      BY <2>3 DEF SessionStarted
    <3>2. session' \in 0..MaxSessions
      BY <2>1, <3>1
    <3>3. \/ ready' = TRUE /\ state' = SessionChanged
          \/ ready' = FALSE /\ state' = state
      BY <2>3 DEF SessionStarted
    <3> QED BY <2>2, <3>2, <3>3
  <2>4. CASE SessionEnded
    BY <2>1, <2>2, <2>4 DEF SessionEnded
  <2> QED BY <2>3, <2>4
<1>4. queue' = <<>> /\ Len(queue') = 0 /\ transmitted' = 0
  BY <1>1 DEF NewQueue
<1>5. dropped' \subseteq 1..MaxSamples
  <2>1. CASE direction # "in"
    BY <1>1, <1>2, <2>1 DEF NewQueue, Large
  <2>2. CASE direction = "in"
    <3>1. /\ Len(queue) \in Nat /\ position \in 0..MaxSamples /\ Len(queue) <= position
          /\ \A i \in 1..Len(queue) : queue[i] = position - Len(queue) + i
          /\ MaxSamples \in Nat /\ DOMAIN queue = 1..Len(queue)
      BY PcmAssumption, <1>2, <2>2 DEF InQueue, Samples, Large
    <3>2. \A i \in 1..Len(queue) : queue[i] \in 1..MaxSamples
      BY <3>1
    <3>3. dropped' = dropped \cup {queue[i] : i \in 1..Len(queue)}
      BY <1>1, <2>2, <3>1 DEF NewQueue
    <3>4. dropped \subseteq 1..MaxSamples
      BY <1>2 DEF Large
    <3> QED BY <3>2, <3>3, <3>4
  <2> QED BY <2>1, <2>2
<1>6. Samples'
  BY <1>1, <1>2, <1>4 DEF Samples
<1>7. Small'
  BY <1>1, <1>2, <1>3 DEF Small, StreamState
<1>8. Large'
  <2>1. QueueSize \in Nat
    BY PcmAssumption
  <2> QED BY <1>1, <1>2, <1>3, <1>4, <1>5, <2>1 DEF Large
<1>9. ClientSound'
  <2>1. Items' = Items
    BY <1>1 DEF Items, Step
  <2> QED BY <1>1, <1>2, <1>3, <2>1 DEF ClientSound, Transferring
<1> QED BY <1>6, <1>7, <1>8, <1>9, TypeOKSplit DEF Typed

LEMMA StackMovesTyped ==
  ASSUME Typed, StackMoves
  PROVE  Typed'
<1>1. /\ UNCHANGED <<direction, mono, session, ready, state, frames_presented, aligned,
                     pc, rest, done, polls, other, waits, restarted, moved, dropped>>
      /\ transmitted' = transmitted + 1
  BY DEF StackMoves, frames, thread, control
<1>2. Small /\ Large /\ Samples /\ ClientSound
  BY TypeOKSplit DEF Typed
<1>3. /\ queue \in Seq(Nat) /\ Len(queue) \in Nat /\ Len(queue) <= QueueSize
      /\ QueueSize \in Nat /\ MaxSamples \in Nat /\ position \in 0..MaxSamples
      /\ transmitted \in Nat
  BY PcmAssumption, <1>2 DEF Samples, Large
<1>4. /\ queue' \in Seq(Nat) /\ Len(queue') <= QueueSize /\ position' \in 0..MaxSamples
      /\ direction = "out" => position' = position
  <2>1. CASE direction = "out"
    <3>1. queue # <<>> /\ queue' = Tail(queue) /\ position' = position
      BY <2>1 DEF StackMoves
    <3>2. Tail(queue) \in Seq(Nat) /\ Len(Tail(queue)) = Len(queue) - 1
      BY <1>3, <3>1, HeadTailProperties
    <3> QED BY <1>3, <3>1, <3>2
  <2>2. CASE direction # "out"
    <3>1. /\ position < MaxSamples /\ Len(queue) < QueueSize
          /\ position' = position + 1 /\ queue' = Append(queue, position + 1)
      BY <2>2 DEF StackMoves
    <3>2. /\ Append(queue, position + 1) \in Seq(Nat)
          /\ Len(Append(queue, position + 1)) = Len(queue) + 1
      BY <1>3, AppendProperties
    <3> QED BY <1>3, <2>2, <3>1, <3>2
  <2> QED BY <2>1, <2>2
<1>6. Samples'
  BY <1>1, <1>2, <1>3, <1>4 DEF Samples
<1>7. Small'
  BY <1>1, <1>2 DEF Small
<1>8. Large'
  BY <1>1, <1>2, <1>4 DEF Large
<1>9. ClientSound'
  <2>1. Items' = Items
    BY <1>1 DEF Items, Step
  <2> QED BY <1>1, <1>2, <1>4, <2>1 DEF ClientSound, Transferring
<1> QED BY <1>6, <1>7, <1>8, <1>9, TypeOKSplit DEF Typed

-----------------------------------------------------------------------------
(* A record of what was moved has a session and a sample.                   *)
LEMMA Entries ==
  ASSUME NEW m \in Seq(Nat \X Nat)
  PROVE  \A i \in 1..Len(m) : m[i][1] \in Nat /\ m[i][2] \in Nat
<1> SUFFICES ASSUME NEW i \in 1..Len(m) PROVE m[i][1] \in Nat /\ m[i][2] \in Nat
  OBVIOUS
<1>1. m[i] \in Nat \X Nat
  OBVIOUS
<1> QED BY <1>1

(* As long as neither the track nor the stream moves, the order holds.      *)
LEMMA OrderKept ==
  ASSUME Order, Ahead' = Ahead,
         UNCHANGED <<direction, mono, session, queue, position, moved, dropped>>
  PROVE  Order'
<1>1. /\ direction' = direction /\ mono' = mono /\ session' = session /\ queue' = queue
      /\ position' = position /\ moved' = moved /\ dropped' = dropped
      /\ Step' = Step
  BY DEF Step
<1>2. Upcoming' = Upcoming /\ Expected' = Expected
  BY <1>1 DEF Upcoming, Expected
<1>3. InQueue'
  BY <1>1 DEF Order, InQueue
<1>4. Gapless'
  BY <1>1, <1>2 DEF Order, Gapless
<1>5. Ordered'
  BY <1>1 DEF Order, Ordered
<1> QED BY <1>3, <1>4, <1>5 DEF Order

(* They may end a transfer, or begin one that has moved nothing yet.        *)
LEMMA StillPc ==
  ASSUME StillStep
  PROVE  \/ pc' = pc /\ done' = done
         \/ pc = "moving" /\ pc' = "count" /\ done' = done
         \/ ~Transferring /\ (pc' \in {"moving", "count"} => done' = 0)
<1>1. CASE Open \/ OutResume \/ Started
  BY <1>1 DEF Transferring, Open, OutResume, Started, Goto, Begin_Transfer
<1>2. CASE (\E b \in Buffer : OutWrite(b)) \/ (\E b \in Buffer : InRead(b))
  BY <1>2 DEF Transferring, OutWrite, InRead, Goto, Begin_Transfer
<1>3. CASE InStart \/ Moved
  BY <1>3 DEF Transferring, InStart, Moved, Goto, Idle, Begin_Transfer
<1>4. CASE OutStandby \/ InStandby \/ InSuspend \/ Suspended \/ InSettle
  BY <1>4 DEF OutStandby, InStandby, InSuspend, Suspended, InSettle, OtherOnly, thread
<1>5. CASE \/ A2dpSuspend \/ A2dpResume \/ Closing
           \/ (\E st \in Status : StackAnswered(st))
  BY <1>5 DEF A2dpSuspend, A2dpResume, Closing,
              OtherOnly, StackAnswered, thread
<1> QED BY <1>1, <1>2, <1>3, <1>4, <1>5 DEF StillStep

(* Neither the steps between transfers nor their begin and end move a       *)
(* sample.                                                                  *)
LEMMA StillAhead ==
  ASSUME Typed, StillStep
  PROVE  Ahead' = Ahead
<1>1. mono \in BOOLEAN /\ mono' = mono /\ rest \in Nat
  BY StillSteps, TypeOKSplit DEF StillStep, Still, Typed, Samples, Small
<1>2. Step' = Step /\ Step \in {1, 2}
  BY <1>1, Stepping DEF Step
<1>3. \/ pc' = pc /\ done' = done
      \/ pc = "moving" /\ pc' = "count" /\ done' = done
      \/ ~Transferring /\ (pc' \in {"moving", "count"} => done' = 0)
  BY StillPc
<1>4. CASE pc' = pc /\ done' = done
  BY <1>2, <1>4 DEF Ahead, Transferring
<1>5. CASE pc = "moving" /\ pc' = "count" /\ done' = done
  BY <1>2, <1>5 DEF Ahead, Transferring
<1>6. CASE ~Transferring /\ (pc' \in {"moving", "count"} => done' = 0)
  <2>1. 0 * Step = 0
    BY <1>2
  <2> QED BY <1>2, <1>6, <2>1 DEF Ahead, Transferring
<1> QED BY <1>3, <1>4, <1>5, <1>6

(* More samples are dropped and the session is a later one: what has been   *)
(* moved stays in order.                                                    *)
LEMMA OrderedGrows ==
  ASSUME Ordered, UNCHANGED <<mono, moved>>, dropped \subseteq dropped'
  PROVE  Ordered' /\ Expected' = Expected
<1>1. mono' = mono /\ moved' = moved /\ Step' = Step
  BY DEF Step
<1> QED BY <1>1 DEF Ordered, Expected

(* The numbers of the next sample and of the one expected.                  *)
LEMMA UpcomingIs ==
  ASSUME Typed
  PROVE  Upcoming \in Int /\ Expected \in Nat /\ Step \in {1, 2} /\ Ahead \in Nat
<1>1. Samples /\ Small /\ Large /\ ClientSound
  BY TypeOKSplit DEF Typed
<1>2. /\ position \in Nat /\ Len(queue) \in Nat /\ rest \in Nat /\ done \in Nat /\ mono \in BOOLEAN
      /\ Transferring => done <= Items
      /\ moved \in Seq(Nat \X Nat) /\ Len(moved) \in Nat
  BY <1>1 DEF Samples, Small, Large, ClientSound
<1>3. Step \in {1, 2}
  BY <1>2, Stepping
<1>4. Ahead \in Nat
  BY <1>2, Part DEF Ahead
<1>5. Expected \in Nat
  <2>1. CASE moved = <<>>
    BY <2>1 DEF Expected
  <2>2. CASE moved # <<>>
    <3>1. Len(moved) \in 1..Len(moved)
      BY <1>2, <2>2
    <3>2. moved[Len(moved)][2] \in Nat
      BY <1>2, <3>1, Entries
    <3> QED BY <1>3, <2>2, <3>2 DEF Expected
  <2> QED BY <2>1, <2>2
<1> QED BY <1>2, <1>3, <1>4, <1>5 DEF Upcoming

(* What is appended from the upcoming sample on, step by step, is in order. *)
Longer(n) ==
  /\ moved' \in Seq(Nat \X Nat) /\ Len(moved') = Len(moved) + n
  /\ \A i \in 1..Len(moved) : moved'[i] = moved[i]
Now(n) == \A i \in Len(moved) + 1..Len(moved) + n : moved'[i][1] = session
Steady(n) ==
  /\ moved'[Len(moved) + 1][2] = Upcoming
  /\ \A i \in Len(moved) + 2..Len(moved) + n : moved'[i][2] = moved'[i - 1][2] + Step

(* Samples that follow each other are appended without a gap.               *)
LEMMA Appended ==
  ASSUME Typed, Order, NEW n \in Nat, n > 0, UNCHANGED <<mono, session, dropped>>,
         Longer(n), Now(n), Steady(n)
  PROVE  /\ Ordered' /\ \A i \in 1..Len(moved') : moved'[i][1] <= session'
         /\ Expected' = moved'[Len(moved) + n][2] + Step
<1> DEFINE L == Len(moved)
<1>1. /\ moved \in Seq(Nat \X Nat) /\ L \in Nat /\ session \in Nat
      /\ Step \in {1, 2} /\ Upcoming \in Int
  BY UpcomingIs, TypeOKSplit DEF Typed, Samples, Large
<1>2. mono' = mono /\ session' = session /\ dropped' = dropped /\ Step' = Step
  BY DEF Step
<1>3. \A i \in 1..L : moved[i][1] <= session
  BY DEF Order, Gapless
<1>4. Expected <= Upcoming /\ Expected..(Upcoming - 1) \subseteq dropped
  BY DEF Order, Gapless
<1>5. \A i \in 1..L + n : moved'[i][1] \in Nat /\ moved'[i][2] \in Nat
  BY Entries DEF Longer
<1>6. /\ Len(moved') = L + n
      /\ \A i \in 1..L : moved'[i] = moved[i]
  BY DEF Longer
<1>7. \A i \in L + 1..L + n : moved'[i][1] = session
  BY DEF Now
<1>8. moved'[L + 1][2] = Upcoming
  BY DEF Steady
<1>9. \A i \in L + 2..L + n : moved'[i][2] = moved'[i - 1][2] + Step
  BY DEF Steady
<1>10. moved = <<>> <=> L = 0
  BY <1>1
<1>11. Expected' = moved'[L + n][2] + Step
  <2>1. moved' # <<>>
    BY <1>1, <1>6
  <2> QED BY <1>2, <1>6, <2>1 DEF Expected
<1>12. L \in Nat /\ session \in Nat /\ Step \in {1, 2} /\ Upcoming \in Int
  BY <1>1
<1>13. Expected = IF L = 0 THEN 1 ELSE moved[L][2] + Step
  BY <1>10 DEF Expected
<1> HIDE DEF L
<1>14. \A i \in 1..L + n : i \in 1..L \/ i \in L + 1..L + n
  BY <1>12
<1>15. \A i \in 1..L + n : moved'[i][1] <= session
  BY <1>3, <1>6, <1>7, <1>12, <1>14
<1>16. ASSUME NEW i \in 1..L + n
       PROVE  LET before == IF i = 1 THEN 1 ELSE moved'[i - 1][2] + Step
              IN /\ i > 1 => moved'[i - 1][1] <= moved'[i][1]
                 /\ before <= moved'[i][2]
                 /\ before..(moved'[i][2] - 1) \subseteq dropped
  <2>1. CASE i \in 1..L
    <3>1. moved'[i] = moved[i]
      BY <1>6, <2>1
    <3>2. LET before == IF i = 1 THEN 1 ELSE moved[i - 1][2] + Step
          IN /\ i > 1 => moved[i - 1][1] <= moved[i][1]
             /\ before <= moved[i][2]
             /\ before..(moved[i][2] - 1) \subseteq dropped
      BY <2>1 DEF Order, Ordered, L
    <3>3. i = 1 \/ (i > 1 /\ i - 1 \in 1..L)
      BY <1>12, <2>1
    <3>4. i = 1 \/ (i > 1 /\ moved'[i - 1] = moved[i - 1])
      BY <1>6, <3>3
    <3> QED BY <3>1, <3>2, <3>4
  <2>2. CASE i = L + 1
    <3>1. moved'[i][2] = Upcoming
      BY <1>8, <2>2
    <3>2. CASE L = 0
      <4>1. i = 1 /\ Expected = 1
        BY <1>12, <1>13, <2>2, <3>2
      <4> QED BY <1>4, <3>1, <4>1
    <3>3. CASE L > 0
      <4>1. i # 1 /\ i - 1 = L /\ L \in 1..L /\ L # 0 /\ L + 1 \in L + 1..L + n
        BY <1>12, <2>2, <3>3
      <4>2. Expected = moved'[i - 1][2] + Step
        BY <1>6, <1>13, <4>1
      <4>3. moved'[i - 1][1] <= session /\ moved'[i][1] = session
        BY <1>3, <1>6, <1>7, <2>2, <4>1
      <4> QED BY <1>4, <3>1, <4>1, <4>2, <4>3
    <3> QED BY <1>12, <3>2, <3>3
  <2>3. CASE i \in L + 2..L + n
    <3>1. i - 1 \in L + 1..L + n /\ i \in L + 1..L + n /\ i # 1
      BY <1>12, <2>3
    <3>2. moved'[i][2] = moved'[i - 1][2] + Step
      BY <1>9, <2>3
    <3>3. moved'[i - 1][1] = session /\ moved'[i][1] = session
      BY <1>7, <3>1
    <3>4. moved'[i][2] \in Nat
      BY <1>5
    <3> QED BY <1>12, <3>1, <3>2, <3>3, <3>4
  <2>4. i \in 1..L \/ i = L + 1 \/ i \in L + 2..L + n
    BY <1>12
  <2> QED BY <2>1, <2>2, <2>3, <2>4
<1>17. Ordered'
  BY <1>2, <1>6, <1>16 DEF Ordered
<1> QED BY <1>2, <1>6, <1>11, <1>15, <1>17 DEF L

-----------------------------------------------------------------------------
(* The steps that move the track on.                                        *)

(* The numbers between two samples, when the later one moves on.            *)
LEMMA Extended ==
  ASSUME NEW p \in Nat, NEW q \in Nat, NEW e \in Nat, NEW u, NEW v, NEW D,
         p <= q, u = p + 1, v = q + 1, e <= u, e..(u - 1) \subseteq D
  PROVE  e <= v /\ e..(v - 1) \subseteq D \cup (p + 1)..q
  OBVIOUS

(* Samples dropped while DISABLED or with the stream.                       *)
LEMMA DropOrder ==
  ASSUME Typed, Order, OutRefused \/ Close
  PROVE  Order'
<1>1. /\ UNCHANGED <<direction, mono, session, queue, moved>>
      /\ pc \in {"refused", "idle"} /\ pc' \in {"closed", "idle"}
  BY DEF OutRefused, Close, Goto, Quiet, link
<1>2. Small /\ Large /\ Samples /\ ClientSound
  BY TypeOKSplit DEF Typed
<1>3. /\ position \in Nat /\ rest \in Nat /\ Len(queue) \in Nat /\ direction \in {"out", "in"}
      /\ Expected \in Nat /\ Upcoming \in Int
  BY <1>2, UpcomingIs DEF Small, Large, Samples
<1>4. /\ dropped' = dropped \cup (position + 1)..position'
      /\ position' \in Nat /\ position <= position'
      /\ direction = "in" => position' = position
  <2>1. CASE Close
    BY <1>3, <2>1 DEF Close
  <2>2. CASE OutRefused
    <3>1. direction = "out"
      BY <1>2, <1>3, <2>2 DEF ClientSound, OutRefused
    <3>2. (position + 1)..position = {}
      BY <1>3
    <3> QED BY <1>3, <2>2, <3>1, <3>2 DEF OutRefused
  <2> QED BY <2>1, <2>2
<1>5. Ahead = 0 /\ Ahead' = 0
  BY <1>1 DEF Ahead, Transferring
<1>6. Ordered' /\ Expected' = Expected
  <2>1. Ordered /\ UNCHANGED <<mono, moved>> /\ dropped \subseteq dropped'
    BY <1>1, <1>4 DEF Order
  <2> QED BY <2>1, OrderedGrows
<1>7. InQueue'
  BY <1>1, <1>4 DEF Order, InQueue
<1>8. Gapless'
  <2>1. Upcoming = IF direction = "out" THEN position + 1 ELSE position + 1 - Len(queue)
    BY <1>3, <1>5 DEF Upcoming
  <2>2. Upcoming' = IF direction = "out" THEN position' + 1 ELSE position' + 1 - Len(queue)
    BY <1>1, <1>3, <1>4, <1>5 DEF Upcoming
  <2>3. Expected <= Upcoming /\ Expected..(Upcoming - 1) \subseteq dropped
    BY DEF Order, Gapless
  <2>4. Expected <= Upcoming' /\ Expected..(Upcoming' - 1) \subseteq dropped'
    <3>1. CASE direction = "in"
      BY <1>4, <2>1, <2>2, <2>3, <3>1
    <3>2. CASE direction = "out"
      <4>1. Upcoming = position + 1 /\ Upcoming' = position' + 1
        BY <2>1, <2>2, <3>2
      <4>2. position \in Nat /\ position' \in Nat /\ Expected \in Nat /\ position <= position'
        BY <1>3, <1>4
      <4>3. /\ Expected <= Upcoming'
            /\ Expected..(Upcoming' - 1) \subseteq dropped \cup (position + 1)..position'
        BY <2>3, <4>1, <4>2, Extended
      <4> QED BY <1>4, <4>3
    <3> QED BY <1>3, <3>1, <3>2
  <2>5. \A i \in 1..Len(moved') : moved'[i][1] <= session'
    BY <1>1 DEF Order, Gapless
  <2> QED BY <1>6, <2>4, <2>5 DEF Gapless
<1> QED BY <1>6, <1>7, <1>8 DEF Order

(* The end of a transfer.                                                   *)
LEMMA CountOrder ==
  ASSUME Typed, Order, Count
  PROVE  Order'
<1>1. /\ UNCHANGED <<direction, mono, session, queue, moved, dropped>>
      /\ pc = "count" /\ pc' = "idle"
  BY DEF Count, Goto, Quiet, link
<1>2. /\ position \in Nat /\ Len(queue) \in Nat /\ direction \in {"out", "in"}
      /\ done * Step = Ahead /\ Ahead \in Nat
  BY <1>1, TypeOKSplit, UpcomingIs DEF Typed, Large, Samples, Ahead, Transferring
<1>3. Ahead' = 0
  BY <1>1 DEF Ahead, Transferring
<1>4. direction # "out" => position' = position
  BY DEF Count
<1>5. direction = "out" => position' = position + Ahead
  BY <1>2 DEF Count
<1>6. Upcoming' = Upcoming
  BY <1>1, <1>2, <1>3, <1>4, <1>5 DEF Upcoming
<1>7. Ordered' /\ Expected' = Expected
  <2>1. Ordered /\ UNCHANGED <<mono, moved>> /\ dropped \subseteq dropped'
    BY <1>1 DEF Order
  <2> QED BY <2>1, OrderedGrows
<1>8. InQueue'
  BY <1>1, <1>2, <1>4 DEF Order, InQueue
<1>9. Gapless'
  BY <1>1, <1>6, <1>7 DEF Order, Gapless
<1> QED BY <1>7, <1>8, <1>9 DEF Order

(* The end of a queue.                                                      *)
LEMMA NewQueueOrder ==
  ASSUME Typed, Order, SessionStarted \/ SessionEnded
  PROVE  Order'
<1>1. /\ UNCHANGED <<direction, mono, pc, done, position, moved>>
      /\ NewQueue
  BY DEF SessionStarted, SessionEnded, thread
<1>2. /\ position \in Nat /\ Len(queue) \in Nat /\ direction \in {"out", "in"}
      /\ Expected \in Nat /\ Upcoming \in Int /\ session \in Nat /\ Ahead \in Nat
      /\ DOMAIN queue = 1..Len(queue)
  BY TypeOKSplit, UpcomingIs DEF Typed, Large, Samples
<1>3. queue' = <<>> /\ Len(queue') = 0
  BY <1>1 DEF NewQueue
<1>4. session <= session'
  BY <1>2 DEF SessionStarted, SessionEnded
<1>5. Ahead' = Ahead
  BY <1>1 DEF Ahead, Transferring, Step
<1>6. dropped \subseteq dropped'
  BY <1>1 DEF NewQueue
<1>7. Ordered' /\ Expected' = Expected
  <2>1. Ordered /\ UNCHANGED <<mono, moved>>
    BY <1>1 DEF Order
  <2> QED BY <1>6, <2>1, OrderedGrows
<1>8. InQueue'
  BY <1>1, <1>2, <1>3 DEF InQueue
<1>9. Expected <= Upcoming /\ Expected..(Upcoming - 1) \subseteq dropped
  BY DEF Order, Gapless
<1>10. Expected <= Upcoming' /\ Expected..(Upcoming' - 1) \subseteq dropped'
  <2>1. CASE direction = "out"
    <3>1. Upcoming' = Upcoming
      BY <1>1, <1>5, <2>1 DEF Upcoming
    <3> QED BY <1>6, <1>9, <3>1
  <2>2. CASE direction = "in"
    <3>1. Upcoming = position + 1 - Len(queue) /\ Upcoming' = position + 1
      BY <1>1, <1>2, <1>3, <2>2 DEF Upcoming
    <3>2. \A i \in 1..Len(queue) : queue[i] = position - Len(queue) + i
      BY <2>2 DEF Order, InQueue
    <3>3. dropped' = dropped \cup {queue[i] : i \in 1..Len(queue)}
      BY <1>1, <1>2, <2>2 DEF NewQueue
    <3>4. ASSUME NEW x \in Expected..(Upcoming' - 1) PROVE x \in dropped'
      <4>1. CASE x <= Upcoming - 1
        BY <1>2, <1>6, <1>9, <4>1
      <4>2. CASE x > Upcoming - 1
        <5>1. x - (position - Len(queue)) \in 1..Len(queue)
          BY <1>2, <3>1, <4>2
        <5>2. queue[x - (position - Len(queue))] = x
          BY <1>2, <3>2, <5>1
        <5> QED BY <3>3, <5>1, <5>2
      <4> QED BY <1>2, <4>1, <4>2
    <3> QED BY <1>2, <1>9, <3>1, <3>4
  <2> QED BY <1>2, <2>1, <2>2
<1>11. \A i \in 1..Len(moved') : moved'[i][1] <= session'
  <2>1. \A i \in 1..Len(moved) : moved[i][1] <= session /\ moved[i][1] \in Nat
    BY Entries DEF Order, Gapless, Typed, Samples
  <2>2. session' \in Nat
    BY <1>2 DEF SessionStarted, SessionEnded
  <2> QED BY <1>1, <1>2, <1>4, <2>1, <2>2
<1> QED BY <1>7, <1>8, <1>10, <1>11 DEF Order, Gapless

(* What the stack takes from the queue or puts into it.                     *)
LEMMA StackMovesOrder ==
  ASSUME Typed, Order, StackMoves
  PROVE  Order'
<1>1. UNCHANGED <<direction, mono, session, pc, done, moved, dropped>>
  BY DEF StackMoves, thread
<1>2. /\ position \in Nat /\ queue \in Seq(Nat) /\ Len(queue) \in Nat /\ direction \in {"out", "in"}
  BY TypeOKSplit DEF Typed, Large, Samples
<1>3. Ahead' = Ahead
  BY <1>1 DEF Ahead, Transferring, Step
<1>4. CASE direction = "out"
  <2>1. position' = position
    BY <1>4 DEF StackMoves
  <2>2. Upcoming' = Upcoming /\ InQueue'
    BY <1>1, <1>3, <1>4, <2>1 DEF Upcoming, InQueue
  <2>3. Ordered' /\ Expected' = Expected
    BY <1>1, OrderedGrows DEF Order
  <2>4. Gapless'
    BY <1>1, <2>2, <2>3 DEF Order, Gapless
  <2> QED BY <2>2, <2>3, <2>4 DEF Order
<1>5. CASE direction = "in"
  <2>1. position' = position + 1 /\ queue' = Append(queue, position + 1)
    BY <1>5 DEF StackMoves
  <2>2. /\ Len(queue') = Len(queue) + 1
        /\ \A i \in 1..Len(queue) : queue'[i] = queue[i]
        /\ queue'[Len(queue) + 1] = position + 1
    BY <1>2, <2>1, AppendProperties
  <2>3. Len(queue) <= position /\ \A i \in 1..Len(queue) : queue[i] = position - Len(queue) + i
    BY <1>5 DEF Order, InQueue
  <2>4. ASSUME NEW i \in 1..Len(queue) + 1
        PROVE  queue'[i] = (position + 1) - (Len(queue) + 1) + i
    <3>1. CASE i = Len(queue) + 1
      BY <1>2, <2>2, <3>1
    <3>2. CASE i \in 1..Len(queue)
      BY <1>2, <2>2, <2>3, <3>2
    <3> QED BY <1>2, <3>1, <3>2
  <2>5. InQueue'
    BY <1>2, <2>1, <2>2, <2>3, <2>4 DEF InQueue
  <2>6. Upcoming' = Upcoming
    BY <1>1, <1>2, <1>5, <2>1, <2>2 DEF Upcoming
  <2>7. Ordered' /\ Expected' = Expected
    BY <1>1, OrderedGrows DEF Order
  <2>8. Gapless'
    BY <1>1, <2>6, <2>7 DEF Order, Gapless
  <2> QED BY <2>5, <2>7, <2>8 DEF Order
<1> QED BY <1>2, <1>4, <1>5

(* The number of a sample of the buffer.                                    *)
LEMMA SampleAt ==
  ASSUME mono \in BOOLEAN, position \in Nat, NEW k \in Nat
  PROVE  /\ Sample(k + 1) = position + 1 + k * Step
         /\ Sample(k + 1) = Sample(k) + Step
<1>1. CASE mono
  <2>1. Step = 2
    BY <1>1 DEF Step, FrameSize
  <2> QED BY <2>1 DEF Sample
<1>2. CASE ~mono
  <2>1. Step = 1
    BY <1>2 DEF Step
  <2> QED BY <2>1 DEF Sample
<1> QED BY <1>1, <1>2

(* One poll of a transfer.                                                  *)
LEMMA PollOrder ==
  ASSUME Typed, Order, Poll
  PROVE  Order'
<1>1. /\ UNCHANGED <<direction, mono, session, pc, position, dropped>>
      /\ pc = "moving" /\ done < Items
  BY DEF Poll
<1>2. /\ position \in Nat /\ Len(queue) \in Nat /\ direction \in {"out", "in"}
      /\ mono \in BOOLEAN /\ (mono => direction = "out")
      /\ done \in Nat /\ Step \in {1, 2} /\ Len(moved) \in Nat
  BY TypeOKSplit, UpcomingIs DEF Typed, Large, Small, Samples
<1>3. Step' = Step
  BY <1>1 DEF Step
<1>4. Ahead = done * Step /\ Ahead' = done' * Step
  BY <1>1, <1>3 DEF Ahead, Transferring
<1> DEFINE n == Available
<1>5. n \in Nat /\ (direction = "in" => n <= Len(queue))
  BY <1>1, Polled DEF Typed
<1> HIDE DEF n
<1>6. CASE Write(n)
  <2>1. /\ direction = "out" /\ n > 0 /\ done' = done + n /\ Longer(n) /\ Now(n)
    BY <1>5, <1>6, Written DEF Typed, Longer, Now
  <2>2. \A i \in Len(moved) + 1..Len(moved) + n :
           moved'[i][2] = Sample(done + (i - Len(moved)))
    BY <1>5, <1>6, Written DEF Typed
  <2>3. Upcoming = position + 1 + done * Step
    BY <1>4, <2>1 DEF Upcoming
  <2>4. moved'[Len(moved) + 1][2] = Upcoming
    <3>1. Len(moved) + 1 \in Len(moved) + 1..Len(moved) + n
      BY <1>2, <1>5, <2>1
    <3>2. moved'[Len(moved) + 1][2] = Sample(done + 1)
      BY <1>2, <2>2, <3>1
    <3> QED BY <1>2, <2>3, <3>2, SampleAt
  <2>5. ASSUME NEW i \in Len(moved) + 2..Len(moved) + n
        PROVE  moved'[i][2] = moved'[i - 1][2] + Step
    <3> DEFINE k == done + (i - 1 - Len(moved))
    <3>1. /\ i \in Len(moved) + 1..Len(moved) + n /\ i - 1 \in Len(moved) + 1..Len(moved) + n
          /\ k \in Nat /\ done + (i - Len(moved)) = k + 1
      BY <1>2, <1>5
    <3>2. moved'[i][2] = Sample(k + 1) /\ moved'[i - 1][2] = Sample(k)
      BY <2>2, <3>1
    <3> HIDE DEF k
    <3> QED BY <1>2, <3>1, <3>2, SampleAt
  <2>6. Steady(n)
    BY <2>4, <2>5 DEF Steady
  <2>7. /\ Ordered' /\ \A i \in 1..Len(moved') : moved'[i][1] <= session'
        /\ Expected' = moved'[Len(moved) + n][2] + Step
    BY <1>1, <1>5, <2>1, <2>6, Appended
  <2>8. Expected' = position + 1 + done' * Step
    <3>1. Len(moved) + n \in Len(moved) + 1..Len(moved) + n /\ (Len(moved) + n) - Len(moved) = n
      BY <1>2, <1>5, <2>1
    <3>2. moved'[Len(moved) + n][2] = Sample(done + n)
      BY <2>2, <3>1
    <3>3. done + n \in Nat
      BY <1>2, <1>5
    <3>4. /\ Sample(done + n + 1) = position + 1 + (done + n) * Step
          /\ Sample(done + n + 1) = Sample(done + n) + Step
      BY <1>2, <3>3, SampleAt
    <3> QED BY <2>1, <2>7, <3>2, <3>4
  <2>9. Expected' = Upcoming' /\ Upcoming' \in Int
    <3>1. Upcoming' = position + 1 + done' * Step
      BY <1>1, <1>4, <2>1 DEF Upcoming
    <3>2. done' \in Nat
      BY <1>2, <1>5, <2>1
    <3> QED BY <1>2, <2>8, <3>1, <3>2
  <2>10. Gapless'
    BY <2>7, <2>9 DEF Gapless
  <2>11. InQueue'
    BY <1>1, <2>1 DEF InQueue
  <2> QED BY <2>7, <2>10, <2>11 DEF Order
<1>7. CASE Read(n)
  <2>1. direction = "in"
    BY <1>7 DEF Read
  <2>2. Step = 1
    BY <1>2, <2>1, Stepping, TypeOKSplit DEF Typed, Small
  <2>3. n <= Len(queue)
    BY <1>5, <2>1
  <2>4. /\ n > 0 /\ Len(queue') = Len(queue) - n
        /\ \A i \in 1..Len(queue) - n : queue'[i] = queue[n + i]
        /\ Longer(n) /\ Now(n)
    BY <1>5, <1>7, <2>3, ReadOff DEF Typed, Longer, Now
  <2>5. \A i \in Len(moved) + 1..Len(moved) + n : moved'[i][2] = queue[i - Len(moved)]
    BY <1>5, <1>7, <2>3, ReadOff DEF Typed
  <2>6. Len(queue) <= position /\ \A i \in 1..Len(queue) : queue[i] = position - Len(queue) + i
    BY <2>1 DEF Order, InQueue
  <2>7. \A i \in Len(moved) + 1..Len(moved) + n :
           moved'[i][2] = position - Len(queue) + (i - Len(moved))
    <3>1. \A i \in Len(moved) + 1..Len(moved) + n : i - Len(moved) \in 1..Len(queue)
      BY <1>2, <1>5, <2>3
    <3> QED BY <2>5, <2>6, <3>1
  <2>8. Upcoming = position + 1 - Len(queue)
    BY <2>1 DEF Upcoming
  <2>9. moved'[Len(moved) + 1][2] = Upcoming
    <3>1. Len(moved) + 1 \in Len(moved) + 1..Len(moved) + n
      BY <1>2, <1>5, <2>4
    <3> QED BY <1>2, <2>7, <2>8, <3>1
  <2>10. ASSUME NEW i \in Len(moved) + 2..Len(moved) + n
         PROVE  moved'[i][2] = moved'[i - 1][2] + Step
    <3>1. i \in Len(moved) + 1..Len(moved) + n /\ i - 1 \in Len(moved) + 1..Len(moved) + n
      BY <1>2, <1>5
    <3>2. /\ moved'[i][2] = position - Len(queue) + (i - Len(moved))
          /\ moved'[i - 1][2] = position - Len(queue) + (i - 1 - Len(moved))
      BY <2>7, <3>1
    <3> QED BY <1>2, <1>5, <2>2, <3>2
  <2>11. Steady(n)
    BY <2>9, <2>10 DEF Steady
  <2>12. /\ Ordered' /\ \A i \in 1..Len(moved') : moved'[i][1] <= session'
         /\ Expected' = moved'[Len(moved) + n][2] + Step
    BY <1>1, <1>5, <2>4, <2>11, Appended
  <2>13. Expected' = position - Len(queue) + n + 1
    <3>1. Len(moved) + n \in Len(moved) + 1..Len(moved) + n /\ (Len(moved) + n) - Len(moved) = n
      BY <1>2, <1>5, <2>4
    <3>2. moved'[Len(moved) + n][2] = position - Len(queue) + n
      BY <2>7, <3>1
    <3> QED BY <1>2, <1>5, <2>2, <2>12, <3>2
  <2>14. Upcoming' = position - Len(queue) + n + 1
    <3>1. Upcoming' = position + 1 - Len(queue')
      BY <1>1, <2>1 DEF Upcoming
    <3> QED BY <1>2, <1>5, <2>4, <3>1
  <2>15. Gapless'
    <3>1. Expected' <= Upcoming' /\ Expected'..(Upcoming' - 1) = {}
      BY <1>2, <1>5, <2>13, <2>14
    <3> QED BY <2>12, <3>1 DEF Gapless
  <2>16. InQueue'
    <3>1. Len(queue') <= position
      BY <1>2, <1>5, <2>4, <2>6
    <3>2. ASSUME NEW i \in 1..Len(queue) - n
          PROVE  queue'[i] = position - (Len(queue) - n) + i
      <4>1. n + i \in 1..Len(queue)
        BY <1>2, <1>5
      <4>2. queue'[i] = queue[n + i] /\ queue[n + i] = position - Len(queue) + (n + i)
        BY <2>4, <2>6, <4>1
      <4> QED BY <1>2, <1>5, <4>2
    <3> QED BY <1>1, <2>4, <3>1, <3>2 DEF InQueue
  <2> QED BY <2>12, <2>15, <2>16 DEF Order
<1>8. CASE UNCHANGED <<queue, moved, done>>
  BY <1>1, <1>4, <1>8, OrderKept
<1> QED BY <1>6, <1>7, <1>8 DEF Poll, n

-----------------------------------------------------------------------------
(* A buffer in two queues.                                                  *)

(* During a transfer no stream is started that was not starting.            *)
LEMMA StillState ==
  ASSUME StillStep, pc = "moving", pc' = "moving", state' \in {"STARTING", "STARTED"}
  PROVE  state \in {"STARTING", "STARTED"}
<1>1. ~ (\/ Open \/ (\E b \in Buffer : OutWrite(b)) \/ (\E b \in Buffer : InRead(b))
         \/ OutResume \/ Started \/ InStart)
  BY DEF Open, OutWrite, InRead, OutResume, Started, InStart
<1>2. ~ Moved
  BY DEF Moved, Goto
<1>3. CASE OutStandby \/ InStandby \/ InSuspend \/ Suspended \/ InSettle
  BY <1>3 DEF OutStandby, InStandby, InSuspend, Suspended, InSettle
<1>4. CASE A2dpSuspend \/ A2dpResume \/ Closing
  BY <1>4 DEF A2dpSuspend, A2dpResume, Closing
<1>5. CASE \E st \in Status : StackAnswered(st)
  BY <1>5 DEF StackAnswered, ControlResult
<1> QED BY <1>1, <1>2, <1>3, <1>4, <1>5 DEF StillStep

(* Nor is a session made ready.                                             *)
LEMMA StillReady ==
  ASSUME StillStep
  PROVE  ready' = ready
<1>1. CASE Open \/ (\E b \in Buffer : OutWrite(b)) \/ (\E b \in Buffer : InRead(b))
  BY <1>1 DEF Open, OutWrite, InRead, Quiet, link
<1>2. CASE OutResume \/ Started \/ InStart \/ Moved
  BY <1>2 DEF OutResume, Started, InStart, Moved, Quiet, link
<1>3. CASE OutStandby \/ InStandby \/ InSuspend \/ Suspended \/ InSettle
  BY <1>3 DEF OutStandby, InStandby, InSuspend, Suspended,
              InSettle, OtherOnly, link
<1>4. CASE A2dpSuspend \/ A2dpResume \/ Closing
  BY <1>4 DEF A2dpSuspend, A2dpResume, Closing,
              OtherOnly, link
<1>5. CASE \E st \in Status : StackAnswered(st)
  BY <1>5 DEF StackAnswered, link
<1> QED BY <1>1, <1>2, <1>3, <1>4, <1>5 DEF StillStep

(* A transfer that has moved nothing is in no session.                      *)
LEMMA NoneMoved ==
  ASSUME Typed, done' = 0, moved' = moved
  PROVE  Sessions' = {}
<1>1. Len(moved) \in Nat
  BY DEF Typed, Samples
<1>2. (Len(moved') - done' + 1)..Len(moved') = {}
  BY <1>1
<1> QED BY <1>2 DEF Sessions

(* So that a buffer is not split by these steps.                            *)
LEMMA StillSplit ==
  ASSUME Typed, SplitOnlyIfDisabled, StillStep
  PROVE  SplitOnlyIfDisabled'
<1>1. moved' = moved /\ session' = session /\ ready' = ready
  BY StillSteps, StillReady DEF StillStep, Still
<1> SUFFICES ASSUME pc' = "moving", Sessions' \ {session'} # {}, ready',
                    state' \in {"STARTING", "STARTED"}
             PROVE  FALSE
  BY DEF SplitOnlyIfDisabled
<1>2. pc = "moving" /\ done' = done
  BY <1>1, StillPc, NoneMoved DEF Transferring
<1>3. Sessions' = Sessions
  BY <1>1, <1>2 DEF Sessions
<1>4. state \in {"STARTING", "STARTED"}
  BY <1>2, StillState
<1> QED BY <1>1, <1>2, <1>3, <1>4 DEF SplitOnlyIfDisabled

(* A poll moves its samples in the session there is.                        *)
LEMMA PollSplit ==
  ASSUME Typed, SplitOnlyIfDisabled, Poll
  PROVE  SplitOnlyIfDisabled'
<1>1. /\ pc = "moving" /\ pc' = pc /\ session' = session /\ ready' = ready /\ state' = state
      /\ done < Items
  BY DEF Poll
<1>2. done \in Nat /\ Len(moved) \in Nat
  BY TypeOKSplit DEF Typed, Small, Samples
<1>3. Sessions' \subseteq Sessions \cup {session}
  <2> DEFINE n == Available
  <2>1. n \in Nat /\ (direction = "in" => n <= Len(queue))
    BY <1>1, Polled DEF Typed
  <2> HIDE DEF n
  <2>2. CASE Write(n) \/ Read(n)
    <3>1. done' = done + n /\ Longer(n) /\ Now(n)
      <4>1. CASE Write(n)
        BY <2>1, <4>1, Written DEF Typed, Longer, Now
      <4>2. CASE Read(n)
        <5>1. n <= Len(queue)
          BY <2>1, <4>2 DEF Read
        <5> QED BY <2>1, <4>2, <5>1, ReadOff DEF Typed, Longer, Now
      <4> QED BY <2>2, <4>1, <4>2
    <3>2. Len(moved') - done' + 1 = Len(moved) - done + 1 /\ Len(moved') = Len(moved) + n
      BY <1>2, <2>1, <3>1 DEF Longer
    <3>3. ASSUME NEW i \in (Len(moved) - done + 1)..(Len(moved) + n), i >= 1
          PROVE  moved'[i][1] \in Sessions \cup {session}
      <4>1. CASE i <= Len(moved)
        <5>1. i \in 1..Len(moved) /\ i \in (Len(moved) - done + 1)..Len(moved)
          BY <1>2, <2>1, <3>3, <4>1
        <5>2. moved'[i] = moved[i]
          BY <3>1, <5>1 DEF Longer
        <5>3. moved[i][1] \in Sessions
          BY <5>1 DEF Sessions
        <5> QED BY <5>2, <5>3
      <4>2. CASE i > Len(moved)
        <5>1. i \in Len(moved) + 1..Len(moved) + n
          BY <1>2, <2>1, <4>2
        <5> QED BY <3>1, <5>1 DEF Now
      <4> QED BY <1>2, <2>1, <4>1, <4>2
    <3>4. done <= Len(moved)
      BY <1>1 DEF Typed, ClientSound, Transferring
    <3>5. \A i \in (Len(moved) - done + 1)..(Len(moved) + n) : i >= 1
      BY <1>2, <2>1, <3>4
    <3> QED BY <3>2, <3>3, <3>5 DEF Sessions
  <2>3. CASE UNCHANGED <<queue, moved, done>>
    BY <2>3 DEF Sessions
  <2> QED BY <2>2, <2>3 DEF Poll, n
<1> QED BY <1>1, <1>3 DEF SplitOnlyIfDisabled

(* The other steps end a transfer, or end its session and disable the       *)
(* stream.                                                                  *)
LEMMA OtherSplit ==
  ASSUME Typed, SplitOnlyIfDisabled,
         \/ OutRefused \/ Close \/ Count
         \/ SessionStarted \/ SessionEnded \/ StackMoves
  PROVE  SplitOnlyIfDisabled'
<1>1. CASE OutRefused \/ Close \/ Count
  BY <1>1 DEF OutRefused, Close, Count, Goto, SplitOnlyIfDisabled
<1>2. CASE SessionStarted \/ SessionEnded
  <2>1. pc' = pc
    BY <1>2 DEF SessionStarted, SessionEnded, thread
  <2>2. ready' => state' = SessionChanged
    BY <1>2 DEF SessionStarted, SessionEnded
  <2> QED BY <2>1, <2>2 DEF SessionChanged, SplitOnlyIfDisabled
<1>3. CASE StackMoves
  <2>1. UNCHANGED <<pc, done, moved, session, ready, state>>
    BY <1>3 DEF StackMoves, thread
  <2> QED BY <2>1 DEF SplitOnlyIfDisabled, Sessions
<1> QED BY <1>1, <1>2, <1>3

-----------------------------------------------------------------------------
(* The other thread and the client's.                                       *)

(* The steps that neither lock nor unlock mutex_ for a wait.                *)
LEMMA OtherKept ==
  ASSUME OtherSound, UNCHANGED <<direction, other, waits, restarted>>,
         pc' = "closed" => other = "idle",
         pc' = "starting" => pc = "starting",
         state' \in {"STARTING", "STARTED"} => Playing
  PROVE  OtherSound'
  BY DEF OtherSound, Lock, Playing

LEMMA OtherStep ==
  ASSUME Typed, OtherSound, Next
  PROVE  OtherSound'
<1>1. /\ MaxPolls \in Nat \ {0} /\ waits \in Nat /\ state \in StreamState
      /\ direction = "in" => pc \notin {"resume", "refused"}
  BY PcmAssumption, TypeOKSplit DEF Typed, Small, ClientSound
<1>2. CASE Open
  BY <1>1, <1>2 DEF OtherSound, Lock, Playing, Open, Goto, Quiet, control, link
<1>3. CASE Close
  BY <1>3, OtherKept DEF Close, Goto, Quiet, control, link
<1>4. CASE (\E b \in Buffer : OutWrite(b)) \/ (\E b \in Buffer : InRead(b))
  <2>1. /\ UNCHANGED <<direction, other, waits, restarted, state>>
        /\ pc' \in {"moving", "resume", "read"}
    BY <1>4 DEF OutWrite, InRead, Begin_Transfer, Goto, Quiet, control
  <2> QED BY <2>1, OtherKept DEF Playing
<1>5. CASE OutResume
  BY <1>1, <1>5 DEF OtherSound, Lock, Playing, OutResume, Begin_Transfer, Goto, Quiet,
     control, link
<1>6. CASE InStart
  BY <1>6 DEF OtherSound, Lock, Playing, InStart, Begin_Transfer, Idle, Goto, link
<1>7. CASE Started \/ OutRefused \/ Moved \/ Count \/ Poll
  <2>1. /\ UNCHANGED <<direction, other, waits, restarted, state>>
        /\ pc' \in {"moving", "refused", "idle", "count"}
    BY <1>7 DEF Started, OutRefused, Moved, Count, Poll, Begin_Transfer, Goto, Quiet, control
  <2> QED BY <2>1, OtherKept DEF Playing
<1>8. CASE SessionStarted \/ SessionEnded \/ StackMoves
  <2>1. /\ UNCHANGED <<direction, other, waits, restarted, pc>>
        /\ state' \in {state, "DISABLED"}
    BY <1>8 DEF SessionStarted, SessionEnded, StackMoves, SessionChanged, thread, control
  <2> QED BY <2>1, OtherKept DEF OtherSound, Playing
<1>9. CASE \E st \in Status : StackAnswered(st)
  <2>1. UNCHANGED <<direction, other, waits, restarted, pc>>
    BY <1>9 DEF StackAnswered, thread, control
  <2>2. state' \in {"STARTING", "STARTED"} => Playing
    BY <1>9 DEF StackAnswered, ControlResult, Playing
  <2> QED BY <2>1, <2>2, OtherKept DEF OtherSound
<1>10. CASE OutStandby \/ A2dpSuspend \/ A2dpResume \/ Closing
  BY <1>10 DEF OtherSound, Lock, Playing, OutStandby, A2dpSuspend, A2dpResume, Closing,
     OtherMay, OtherOnly, OtherGoto, thread, control
<1>11. CASE InStandby
  BY <1>1, <1>11 DEF OtherSound, Lock, Playing, InStandby, OtherMay, OtherOnly, OtherGoto, thread
<1>12. CASE InSuspend
  BY <1>1, <1>12 DEF OtherSound, Lock, Playing, InSuspend, Pending, Look, OtherMay, OtherOnly,
     OtherGoto, thread
<1>13. CASE Suspended
  BY <1>1, <1>13 DEF OtherSound, Lock, Playing, Suspended, OtherOnly, OtherGoto, thread
<1>14. CASE InSettle
  BY <1>1, <1>14 DEF OtherSound, Lock, Playing, InSettle, Look, OtherMay, OtherOnly,
     OtherGoto, thread
<1> QED
  BY <1>2, <1>3, <1>4, <1>5, <1>6, <1>7, <1>8, <1>9, <1>10, <1>11, <1>12, <1>13, <1>14
  DEF Next, Proceed, OtherProceeds, Client, OtherCalls, Stack

-----------------------------------------------------------------------------
(* The two counts.                                                          *)

(* What is counted of a transfer under way: a buffer that is not mono moves *)
(* sample by sample.                                                        *)
LEMMA StillInFlight ==
  ASSUME StillStep
  PROVE  InFlight' = InFlight
<1>1. \/ pc' = pc /\ done' = done
      \/ pc = "moving" /\ pc' = "count" /\ done' = done
      \/ ~Transferring /\ (pc' \in {"moving", "count"} => done' = 0)
  BY StillPc
<1> QED BY <1>1 DEF InFlight, Transferring

(* The steps that move no sample: two of them start a count again.          *)
LEMMA StillCounted ==
  ASSUME Typed, Counted, StillStep
  PROVE  Counted'
<1>1. UNCHANGED <<direction, mono, transmitted, queue>> /\ InFlight' = InFlight
  BY StillSteps, StillInFlight DEF StillStep, Still
<1>2. \/ UNCHANGED <<frames_presented, aligned>>
      \/ Open
      \/ aligned' = FALSE
  <2>1. CASE Open \/ Closing
    BY <2>1 DEF Closing
  <2>2. CASE (\E b \in Buffer : OutWrite(b)) \/ (\E b \in Buffer : InRead(b))
    BY <2>2 DEF OutWrite, InRead, frames
  <2>3. CASE OutResume \/ Started \/ InStart \/ Moved
    BY <2>3 DEF OutResume, Started, InStart, Moved, frames
  <2>4. CASE \/ OutStandby \/ InStandby \/ InSuspend \/ Suspended \/ InSettle
             \/ A2dpSuspend \/ A2dpResume \/ (\E st \in Status : StackAnswered(st))
    BY <2>4 DEF OutStandby, InStandby, InSuspend, Suspended, InSettle, A2dpSuspend,
       A2dpResume, StackAnswered, frames
  <2> QED BY <2>1, <2>2, <2>3, <2>4 DEF StillStep
<1>3. CASE Open
  <2>1. /\ frames_presented' = 0 /\ (aligned' => transmitted = 0 /\ queue = <<>>)
        /\ InFlight' = 0
    BY <1>3 DEF Open, Goto, InFlight, Transferring
  <2> QED BY <1>1, <2>1 DEF Counted, FrameSize
<1> QED BY <1>1, <1>2, <1>3 DEF Counted

LEMMA OtherCounted ==
  ASSUME Typed, Counted,
         \/ OutRefused \/ Close \/ Count \/ Poll
         \/ SessionStarted \/ SessionEnded \/ StackMoves
  PROVE  Counted'
<1>1. /\ frames_presented \in Nat /\ transmitted \in Nat /\ done \in Nat /\ rest \in Nat
      /\ queue \in Seq(Nat) /\ Len(queue) \in Nat /\ direction \in {"out", "in"}
      /\ mono \in BOOLEAN /\ FrameSize = 2
  BY TypeOKSplit DEF Typed, Small, Samples, FrameSize
<1>2. CASE OutRefused \/ Close
  <2>1. /\ UNCHANGED <<direction, mono, transmitted, queue>>
        /\ InFlight = 0 /\ InFlight' = 0
        /\ aligned' = FALSE \/ UNCHANGED <<frames_presented, aligned>>
    BY <1>2 DEF OutRefused, Close, Goto, Quiet, link, frames, InFlight, Transferring
  <2> QED BY <2>1 DEF Counted
<1>3. CASE Count
  <2>1. /\ UNCHANGED <<direction, mono, transmitted, queue>>
        /\ InFlight = done /\ InFlight' = 0
    BY <1>3 DEF Count, Goto, Quiet, link, InFlight, Transferring
  <2>2. CASE done = 0
    BY <1>3, <2>1, <2>2 DEF Count, CountFrames, frames, Counted
  <2>3. CASE done # 0
    <3>1. /\ frames_presented' = frames_presented + Frames
          /\ aligned' => aligned /\ (direction = "out" => done = Items)
      BY <1>3, <2>3 DEF Count, CountFrames
    <3>2. ASSUME aligned', ~mono PROVE 2 * Frames <= done
      <4>1. Items = rest
        BY <1>1, <3>2, Stepping DEF Items, Step
      <4>2. Frames = done \div 2
        BY <1>1, <3>1, <3>2, <4>1 DEF Frames
      <4> QED BY <1>1, <4>2
    <3>3. Frames \in Nat
      BY <1>1 DEF Frames
    <3> QED BY <1>1, <2>1, <3>1, <3>2, <3>3 DEF Counted
  <2> QED BY <2>2, <2>3
<1>4. CASE Poll
  <2>1. /\ UNCHANGED <<direction, mono, transmitted, frames_presented, aligned>>
        /\ InFlight = done /\ InFlight' = done' /\ done < Items
    BY <1>4 DEF Poll, frames, InFlight, Transferring
  <2> DEFINE n == Available
  <2>2. n \in Nat /\ (direction = "in" => n <= Len(queue))
    BY <2>1, Polled DEF Typed
  <2> HIDE DEF n
  <2>3. CASE Write(n)
    <3>1. direction = "out" /\ done' = done + n /\ Len(queue') = Len(queue) + n
      BY <2>2, <2>3, Written DEF Typed
    <3> QED BY <1>1, <2>1, <2>2, <3>1 DEF Counted
  <2>4. CASE Read(n)
    <3>1. direction = "in"
      BY <2>4 DEF Read
    <3>2. done' = done + n /\ Len(queue') = Len(queue) - n
      BY <2>2, <2>4, <3>1, ReadOff DEF Typed
    <3> QED BY <1>1, <2>1, <2>2, <3>1, <3>2 DEF Counted
  <2>5. CASE UNCHANGED <<queue, moved, done>>
    BY <2>1, <2>5 DEF Counted
  <2> QED BY <1>4, <2>3, <2>4, <2>5 DEF Poll, n
<1>5. CASE SessionStarted \/ SessionEnded
  <2>1. /\ NewQueue /\ UNCHANGED <<frames_presented, pc, done>>
    BY <1>5 DEF SessionStarted, SessionEnded, thread
  <2>2. Len(queue') = 0 /\ transmitted' = 0 /\ aligned' => frames_presented' = 0
    BY <2>1 DEF NewQueue
  <2>3. aligned' => InFlight' = 0 /\ frames_presented' = 0
    BY <2>1 DEF NewQueue, InFlight, Transferring
  <2>4. Len(queue') = 0 /\ transmitted' = 0
    BY <2>1 DEF NewQueue
  <2> QED BY <1>1, <2>3, <2>4 DEF Counted, FrameSize
<1>6. CASE StackMoves
  <2>1. /\ UNCHANGED <<direction, mono, frames_presented, aligned>>
        /\ transmitted' = transmitted + 1 /\ InFlight' = InFlight /\ InFlight \in Nat
    BY <1>1, <1>6 DEF StackMoves, frames, thread, InFlight, Transferring
  <2>2. CASE direction = "out"
    <3>1. queue # <<>> /\ queue' = Tail(queue)
      BY <1>6, <2>2 DEF StackMoves
    <3>2. Len(queue') = Len(queue) - 1
      BY <1>1, <3>1, HeadTailProperties
    <3> QED BY <1>1, <2>1, <2>2, <3>2 DEF Counted
  <2>3. CASE direction = "in"
    <3>1. queue' = Append(queue, position + 1) /\ position \in Nat
      BY <1>6, <2>3, TypeOKSplit DEF StackMoves, Typed, Large
    <3>2. Len(queue') = Len(queue) + 1
      BY <1>1, <3>1, AppendProperties
    <3> QED BY <1>1, <2>1, <2>3, <3>2 DEF Counted
  <2> QED BY <1>1, <2>2, <2>3
<1> QED BY <1>2, <1>3, <1>4, <1>5, <1>6

-----------------------------------------------------------------------------
(* Every step keeps the invariant.                                          *)
LEMMA PcmStep ==
  ASSUME PcmInv, [Next]_vars
  PROVE  PcmInv'
<1>1. Typed /\ OtherSound /\ Counted /\ Order /\ InQueue /\ SplitOnlyIfDisabled
  BY DEF PcmInv, Order
<1>9. Next => OtherSound'
  BY <1>1, OtherStep
<1>2. CASE StillStep /\ Next
  <2>1. Ahead' = Ahead /\ Typed' /\ Counted'
    BY <1>1, <1>2, StillAhead, StillTyped, StillCounted
  <2>2. UNCHANGED <<direction, mono, session, queue, position, moved, dropped>>
    BY <1>2, StillSteps DEF StillStep, Still
  <2> QED BY <1>1, <1>2, <1>9, <2>1, <2>2, OrderKept, StillSplit DEF PcmInv
<1>3. CASE (OutRefused \/ Close) /\ Next
  BY <1>1, <1>3, <1>9, RefusedTyped, CloseTyped, DropOrder, OtherSplit, OtherCounted DEF PcmInv
<1>4. CASE Count /\ Next
  BY <1>1, <1>4, <1>9, CountTyped, CountOrder, OtherSplit, OtherCounted DEF PcmInv
<1>5. CASE Poll /\ Next
  BY <1>1, <1>5, <1>9, PollTyped, PollOrder, PollSplit, OtherCounted DEF PcmInv
<1>6. CASE (SessionStarted \/ SessionEnded) /\ Next
  BY <1>1, <1>6, <1>9, NewQueueTyped, NewQueueOrder, OtherSplit, OtherCounted DEF PcmInv
<1>7. CASE StackMoves /\ Next
  BY <1>1, <1>7, <1>9, StackMovesTyped, StackMovesOrder, OtherSplit, OtherCounted DEF PcmInv
<1>8. CASE UNCHANGED vars
  <2>1. UNCHANGED <<direction, mono, session, ready, queue, transmitted, state, pc, rest, done,
                    polls, other, waits, restarted, frames_presented, aligned, position, moved,
                    dropped>>
    BY <1>8 DEF vars, link, frames, thread, control, track
  <2>2. /\ Step' = Step /\ Items' = Items /\ Sessions' = Sessions
        /\ Ahead' = Ahead /\ InFlight' = InFlight
    BY <2>1 DEF Step, Items, Sessions, Ahead, InFlight, Transferring
  <2>3. Typed'
    <3>1. Samples' /\ Small' /\ Large'
      BY <1>1, <2>1, TypeOKSplit DEF Typed, Samples, Small, Large
    <3>2. ClientSound'
      BY <1>1, <2>1, <2>2 DEF Typed, ClientSound, Transferring
    <3> QED BY <3>1, <3>2, TypeOKSplit DEF Typed
  <2>4. Order'
    BY <1>1, <2>1, <2>2, OrderKept
  <2>5. SplitOnlyIfDisabled'
    BY <1>1, <2>1, <2>2 DEF SplitOnlyIfDisabled
  <2>6. OtherSound' /\ Counted'
    BY <1>1, <2>1, <2>2 DEF OtherSound, Counted, Lock, Playing
  <2> QED BY <2>3, <2>4, <2>5, <2>6 DEF PcmInv
<1>10. Next => \/ StillStep \/ OutRefused \/ Close \/ Count \/ Poll
               \/ SessionStarted \/ SessionEnded \/ StackMoves
  BY DEF Next, Proceed, OtherProceeds, Client, OtherCalls, Stack, StillStep
<1> QED BY <1>2, <1>3, <1>4, <1>5, <1>6, <1>7, <1>8, <1>10

LEMMA PcmInductive == Spec => []PcmInv
<1>1. Init => PcmInv
  BY InitPcm
<1>2. PcmInv /\ [Next]_vars => PcmInv'
  BY PcmStep
<1> QED BY <1>1, <1>2, PTL DEF Spec

(* The samples pass in order and none twice, whatever a transfer is         *)
(* interrupted by: none is missing but those dropped while DISABLED or lost *)
(* with a session (OutWritePcmData, InReadPcmData, out_write).              *)
THEOREM SamplesInOrder == Spec => []InOrder
<1>1. PcmInv => InOrder
  <2> SUFFICES ASSUME PcmInv PROVE InOrder
    OBVIOUS
  <2>1. DOMAIN moved = 1..Len(moved)
    BY DEF PcmInv, Typed, Samples
  <2> QED BY <2>1 DEF PcmInv, Typed, Order, Ordered, InOrder
<1> QED BY <1>1, PcmInductive, PTL

(* A buffer that is in the queues of two sessions has left its stream       *)
(* disabled, by SessionChangedHandler (OutWritePcmData lets go of the       *)
(* session while it polls).                                                 *)
THEOREM SplitsAreSilent == Spec => []SplitOnlyIfDisabled
<1>1. PcmInv => SplitOnlyIfDisabled
  BY DEF PcmInv
<1> QED BY <1>1, PcmInductive, PTL

(* Of two counts, the one that out_calculate_feeding_delay_ms takes.        *)
LEMMA Told ==
  ASSUME NEW fp \in Nat, NEW t \in Nat, NEW q \in Nat, NEW l \in Nat, NEW size \in Nat
  PROVE  /\ 2 * fp <= t + q /\ q <= size /\ size <= l * 2 => ~(fp - (t \div 2) > l)
         /\ 2 * fp <= t => fp <= t \div 2
  OBVIOUS

(* The stack's count is not taken for an earlier session's as long as it is *)
(* of the same: neither count was reset, no buffer written in part, and the *)
(* queue is no longer than the latency (out_calculate_feeding_delay_ms).    *)
THEOREM ResetsAreTold == Spec => []ResetsToldApart
<1>1. PcmInv => ResetsToldApart
  <2> SUFFICES ASSUME PcmInv, aligned, ~mono, NEW l \in Latencies,
                      direction = "out" => QueueSize <= l * FrameSize
               PROVE  StackCount(l) = Min({frames_presented, Absorbed})
    BY DEF ResetsToldApart
  <2>1. /\ l \in Nat /\ QueueSize \in Nat /\ frames_presented \in Nat /\ transmitted \in Nat
        /\ Len(queue) \in Nat /\ Len(queue) <= QueueSize /\ done \in Nat
        /\ direction \in {"out", "in"}
    BY PcmAssumption, TypeOKSplit DEF PcmInv, Typed, Small, Large, Samples
  <2>2. InFlight \in Nat
    BY <2>1 DEF InFlight
  <2>3. Absorbed = transmitted \div 2 /\ Absorbed \in Nat
    BY <2>1 DEF Absorbed, FrameSize
  <2>4. ~(frames_presented - Absorbed > l)
    <3>1. CASE direction = "out"
      <4>1. 2 * frames_presented <= transmitted + Len(queue) /\ QueueSize <= l * 2
        BY <2>1, <2>2, <3>1 DEF PcmInv, Counted, FrameSize
      <4> QED BY <2>1, <2>3, <4>1, Told
    <3>2. CASE direction = "in"
      <4>1. 2 * frames_presented <= transmitted
        BY <2>1, <2>2, <3>2 DEF PcmInv, Counted, FrameSize
      <4>2. frames_presented <= Absorbed
        BY <2>1, <2>3, <4>1, Told
      <4> QED BY <2>1, <2>3, <4>2
    <3> QED BY <2>1, <3>1, <3>2
  <2>5. StackCount(l) = IF frames_presented <= Absorbed THEN frames_presented ELSE Absorbed
    BY <2>1, <2>3, <2>4 DEF StackCount
  <2> QED BY <2>1, <2>3, <2>5, MinOfTwo
<1> QED BY <1>1, PcmInductive, PTL

(* in_standby returns early only with its stream neither started nor        *)
(* starting nor suspending, unless in_read has started it again after it    *)
(* was suspended: no suspend request is lost.                               *)
THEOREM SuspendsKept == Spec => SuspendNotLost
<1>1. ASSUME PcmInv, [Next]_vars,
             other \in {"standby", "settle"}, other' = "idle", waits' > 0
      PROVE  state' \in {"STANDBY", "DISABLED"} \/ restarted
  <2>1. /\ state \in StreamState /\ waits \in Nat
        /\ other = "settle" => restarted \/ ~Playing
    BY PcmAssumption, <1>1, TypeOKSplit DEF PcmInv, Typed, Small, OtherSound
  <2>2. InSuspend \/ InSettle
    <3>1. ASSUME \/ Proceed \/ Client \/ Stack \/ UNCHANGED vars
          PROVE  other' = other
      <4>1. CASE Proceed
        BY <4>1 DEF Proceed, OutResume, OutRefused, InStart, Started, Poll, Moved, Count, Quiet,
           control
      <4>2. CASE Client
        BY <4>2 DEF Client, Open, Close, OutWrite, InRead, Quiet, control
      <4>3. CASE Stack
        BY <4>3 DEF Stack, SessionStarted, SessionEnded, StackMoves, StackAnswered, control
      <4>4. CASE UNCHANGED vars
        BY <4>4 DEF vars, control
      <4> QED BY <3>1, <4>1, <4>2, <4>3, <4>4
    <3>2. ~ OtherCalls
      BY <1>1 DEF OtherCalls, OutStandby, InStandby, A2dpSuspend, A2dpResume, Closing, control
    <3>3. ~ Suspended
      BY <1>1 DEF Suspended, Lock
    <3>4. other' # other
      BY <1>1
    <3> QED BY <1>1, <3>1, <3>2, <3>3, <3>4 DEF Next, OtherProceeds
  <2>3. CASE InSuspend
    BY <1>1, <2>1, <2>3 DEF InSuspend, Pending, Look, OtherGoto, StreamState, Playing
  <2>4. CASE InSettle
    BY <1>1, <2>1, <2>4 DEF InSettle, Look, OtherGoto, StreamState, Playing
  <2> QED BY <2>2, <2>3, <2>4
<1>2. PcmInv /\ [Next]_vars =>
        [(other \in {"standby", "settle"} /\ other' = "idle" /\ waits' > 0)
           => (state' \in {"STANDBY", "DISABLED"} \/ restarted)]_vars
  BY <1>1
<1> QED BY <1>2, PcmInductive, PTL DEF Spec, SuspendNotLost
=============================================================================
