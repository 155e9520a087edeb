------------------------- MODULE BluetoothProviders -------------------------
(***************************************************************************)
(* The providers of the Bluetooth audio HAL (bluetooth/audio/hal) and the   *)
(* session they report to: which configurations a stack can start a session *)
(* with, what the session makes of them, how they change while it runs, and *)
(* what the audio HAL then learns.  One session type at a time, chosen in   *)
(* Init; openProvider makes a provider whenever it is asked, so that        *)
(* several may serve the same session, and the stack behind any of them may *)
(* die.  A binder call is one step: the session mutex is held throughout.   *)
(***************************************************************************)
EXTENDS BluetoothCodecs, Sequences

CONSTANTS
  Providers,     \* provider objects that openProvider may make
  SessionTypes,  \* the session types considered
  Configs,       \* Configs[tag]: the configurations of that tag the stacks try
  MqMayFail      \* making or mapping a message queue may fail

ASSUME ProvidersAssumption ==
  /\ SessionTypes \subseteq (HidlSessionTypes \cup LeBroadcast)
  /\ MqMayFail \in BOOLEAN

VARIABLES
  type,      \* the session type
  opened,    \* providers that were opened
  hosting,   \* hosting[p]: tag of the audio_config_ of p while it has a stack_iface_
  session,   \* stack_iface_, data_mq_ (its size in bytes), audio_config_, latency
  informed   \* the ports have been called back since the session last changed

vars == <<type, opened, hosting, session, informed>>

NoTag     == "no configuration"
NoConfig  == [tag |-> NoTag]
NoStack   == "no stack"
Software  == A2dpSoftware \cup HearingAid \cup LeSoftware
Offload   == A2dpOffload \cup LeUnicast \cup LeBroadcast
Modes     == {"FREE", "LOW_LATENCY"}

Init ==
  /\ type \in SessionTypes
  /\ opened = {}
  /\ hosting = [p \in Providers |-> NoTag]
  /\ session = [stack |-> NoStack, mq |-> 0, config |-> NoConfig,
                modes |-> {}, lowLatency |-> TRUE]
  /\ informed = TRUE

IsSessionReady(s) == /\ s.stack # NoStack /\ s.config # NoConfig
                     /\ type \in Offload \/ s.mq > 0
-----------------------------------------------------------------------------
(* The provider of each session type: the tag it takes, what it accepts,    *)
(* and the size of its message queue.                                       *)

Tag(t) == CASE t \in A2dpOffload -> "a2dp"
            [] t \in LeUnicast \cup LeBroadcast -> "leAudio"
            [] OTHER -> "pcm"

A2dpMqSize       == 4 * 96 * 10 * 2    \* kDataMqSize of A2dpSoftwareAudioProvider
HearingAidMqSize == 4 * 128 * 7 * 1    \* kDataMqSize of HearingAidAudioProvider

Channels(mode) == CASE mode = "MONO" -> 1 [] mode = "STEREO" -> 2 [] OTHER -> 0
BytesPerSample(bits) == IF bits = 24 THEN 4 ELSE bits \div 8
kBufferCount_One == 1
kBufferCount == 2   \* kBufferOutCount and kBufferInCount
LeMqSize(c) ==
  (c.sampleRate * Channels(c.channelMode) * BytesPerSample(c.bitsPerSample)
     * (c.dataIntervalUs \div 1000) * kBufferCount) \div 1000

MqSize(t, c) == CASE t \in A2dpSoftware -> A2dpMqSize
                  [] t \in HearingAid -> HearingAidMqSize
                  [] t \in LeSoftware -> LeMqSize(c)
                  [] OTHER -> 0

Accepts(t, c) ==
  CASE t \in A2dpOffload -> IsOffloadCodecConfigurationValid(t, c)
    [] t \in LeUnicast \cup LeBroadcast -> IsOffloadLeAudioConfigurationValid(t)
    [] OTHER -> IsSoftwarePcmConfigurationValid(c) /\ (t \in LeSoftware => LeMqSize(c) > 0)
-----------------------------------------------------------------------------
(* openProvider: an A2DP or hearing aid provider whose queue could not be   *)
(* made is not valid, and is not given out.                                 *)
openProvider(p) ==
  /\ p \notin opened
  /\ opened' = opened \cup {p}
  /\ UNCHANGED <<type, hosting, session, informed>>

(* UpdateAudioConfig: the tags a session of type t takes.                   *)
Updates(t, tag) == tag = Tag(t) /\ t \notin LeBroadcast

(* OnSessionStarted.  A queue that cannot be mapped takes the configuration *)
(* with it, and nobody is told.                                             *)
Started(s, p, c, modes, mapped) ==
  IF ~Updates(type, c.tag) THEN s
  ELSE IF ~mapped THEN [s EXCEPT !.config = NoConfig, !.mq = 0]
  ELSE [s EXCEPT !.stack = p, !.config = c, !.modes = modes, !.mq = MqSize(type, c)]

startSession(p, c, modes) ==
  /\ p \in opened
  /\ c.tag = Tag(type) /\ Accepts(type, c)
  /\ hosting' = [hosting EXCEPT ![p] = c.tag]
  /\ \E mapped \in IF MqMayFail /\ type \in Software THEN BOOLEAN ELSE {TRUE} :
       /\ session' = Started(session, p, c, modes, mapped)
       /\ informed' = IF Updates(type, c.tag) /\ mapped THEN TRUE
                      ELSE informed /\ session' = session
  /\ UNCHANGED <<type, opened>>

(* endSession, from the stack or when it died (binderDiedCallbackAidl): the *)
(* session ends whoever started it; low_latency_allowed_ stays as it is.    *)
Ended_KeepStack(s) == [s EXCEPT !.config = NoConfig, !.mq = 0]
Ended(s) == [s EXCEPT !.stack = NoStack, !.config = NoConfig, !.mq = 0]

endSession(p) ==
  /\ hosting[p] # NoTag
  /\ hosting' = [hosting EXCEPT ![p] = NoTag]
  /\ session' = Ended(session)
  /\ informed' = (IsSessionReady(session) \/ informed)
  /\ UNCHANGED <<type, opened>>

(* updateAudioConfiguration: the provider only looks at the tag, and the    *)
(* session takes changes of LE audio hardware sessions alone, ready or not. *)
Updatable_All(t) == TRUE
Updatable(t) == t \in LeUnicast

updateAudioConfiguration(p, c) ==
  /\ hosting[p] = c.tag
  /\ session' = IF Updatable(type) THEN [session EXCEPT !.config = c] ELSE session
  /\ informed' = (Updatable(type) \/ informed)
  /\ UNCHANGED <<type, opened, hosting>>

setLowLatencyModeAllowed(p, allowed) ==
  /\ hosting[p] # NoTag
  /\ session' = [session EXCEPT !.lowLatency = allowed]
  /\ UNCHANGED <<type, opened, hosting, informed>>

AllConfigs == UNION {Configs[tag] : tag \in DOMAIN Configs}

(* Every configuration has a tag, and the data interval of a PCM one is not *)
(* negative (converting a negative size to uint32_t is undefined).          *)
ASSUME ConfigsAssumption ==
  \A c \in AllConfigs : c.tag # NoTag /\ (c.tag = "pcm" => c.dataIntervalUs \in Nat)

Next ==
  \E p \in Providers :
    \/ openProvider(p)
    \/ \E c \in AllConfigs, modes \in {{"FREE"}, Modes} : startSession(p, c, modes)
    \/ endSession(p)
    \/ \E c \in AllConfigs : updateAudioConfiguration(p, c)
    \/ \E allowed \in BOOLEAN : setLowLatencyModeAllowed(p, allowed)

Spec == Init /\ [][Next]_vars
-----------------------------------------------------------------------------
(* What the audio HAL sees.                                                 *)

GetSupportedLatencyModes(s) ==
  IF ~IsSessionReady(s) THEN {}
  ELSE IF s.lowLatency THEN s.modes ELSE s.modes \ {"LOW_LATENCY"}
-----------------------------------------------------------------------------
TypeOK ==
  /\ type \in SessionTypes /\ opened \subseteq Providers
  /\ hosting \in [Providers -> {NoTag, Tag(type)}]
  /\ \A p \in Providers : hosting[p] # NoTag => p \in opened
  /\ session.stack \in opened \cup {NoStack} /\ session.mq \in Nat
  /\ session.config \in AllConfigs \cup {NoConfig}
  /\ session.modes \subseteq Modes /\ session.lowLatency \in BOOLEAN
  /\ session.config = NoConfig => session.mq = 0   \* no queue outlives its session
  /\ informed \in BOOLEAN

(* While a session is ready, the last callback of every port came after the *)
(* last change of its configuration, so that a port that reloads it then    *)
(* has the current one; and a session that is ready, or offers a latency    *)
(* mode, belongs to a provider that still hosts it.  Both whichever         *)
(* provider starts, restarts, updates or ends it, when a queue cannot be    *)
(* mapped, and when nothing of an ended session may come back               *)
(* (OnSessionStarted, OnSessionEnded, ReportAudioConfigChanged).            *)
PortsInformed == IsSessionReady(session) => informed

SessionHasHost ==
  IsSessionReady(session) \/ GetSupportedLatencyModes(session) # {} =>
    hosting[session.stack] # NoTag

SessionSound == TypeOK /\ PortsInformed /\ SessionHasHost

(* A session never has a configuration its providers would have refused in  *)
(* startSession, although updateAudioConfiguration validates nothing.       *)
ConfigAccepted ==
  session.config # NoConfig => /\ session.config.tag = Tag(type)
                               /\ Accepts(type, session.config)

(* The two generations of tables agree: what an AIDL session runs with, the *)
(* HIDL library takes in its converted form - except the 32 kHz it does not *)
(* know, the codecs it does not know and a bit rate out of its range - and  *)
(* a port opened through it carries the same stream as an AIDL one, except  *)
(* that it takes 24 bits for packed in every session.                       *)
LegacyAccepts ==
  LET c == session.config IN
  /\ c.tag = "pcm" =>
       ((IF type \in LeSoftware THEN HidlPcmValid_2_1(to_hidl_pcm_config(c))
                                ELSE HidlPcmValid(to_hidl_pcm_config(c)))
          <=> c.sampleRate # 32000)
  /\ c.tag = "a2dp" /\ type = "A2DP_HARDWARE_OFFLOAD_ENCODING" =>
       (HidlCodecValid(type, to_hidl_codec_config(c)) <=>
          c.codecType # "OPUS" /\ c.encodedAudioBitrate \in HidlBitrates)

SameStream ==
  LET c == session.config IN
  c.tag = "pcm" /\ (c.bitsPerSample = 24 => type \in AidlPackedTypes) =>
    HidlLoad(to_hidl_pcm_config(c)) = AidlLoad(c, type)

LegacyAgrees == LegacyAccepts /\ SameStream

(* The queue of an LE audio software session holds the audio of a data      *)
(* interval in the format the port opened, whatever the rounding of its     *)
(* size (startSession of LeAudioSoftwareAudioProvider).                     *)
FormatBytes == [PCM_16_BIT |-> 2, PCM_24_BIT_PACKED |-> 3, PCM_8_24_BIT |-> 4, PCM_32_BIT |-> 4]
IntervalFits ==
  LET c == session.config IN
  IsSessionReady(session) /\ type \in LeSoftware =>
    session.mq * 10000 >= c.sampleRate * Channels(c.channelMode)
      * FormatBytes[AidlLoad(c, type).format] * (c.dataIntervalUs \div 100)
=============================================================================
