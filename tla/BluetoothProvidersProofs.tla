---------------------- MODULE BluetoothProvidersProofs ----------------------
(***************************************************************************)
(* Proofs about BluetoothProviders, for any providers, any session types    *)
(* and any configurations: what a session runs with was accepted, it is     *)
(* never ready without a host or without the ports knowing, the HIDL tables *)
(* agree with the AIDL ones on it, and its queue holds a data interval.     *)
(***************************************************************************)
EXTENDS BluetoothProviders, FiniteSetTheorems, TLAPS

SessionType ==
  [stack : Providers \cup {NoStack}, mq : Nat, config : AllConfigs \cup {NoConfig},
   modes : SUBSET Modes, lowLatency : BOOLEAN]

(* TypeOK in the form the provers read off: the session is one record.      *)
Typed ==
  /\ type \in SessionTypes /\ opened \subseteq Providers
  /\ hosting \in [Providers -> {NoTag, Tag(type)}]
  /\ \A p \in Providers : hosting[p] # NoTag => p \in opened
  /\ session \in SessionType
  /\ session.stack \in opened \cup {NoStack}
  /\ session.config = NoConfig => session.mq = 0
  /\ informed \in BOOLEAN

(* The provider whose stack a session calls still hosts that stack, even    *)
(* while the session is not ready; PortsInformed and SessionHasHost follow  *)
(* only with it.                                                            *)
StackHosted == session.stack # NoStack => hosting[session.stack] # NoTag

Inv == Typed /\ StackHosted /\ PortsInformed /\ ConfigAccepted

-----------------------------------------------------------------------------
(* The tables of the two generations.                                       *)

LEMMA OneBit == ASSUME NEW field, NEW v \in field PROVE IsSingleBit({v}, field)
<1>1. {v} \cap field = {v}
  OBVIOUS
<1>2. Cardinality({v}) = 1
  BY FS_Singleton
<1> QED
  BY <1>1, <1>2 DEF IsSingleBit

LEMMA PcmValues ==
  ASSUME NEW c, IsSoftwarePcmConfigurationValid(c)
  PROVE  /\ c.sampleRate \in {16000, 24000, 32000, 44100, 48000, 88200, 96000}
         /\ c.channelMode \in {"MONO", "STEREO"}
         /\ c.bitsPerSample \in {16, 24, 32}
BY DEF IsSoftwarePcmConfigurationValid, Within, SoftwarePcm

LEMMA PcmMasks ==
  ASSUME NEW c, IsSoftwarePcmConfigurationValid(c)
  PROVE  /\ to_hidl_pcm_config(c).sampleRate = {c.sampleRate}
         /\ to_hidl_pcm_config(c).channelMode = {c.channelMode}
         /\ to_hidl_pcm_config(c).bitsPerSample = {c.bitsPerSample}
         /\ to_hidl_pcm_config(c).dataIntervalUs = c.dataIntervalUs
<1>1. to_hidl_sample_rate(c.sampleRate) = {c.sampleRate}
  BY PcmValues DEF to_hidl_sample_rate, Mapped
<1>2. to_hidl_channel_mode(c.channelMode) = {c.channelMode}
  BY PcmValues DEF to_hidl_channel_mode, Mapped
<1>3. to_hidl_bits_per_sample(c.bitsPerSample) = {c.bitsPerSample}
  BY PcmValues DEF to_hidl_bits_per_sample, Mapped
<1> QED
  BY <1>1, <1>2, <1>3 DEF to_hidl_pcm_config

LEMMA PcmAgrees ==
  ASSUME NEW c, IsSoftwarePcmConfigurationValid(c)
  PROVE  HidlPcmValid(to_hidl_pcm_config(c)) <=> c.sampleRate # 32000
<1> DEFINE h == to_hidl_pcm_config(c)
<1>1. h.sampleRate = {c.sampleRate} /\ h.channelMode = {c.channelMode}
      /\ h.bitsPerSample = {c.bitsPerSample}
  BY PcmMasks
<1> HIDE DEF h
<1>2. HidlPcmValid(h) <=> /\ c.sampleRate \in HidlSoftwarePcm.sampleRate
                          /\ c.channelMode \in HidlSoftwarePcm.channelMode
                          /\ c.bitsPerSample \in HidlSoftwarePcm.bitsPerSample
  BY <1>1 DEF HidlPcmValid
<1> QED
  BY <1>2, PcmValues DEF h, HidlSoftwarePcm

LEMMA PcmStreams ==
  ASSUME NEW c, NEW t, IsSoftwarePcmConfigurationValid(c),
         c.bitsPerSample = 24 => t \in AidlPackedTypes
  PROVE  HidlLoad(to_hidl_pcm_config(c)) = AidlLoad(c, t)
<1> DEFINE h == to_hidl_pcm_config(c)
<1>1. h.sampleRate = {c.sampleRate} /\ h.channelMode = {c.channelMode}
      /\ h.bitsPerSample = {c.bitsPerSample}
  BY PcmMasks
<1> HIDE DEF h
<1>2. HidlRate(h.sampleRate) = c.sampleRate
  <2>1. c.sampleRate \in HidlRates \cup {8000, 32000}
    BY PcmValues DEF HidlRates
  <2> QED
    BY <1>1, <2>1 DEF HidlRate
<1>3. (IF h.channelMode = {"MONO"} THEN "MONO" ELSE "STEREO") = c.channelMode
  BY <1>1, PcmValues
<1>4. HidlFormat(h.bitsPerSample) = AidlFormat(c.bitsPerSample, t)
  <2>1. {16} # {24} /\ {16} # {32} /\ {24} # {32}
    OBVIOUS
  <2>2. CASE c.bitsPerSample = 16
    BY <1>1, <2>1, <2>2 DEF HidlFormat, AidlFormat
  <2>3. CASE c.bitsPerSample = 24
    BY <1>1, <2>1, <2>3 DEF HidlFormat, AidlFormat
  <2>4. CASE c.bitsPerSample = 32
    BY <1>1, <2>1, <2>4 DEF HidlFormat, AidlFormat
  <2> QED
    BY <2>2, <2>3, <2>4, PcmValues
<1> QED
  BY <1>2, <1>3, <1>4 DEF HidlLoad, AidlLoad, h

(* What an AIDL codec table accepts, the HIDL table accepts converted.      *)
LEMMA SbcAgrees ==
  ASSUME NEW c, IsOffloadSbcConfigurationValid(c) PROVE HidlSbcValid(to_hidl_sbc_config(c))
<1> DEFINE h == to_hidl_sbc_config(c)
<1>1. /\ c.sampleRate = 44100 /\ c.channelMode \in {"MONO", "JOINT_STEREO"}
      /\ c.blockLength \in {4, 8, 12, 16} /\ c.numSubbands = 8
      /\ c.allocMethod = "ALLOC_MD_L" /\ c.bitsPerSample = 16
      /\ MinBitpool <= c.minBitpool /\ c.minBitpool <= c.maxBitpool
      /\ c.maxBitpool <= MaxBitpool
  BY DEF IsOffloadSbcConfigurationValid, Within, OffloadSbc
<1>2. /\ h.specific = "sbc" /\ h.minBitpool = c.minBitpool /\ h.maxBitpool = c.maxBitpool
      /\ h.sampleRate = {c.sampleRate} /\ h.channelMode = {c.channelMode}
      /\ h.blockLength = {c.blockLength} /\ h.numSubbands = {c.numSubbands}
      /\ h.allocMethod = {c.allocMethod} /\ h.bitsPerSample = {c.bitsPerSample}
  BY <1>1 DEF to_hidl_sbc_config, to_hidl_sample_rate, to_hidl_bits_per_sample, Mapped
<1> HIDE DEF h
<1> DEFINE fields ==
  [sampleRate |-> HidlRates, channelMode |-> {"JOINT_STEREO", "STEREO", "DUAL", "MONO"},
   blockLength |-> {4, 8, 12, 16}, numSubbands |-> {4, 8},
   allocMethod |-> {"ALLOC_MD_S", "ALLOC_MD_L"}, bitsPerSample |-> {16, 24, 32}]
<1>3. Chosen(h, fields)
  BY <1>1, <1>2, OneBit DEF Chosen, HidlRates
<1>4. Supported(h, HidlOffloadSbc)
  BY <1>1, <1>2 DEF Supported, HidlOffloadSbc
<1> QED
  BY <1>1, <1>2, <1>3, <1>4 DEF HidlSbcValid, h

LEMMA PcmFieldsChosen ==
  ASSUME NEW h, NEW r \in HidlRates, NEW m \in {"MONO", "STEREO"}, NEW b \in {16, 24, 32},
         h.sampleRate = {r}, h.channelMode = {m}, h.bitsPerSample = {b}
  PROVE  Chosen(h, PcmFields)
BY OneBit DEF Chosen, PcmFields

LEMMA AacAgrees ==
  ASSUME NEW c, IsOffloadAacConfigurationValid(c) PROVE HidlAacValid(to_hidl_aac_config(c))
<1> DEFINE h == to_hidl_aac_config(c)
<1>1. /\ c.sampleRate = 44100 /\ c.channelMode = "STEREO" /\ c.bitsPerSample = 16
      /\ c.objectType = "MPEG2_LC"
  BY DEF IsOffloadAacConfigurationValid, Within, OffloadAac
<1>2. /\ h.specific = "aac" /\ h.sampleRate = {44100} /\ h.channelMode = {"STEREO"}
      /\ h.bitsPerSample = {16} /\ h.objectType = {"MPEG2_LC"}
  BY <1>1 DEF to_hidl_aac_config, to_hidl_sample_rate, to_hidl_bits_per_sample,
     to_hidl_channel_mode, Mapped
<1> HIDE DEF h
<1>3. Chosen(h, PcmFields)
  BY <1>2, PcmFieldsChosen DEF HidlRates
<1>4. IsSingleBit(h.objectType, {"MPEG2_LC", "MPEG4_LC", "MPEG4_LTP", "MPEG4_SCALABLE"})
  BY <1>2, OneBit
<1>5. Supported(h, HidlOffloadAac)
  BY <1>2 DEF Supported, HidlOffloadAac
<1> QED
  BY <1>2, <1>3, <1>4, <1>5 DEF HidlAacValid, h

LEMMA LdacAgrees ==
  ASSUME NEW c, IsOffloadLdacConfigurationValid(c) PROVE HidlLdacValid(to_hidl_ldac_config(c))
<1> DEFINE h == to_hidl_ldac_config(c)
<1>1. /\ c.sampleRate \in {44100, 48000, 88200, 96000} /\ c.channelMode \in {"DUAL", "STEREO"}
      /\ c.bitsPerSample \in {16, 24, 32} /\ c.qualityIndex = "HIGH"
  BY DEF IsOffloadLdacConfigurationValid, Within, OffloadLdac
<1>2. /\ h.specific = "ldac" /\ h.sampleRate = {c.sampleRate} /\ h.channelMode = {c.channelMode}
      /\ h.bitsPerSample = {c.bitsPerSample} /\ h.qualityIndex = {"HIGH"}
  BY <1>1 DEF to_hidl_ldac_config, to_hidl_sample_rate, to_hidl_bits_per_sample, Mapped
<1> HIDE DEF h
<1>3. Chosen(h, [PcmFields EXCEPT !.channelMode = {"STEREO", "DUAL", "MONO"}])
  BY <1>1, <1>2, OneBit DEF Chosen, PcmFields, HidlRates
<1>4. Supported(h, HidlOffloadLdac)
  BY <1>1, <1>2 DEF Supported, HidlOffloadLdac
<1> QED
  BY <1>2, <1>3, <1>4 DEF HidlLdacValid, Unset, h

LEMMA AptxAgrees ==
  ASSUME NEW c
  PROVE  /\ IsOffloadAptxConfigurationValid(c)   => HidlAptxValid(to_hidl_aptx_config(c))
         /\ IsOffloadAptxHdConfigurationValid(c) => HidlAptxHdValid(to_hidl_aptx_config(c))
<1> DEFINE h == to_hidl_aptx_config(c)
<1>1. /\ IsOffloadAptxConfigurationValid(c)   => c.bitsPerSample = 16
      /\ IsOffloadAptxHdConfigurationValid(c) => c.bitsPerSample = 24
      /\ IsOffloadAptxConfigurationValid(c) \/ IsOffloadAptxHdConfigurationValid(c) =>
           c.sampleRate \in {44100, 48000} /\ c.channelMode = "STEREO"
  BY DEF IsOffloadAptxConfigurationValid, IsOffloadAptxHdConfigurationValid, Within,
     OffloadAptx, OffloadAptxHd
<1> SUFFICES ASSUME NEW b \in {16, 24}, c.bitsPerSample = b,
                    c.sampleRate \in {44100, 48000}, c.channelMode = "STEREO"
             PROVE  /\ b = 16 => HidlAptxValid(h)
                    /\ b = 24 => HidlAptxHdValid(h)
  BY <1>1
<1>2. /\ h.specific = "aptx" /\ h.sampleRate = {c.sampleRate} /\ h.channelMode = {"STEREO"}
      /\ h.bitsPerSample = {b}
  BY DEF to_hidl_aptx_config, to_hidl_sample_rate, to_hidl_bits_per_sample,
     to_hidl_channel_mode, Mapped
<1> HIDE DEF h
<1>3. Chosen(h, PcmFields)
  BY <1>2, PcmFieldsChosen DEF HidlRates
<1>4. /\ b = 16 => Supported(h, HidlOffloadAptx)
      /\ b = 24 => Supported(h, HidlOffloadAptxHd)
  BY <1>2 DEF Supported, HidlOffloadAptx, HidlOffloadAptxHd
<1> QED
  BY <1>2, <1>3, <1>4 DEF HidlAptxValid, HidlAptxHdValid

LEMMA CodecAgrees ==
  ASSUME NEW t, NEW c, t = "A2DP_HARDWARE_OFFLOAD_ENCODING",
         IsOffloadCodecConfigurationValid(t, c)
  PROVE  HidlCodecValid(t, to_hidl_codec_config(c)) <=>
           c.codecType # "OPUS" /\ c.encodedAudioBitrate \in HidlBitrates
<1> DEFINE h == to_hidl_codec_config(c)
<1>1. h.codecType = to_hidl_codec_type(c.codecType)
      /\ h.encodedAudioBitrate = c.encodedAudioBitrate
  BY DEF to_hidl_codec_config
<1>2. /\ c.specific = "sbc"  => h.config = to_hidl_sbc_config(c)
      /\ c.specific = "aac"  => h.config = to_hidl_aac_config(c)
      /\ c.specific = "ldac" => h.config = to_hidl_ldac_config(c)
      /\ c.specific = "aptx" => h.config = to_hidl_aptx_config(c)
  BY DEF to_hidl_codec_config
<1> HIDE DEF h
<1>3. HidlCodecValid(t, h) <=>
        /\ c.encodedAudioBitrate \in HidlBitrates
        /\ \/ h.codecType = "SBC"     /\ HidlSbcValid(h.config)
           \/ h.codecType = "AAC"     /\ HidlAacValid(h.config)
           \/ h.codecType = "LDAC"    /\ HidlLdacValid(h.config)
           \/ h.codecType = "APTX"    /\ HidlAptxValid(h.config)
           \/ h.codecType = "APTX_HD" /\ HidlAptxHdValid(h.config)
  BY <1>1 DEF HidlCodecValid
<1>4. CASE c.codecType = "SBC" /\ IsOffloadSbcConfigurationValid(c)
  <2>1. h.codecType = "SBC" /\ c.specific = "sbc"
    BY <1>1, <1>4 DEF to_hidl_codec_type, IsOffloadSbcConfigurationValid
  <2> QED
    BY <1>2, <1>3, <1>4, <2>1, SbcAgrees DEF h
<1>5. CASE c.codecType = "AAC" /\ IsOffloadAacConfigurationValid(c)
  <2>1. h.codecType = "AAC" /\ c.specific = "aac"
    BY <1>1, <1>5 DEF to_hidl_codec_type, IsOffloadAacConfigurationValid
  <2> QED
    BY <1>2, <1>3, <1>5, <2>1, AacAgrees DEF h
<1>6. CASE c.codecType = "LDAC" /\ IsOffloadLdacConfigurationValid(c)
  <2>1. h.codecType = "LDAC" /\ c.specific = "ldac"
    BY <1>1, <1>6 DEF to_hidl_codec_type, IsOffloadLdacConfigurationValid
  <2> QED
    BY <1>2, <1>3, <1>6, <2>1, LdacAgrees DEF h
<1>7. CASE c.codecType = "APTX" /\ IsOffloadAptxConfigurationValid(c)
  <2>1. h.codecType = "APTX" /\ c.specific = "aptx"
    BY <1>1, <1>7 DEF to_hidl_codec_type, IsOffloadAptxConfigurationValid
  <2> QED
    BY <1>2, <1>3, <1>7, <2>1, AptxAgrees DEF h
<1>8. CASE c.codecType = "APTX_HD" /\ IsOffloadAptxHdConfigurationValid(c)
  <2>1. h.codecType = "APTX_HD" /\ c.specific = "aptx"
    BY <1>1, <1>8 DEF to_hidl_codec_type, IsOffloadAptxHdConfigurationValid
  <2> QED
    BY <1>2, <1>3, <1>8, <2>1, AptxAgrees DEF h
<1>9. CASE c.codecType = "OPUS"
  <2>1. h.codecType = "UNKNOWN"
    BY <1>1, <1>9 DEF to_hidl_codec_type
  <2> QED
    BY <1>3, <1>9, <2>1 DEF h
<1> QED
  BY <1>4, <1>5, <1>6, <1>7, <1>8, <1>9 DEF IsOffloadCodecConfigurationValid

-----------------------------------------------------------------------------
(* The queue of an LE audio software session.                               *)

LEMMA FrameBytes ==
  ASSUME NEW c, IsSoftwarePcmConfigurationValid(c)
  PROVE  /\ Channels(c.channelMode) \in {1, 2}
         /\ BytesPerSample(c.bitsPerSample) \in {2, 4}
         /\ c.sampleRate * Channels(c.channelMode) * BytesPerSample(c.bitsPerSample) \in Nat
         /\ c.sampleRate * Channels(c.channelMode) * BytesPerSample(c.bitsPerSample) >= 10000
<1>1. Channels(c.channelMode) \in {1, 2}
  BY PcmValues DEF Channels
<1>2. BytesPerSample(c.bitsPerSample) \in {2, 4}
  BY PcmValues DEF BytesPerSample
<1>3. \A r \in {16000, 24000, 32000, 44100, 48000, 88200, 96000}, n \in {1, 2}, b \in {2, 4} :
        r * n * b \in Nat /\ r * n * b >= 10000
  OBVIOUS
<1> QED
  BY <1>1, <1>2, <1>3, PcmValues

(* Rounding an interval down to milliseconds and the size down to bytes     *)
(* costs less than the second buffer of the queue gives.                    *)
LEMMA Rounding ==
  ASSUME NEW p \in Nat, p >= 10000, NEW us \in Nat,
         (p * (us \div 1000) * 2) \div 1000 > 0
  PROVE  ((p * (us \div 1000) * 2) \div 1000) * 10000 >= p * (us \div 100)
<1> DEFINE k == us \div 1000
           d == us \div 100
           x == p * k
<1>1. k \in Nat /\ d \in Nat /\ d <= 10 * k + 9
  OBVIOUS
<1> HIDE DEF k, d
<1>2. x \in Nat
  BY <1>1
<1>3. k >= 1
  <2>1. CASE k = 0
    <3>1. x * 2 = 0
      BY <2>1
    <3> QED
      BY <3>1 DEF k
  <2> QED
    BY <1>1, <2>1
<1>4. x >= p
  BY <1>1, <1>3
<1>5. p * d <= 10 * x + 9 * p
  <2>1. p * d <= p * (10 * k + 9)
    BY <1>1
  <2>2. p * (10 * k + 9) = 10 * (p * k) + 9 * p
    BY <1>1
  <2> QED
    BY <2>1, <2>2
<1> HIDE DEF x
<1>6. p * d \in Nat
  BY <1>1
<1>7. ((x * 2) \div 1000) * 10000 >= 10 * x + 9 * p
  BY <1>2, <1>4
<1>8. ((x * 2) \div 1000) * 10000 >= p * d
  <2> DEFINE y == p * d
             q == (x * 2) \div 1000
  <2>1. q * 10000 \in Int
    BY <1>2
  <2> HIDE DEF y, q
  <2>2. y <= 10 * x + 9 * p /\ y \in Nat /\ q * 10000 >= 10 * x + 9 * p
    BY <1>5, <1>6, <1>7 DEF y, q
  <2>3. q * 10000 >= y
    BY <1>2, <2>1, <2>2
  <2> QED
    BY <2>3 DEF y, q
<1> QED
  BY <1>8 DEF x, k, d

LEMMA QueueSize ==
  ASSUME NEW t, NEW c, Accepts(t, c), c.tag = "pcm" => c.dataIntervalUs \in Nat, c.tag = Tag(t)
  PROVE  MqSize(t, c) \in Nat
<1>1. CASE t \in LeSoftware
  <2>1. IsSoftwarePcmConfigurationValid(c) /\ c.tag = "pcm"
    BY <1>1 DEF Accepts, Tag, LeSoftware, A2dpOffload, LeUnicast, LeBroadcast
  <2> DEFINE p == c.sampleRate * Channels(c.channelMode) * BytesPerSample(c.bitsPerSample)
             k == c.dataIntervalUs \div 1000
  <2>2. p \in Nat /\ k \in Nat /\ LeMqSize(c) = (p * k * 2) \div 1000
    BY <2>1, FrameBytes DEF LeMqSize, kBufferCount
  <2> HIDE DEF p, k
  <2>3. p * k \in Nat
    BY <2>2
  <2>4. LeMqSize(c) \in Nat
    BY <2>2, <2>3
  <2> QED
    BY <1>1, <2>4 DEF MqSize, LeSoftware, A2dpSoftware, HearingAid
<1>2. CASE t \notin LeSoftware
  BY <1>2 DEF MqSize, A2dpMqSize, HearingAidMqSize
<1> QED
  BY <1>1, <1>2

(* In an LE session 24 bits are carried in 32, what the queue counts.       *)
LEMMA FormatSize ==
  ASSUME NEW c, NEW t \in LeSoftware, IsSoftwarePcmConfigurationValid(c)
  PROVE  FormatBytes[AidlLoad(c, t).format] = BytesPerSample(c.bitsPerSample)
<1>1. AidlLoad(c, t).format = AidlFormat(c.bitsPerSample, t) /\ t \notin AidlPackedTypes
  BY DEF AidlLoad, AidlPackedTypes, LeSoftware
<1>2. CASE c.bitsPerSample = 16
  BY <1>1, <1>2 DEF AidlFormat, FormatBytes, BytesPerSample
<1>3. CASE c.bitsPerSample = 24
  BY <1>1, <1>3 DEF AidlFormat, FormatBytes, BytesPerSample
<1>4. CASE c.bitsPerSample = 32
  BY <1>1, <1>4 DEF AidlFormat, FormatBytes, BytesPerSample
<1> QED
  BY <1>2, <1>3, <1>4, PcmValues

-----------------------------------------------------------------------------
LEMMA TagKnown == \A t : Tag(t) # NoTag
  BY DEF Tag, NoTag

LEMMA TypedTypeOK == Typed => TypeOK
  BY DEF Typed, TypeOK, SessionType

LEMMA InitInv == Init => Inv
  BY DEF Init, Inv, Typed, StackHosted, PortsInformed, ConfigAccepted, SessionType,
     NoConfig, Modes

(* openProvider.                                                            *)
LEMMA OpenStep ==
  ASSUME Inv, NEW p \in Providers, openProvider(p)
  PROVE  Inv'
<1>1. Typed'
  BY DEF Inv, Typed, openProvider, SessionType
<1> QED
  BY <1>1 DEF Inv, openProvider, StackHosted, PortsInformed, ConfigAccepted, IsSessionReady

(* startSession: the one operation that validates.                          *)
LEMMA StartStep ==
  ASSUME Inv, NEW p \in Providers, NEW c \in AllConfigs,
         NEW modes \in {{"FREE"}, Modes}, startSession(p, c, modes)
  PROVE  Inv'
<1>1. c.tag = Tag(type) /\ Accepts(type, c) /\ c # NoConfig /\ p \in opened
  BY TagKnown DEF startSession, NoConfig
<1>2. PICK mapped \in BOOLEAN :
        /\ session' = Started(session, p, c, modes, mapped)
        /\ informed' = IF Updates(type, c.tag) /\ mapped THEN TRUE
                       ELSE informed /\ session' = session
  BY DEF startSession
<1>3. type' = type /\ opened' = opened /\ hosting' = [hosting EXCEPT ![p] = Tag(type)]
  BY <1>1 DEF startSession
<1>4. hosting'[p] # NoTag /\ \A q \in Providers : hosting[q] # NoTag => hosting'[q] # NoTag
  BY <1>3, TagKnown DEF Inv, Typed
<1>5. MqSize(type, c) \in Nat /\ modes \in SUBSET Modes
  BY <1>1, ConfigsAssumption, QueueSize DEF Modes
<1>6. CASE ~Updates(type, c.tag)
  <2>1. session' = session /\ informed' = informed
    BY <1>2, <1>6 DEF Started, Inv, Typed
  <2>2. Typed'
    BY <1>1, <1>3, <1>4, <2>1 DEF Inv, Typed, SessionType
  <2> QED
    BY <1>3, <1>4, <2>1, <2>2 DEF Inv, Typed, SessionType, StackHosted, PortsInformed,
       ConfigAccepted, IsSessionReady
<1>7. CASE Updates(type, c.tag) /\ ~mapped
  <2>1. session' = [session EXCEPT !.config = NoConfig, !.mq = 0]
    BY <1>2, <1>7 DEF Started
  <2>2. session' \in SessionType /\ session'.config = NoConfig /\ session'.mq = 0
        /\ session'.stack = session.stack
    BY <2>1 DEF Inv, Typed, SessionType
  <2>3. informed' \in BOOLEAN
    BY <1>2, <1>7 DEF Inv, Typed
  <2>4. Typed'
    BY <1>1, <1>3, <1>4, <2>2, <2>3 DEF Inv, Typed
  <2> QED
    BY <1>3, <1>4, <2>2, <2>4 DEF Inv, Typed, SessionType, StackHosted, PortsInformed,
       ConfigAccepted, IsSessionReady
<1>8. CASE Updates(type, c.tag) /\ mapped
  <2>1. session' = [session EXCEPT !.stack = p, !.config = c, !.modes = modes,
                                   !.mq = MqSize(type, c)]
    BY <1>2, <1>8 DEF Started
  <2>2. session' \in SessionType /\ session'.config = c /\ session'.stack = p
    BY <1>5, <2>1 DEF Inv, Typed, SessionType
  <2>3. informed' = TRUE
    BY <1>2, <1>8
  <2>4. Typed'
    BY <1>1, <1>3, <1>4, <2>2, <2>3 DEF Inv, Typed
  <2> QED
    BY <1>1, <1>3, <1>4, <2>2, <2>3, <2>4 DEF Inv, StackHosted, PortsInformed, ConfigAccepted
<1> QED
  BY <1>6, <1>7, <1>8

(* endSession leaves nothing of the session, whoever started it.            *)
LEMMA EndStep ==
  ASSUME Inv, NEW p \in Providers, endSession(p)
  PROVE  Inv'
<1>1. /\ session' \in SessionType /\ session'.stack = NoStack
      /\ session'.config = NoConfig /\ session'.mq = 0
  BY DEF Inv, Typed, SessionType, endSession, Ended
<1>2. type' = type /\ opened' = opened /\ informed' \in BOOLEAN
  BY DEF Inv, Typed, endSession, IsSessionReady
<1>3. Typed'
  BY <1>1, <1>2 DEF Inv, Typed, endSession
<1> QED
  BY <1>1, <1>3 DEF Inv, StackHosted, PortsInformed, ConfigAccepted, IsSessionReady

(* updateAudioConfiguration validates nothing: what it stores has the tag   *)
(* of a started session, and only LE audio hardware sessions, which accept  *)
(* all of that tag, store it.                                               *)
LEMMA UpdateStep ==
  ASSUME Inv, NEW p \in Providers, NEW c \in AllConfigs, updateAudioConfiguration(p, c)
  PROVE  Inv'
<1>1. type' = type /\ opened' = opened /\ hosting' = hosting
  BY DEF updateAudioConfiguration
<1>2. CASE Updatable(type)
  <2>1. session' = [session EXCEPT !.config = c] /\ informed' = TRUE
    BY <1>2 DEF updateAudioConfiguration
  <2>2. session' \in SessionType /\ session'.config = c /\ session'.stack = session.stack
        /\ session'.mq = session.mq
    BY <2>1 DEF Inv, Typed, SessionType
  <2>3. c.tag = Tag(type) /\ c # NoConfig
    BY ConfigsAssumption DEF Inv, Typed, updateAudioConfiguration, NoConfig
  <2>4. Typed'
    BY <1>1, <2>1, <2>2, <2>3 DEF Inv, Typed
  <2>5. Accepts(type, c)
    BY <1>2 DEF Updatable, Accepts, IsOffloadLeAudioConfigurationValid, LeUnicast, A2dpOffload
  <2> QED
    BY <1>1, <2>1, <2>2, <2>3, <2>4, <2>5 DEF Inv, StackHosted, PortsInformed, ConfigAccepted
<1>3. CASE ~Updatable(type)
  <2>1. session' = session /\ informed' \in BOOLEAN /\ informed' = informed
    BY <1>3 DEF updateAudioConfiguration, Inv, Typed
  <2> QED
    BY <1>1, <2>1 DEF Inv, Typed, SessionType, StackHosted, PortsInformed, ConfigAccepted,
       IsSessionReady
<1> QED
  BY <1>2, <1>3

LEMMA LatencyStep ==
  ASSUME Inv, NEW p \in Providers, NEW allowed \in BOOLEAN,
         setLowLatencyModeAllowed(p, allowed)
  PROVE  Inv'
<1>1. /\ session' \in SessionType
      /\ session'.stack = session.stack /\ session'.mq = session.mq
      /\ session'.config = session.config
  BY DEF Inv, Typed, SessionType, setLowLatencyModeAllowed
<1>2. type' = type /\ opened' = opened /\ hosting' = hosting /\ informed' = informed
  BY DEF setLowLatencyModeAllowed
<1> QED
  BY <1>1, <1>2 DEF Inv, Typed, StackHosted, PortsInformed, ConfigAccepted, IsSessionReady

LEMMA Preserved == Inv /\ [Next]_vars => Inv'
<1> SUFFICES ASSUME Inv, [Next]_vars PROVE Inv'
  OBVIOUS
<1>1. CASE Next
  <2>1. PICK p \in Providers :
          \/ openProvider(p)
          \/ \E c \in AllConfigs, modes \in {{"FREE"}, Modes} : startSession(p, c, modes)
          \/ endSession(p)
          \/ \E c \in AllConfigs : updateAudioConfiguration(p, c)
          \/ \E allowed \in BOOLEAN : setLowLatencyModeAllowed(p, allowed)
    BY <1>1 DEF Next
  <2> QED
    BY <2>1, OpenStep, StartStep, EndStep, UpdateStep, LatencyStep
<1>2. CASE UNCHANGED vars
  BY <1>2 DEF vars, Inv, Typed, StackHosted, PortsInformed, ConfigAccepted, IsSessionReady
<1> QED
  BY <1>1, <1>2

LEMMA Invariance == Spec => []Inv
  BY InitInv, Preserved, PTL DEF Spec

(* Whatever the stacks start, update and end, in whatever order: a session  *)
(* that is ready has a configuration its providers accept                   *)
(* (BluetoothAudioSession::OnSessionStarted, ReportAudioConfigChanged).     *)
THEOREM AcceptedConfigs == Spec => []ConfigAccepted
<1>1. Inv => ConfigAccepted
  BY DEF Inv
<1> QED
  BY <1>1, Invariance, PTL

(* A session that is ready, or offers a latency mode, is hosted by the      *)
(* provider it calls, and every port knows of it                            *)
(* (BluetoothAudioSession::IsSessionReady, GetSupportedLatencyModes).       *)
THEOREM SoundSessions == Spec => []SessionSound
<1>1. Inv => SessionHasHost
  BY DEF Inv, StackHosted, SessionHasHost, GetSupportedLatencyModes, IsSessionReady
<1>2. Inv => SessionSound
  BY <1>1, TypedTypeOK DEF Inv, SessionSound
<1> QED
  BY <1>2, Invariance, PTL

-----------------------------------------------------------------------------
(* A session has the queue its own configuration asked for: the one an      *)
(* update does not touch, since only sessions without a queue are updated.  *)
QueueSized == session.config # NoConfig => session.mq = MqSize(type, session.config)

LEMMA QueueSizedStep == Inv /\ QueueSized /\ [Next]_vars => QueueSized'
<1> SUFFICES ASSUME Inv, QueueSized, [Next]_vars PROVE QueueSized'
  OBVIOUS
<1>1. session \in SessionType
  BY DEF Inv, Typed
<1>2. CASE UNCHANGED <<type, session>>
  BY <1>2 DEF QueueSized
<1>3. ASSUME NEW p \in Providers, NEW c \in AllConfigs, NEW modes, startSession(p, c, modes)
      PROVE  QueueSized'
  <2>1. PICK mapped \in BOOLEAN : session' = Started(session, p, c, modes, mapped)
    BY <1>3 DEF startSession
  <2>2. type' = type
    BY <1>3 DEF startSession
  <2>3. CASE ~Updates(type, c.tag)
    BY <1>2, <2>1, <2>2, <2>3 DEF Started
  <2>4. CASE Updates(type, c.tag) /\ ~mapped
    <3>1. session' = [session EXCEPT !.config = NoConfig, !.mq = 0]
      BY <2>1, <2>4 DEF Started
    <3>2. session'.config = NoConfig
      BY <1>1, <3>1 DEF SessionType
    <3> QED
      BY <3>2 DEF QueueSized
  <2>5. CASE Updates(type, c.tag) /\ mapped
    <3>1. session' = [session EXCEPT !.stack = p, !.config = c, !.modes = modes,
                                     !.mq = MqSize(type, c)]
      BY <2>1, <2>5 DEF Started
    <3>2. session'.config = c /\ session'.mq = MqSize(type, c)
      BY <1>1, <3>1 DEF SessionType
    <3> QED
      BY <2>2, <3>2 DEF QueueSized
  <2> QED
    BY <2>3, <2>4, <2>5
<1>4. ASSUME NEW p \in Providers, endSession(p)
      PROVE  QueueSized'
  BY <1>1, <1>4 DEF endSession, Ended, SessionType, QueueSized
<1>5. ASSUME NEW p \in Providers, NEW c \in AllConfigs, updateAudioConfiguration(p, c)
      PROVE  QueueSized'
  <2>1. type' = type
    BY <1>5 DEF updateAudioConfiguration
  <2>2. CASE type \in LeUnicast
    <3>1. \A k : MqSize(type, k) = 0
      BY <2>2 DEF MqSize, LeUnicast, LeSoftware, HearingAid, A2dpSoftware
    <3>2. session.mq = 0
      BY <3>1 DEF QueueSized, Inv, Typed
    <3>3. session' = [session EXCEPT !.config = c]
      BY <1>5, <2>2 DEF updateAudioConfiguration, Updatable
    <3>4. session'.mq = 0
      BY <1>1, <3>2, <3>3 DEF SessionType
    <3> QED
      BY <2>1, <3>1, <3>4 DEF QueueSized
  <2>3. CASE type \notin LeUnicast
    BY <1>2, <1>5, <2>1, <2>3 DEF updateAudioConfiguration, Updatable
  <2> QED
    BY <2>2, <2>3
<1>6. ASSUME NEW p \in Providers, NEW allowed \in BOOLEAN, setLowLatencyModeAllowed(p, allowed)
      PROVE  QueueSized'
  BY <1>1, <1>6 DEF setLowLatencyModeAllowed, SessionType, QueueSized
<1>7. CASE Next
  <2>1. PICK p \in Providers :
          \/ openProvider(p)
          \/ \E c \in AllConfigs, modes \in {{"FREE"}, Modes} : startSession(p, c, modes)
          \/ endSession(p)
          \/ \E c \in AllConfigs : updateAudioConfiguration(p, c)
          \/ \E allowed \in BOOLEAN : setLowLatencyModeAllowed(p, allowed)
    BY <1>7 DEF Next
  <2>2. openProvider(p) => UNCHANGED <<type, session>>
    BY DEF openProvider
  <2> QED
    BY <1>2, <1>3, <1>4, <1>5, <1>6, <2>1, <2>2
<1> QED
  BY <1>2, <1>7 DEF vars

LEMMA Sized == Spec => []QueueSized
<1>1. Init => QueueSized
  BY DEF Init, QueueSized
<1> QED
  BY <1>1, QueueSizedStep, Invariance, PTL DEF Spec

(* The configuration a session runs with, as its tag tells it.              *)
LEMMA RunsWith ==
  ASSUME Inv
  PROVE  LET c == session.config IN
         /\ c.tag = "pcm" => /\ IsSoftwarePcmConfigurationValid(c)
                             /\ c.dataIntervalUs \in Nat
                             /\ type \in LeSoftware => LeMqSize(c) > 0
         /\ c.tag = "a2dp" => IsOffloadCodecConfigurationValid(type, c)
<1> DEFINE c == session.config
<1> SUFFICES ASSUME c.tag \in {"pcm", "a2dp"}
             PROVE  /\ c.tag = "pcm" => /\ IsSoftwarePcmConfigurationValid(c)
                                        /\ c.dataIntervalUs \in Nat
                                        /\ type \in LeSoftware => LeMqSize(c) > 0
                    /\ c.tag = "a2dp" => IsOffloadCodecConfigurationValid(type, c)
  OBVIOUS
<1>1. c # NoConfig /\ c \in AllConfigs
  <2>1. NoConfig.tag \notin {"pcm", "a2dp"}
    BY DEF NoConfig, NoTag
  <2>2. c \in AllConfigs \cup {NoConfig}
    BY DEF Inv, Typed, SessionType
  <2> QED
    BY <2>1, <2>2
<1>2. c.tag = Tag(type) /\ Accepts(type, c) /\ (c.tag = "pcm" => c.dataIntervalUs \in Nat)
  BY <1>1, ConfigsAssumption DEF Inv, ConfigAccepted
<1> HIDE DEF c
<1>3. CASE c.tag = "pcm"
  BY <1>2, <1>3 DEF Tag, Accepts
<1>4. CASE c.tag = "a2dp"
  BY <1>2, <1>4 DEF Tag, Accepts
<1> QED
  BY <1>3, <1>4 DEF c

(* The two generations of tables agree on what a session runs with, and a   *)
(* port opens the same stream through either (HidlToAidlMiddleware.cpp,     *)
(* BluetoothAudioCodecs.cpp, BluetoothAudioSupportedCodecsDB.cpp).          *)
THEOREM GenerationsAgree == Spec => []LegacyAgrees
<1>1. ASSUME Inv PROVE LegacyAccepts
  <2> DEFINE c == session.config
  <2>1. CASE c.tag = "pcm"
    <3>1. IsSoftwarePcmConfigurationValid(c) /\ c.dataIntervalUs \in Nat
          /\ (type \in LeSoftware => LeMqSize(c) > 0)
      BY <1>1, <2>1, RunsWith
    <3>2. HidlPcmValid(to_hidl_pcm_config(c)) <=> c.sampleRate # 32000
      BY <3>1, PcmAgrees
    <3>3. type \in LeSoftware => c.dataIntervalUs # 0
      <4> SUFFICES ASSUME LeMqSize(c) > 0, c.dataIntervalUs = 0 PROVE FALSE
        BY <3>1
      <4> DEFINE p == c.sampleRate * Channels(c.channelMode) * BytesPerSample(c.bitsPerSample)
      <4>1. p \in Nat /\ LeMqSize(c) = (p * (0 \div 1000) * 2) \div 1000
        BY <3>1, FrameBytes DEF LeMqSize, kBufferCount
      <4> HIDE DEF p
      <4>2. p * (0 \div 1000) * 2 = 0
        BY <4>1
      <4> QED
        BY <4>1, <4>2
    <3>4. to_hidl_pcm_config(c).dataIntervalUs = c.dataIntervalUs
      BY <3>1, PcmMasks
    <3> QED
      BY <2>1, <3>2, <3>3, <3>4 DEF LegacyAccepts, HidlPcmValid_2_1
  <2>2. CASE c.tag = "a2dp"
    <3>1. IsOffloadCodecConfigurationValid(type, c)
      BY <1>1, <2>2, RunsWith
    <3> QED
      BY <2>2, <3>1, CodecAgrees DEF LegacyAccepts
  <2> QED
    BY <2>1, <2>2 DEF LegacyAccepts
<1>2. ASSUME Inv PROVE SameStream
  BY <1>2, RunsWith, PcmStreams DEF SameStream
<1>3. Inv => LegacyAgrees
  BY <1>1, <1>2 DEF LegacyAgrees
<1> QED
  BY <1>3, Invariance, PTL

(* The queue of an LE software session holds the audio of one interval      *)
(* however its size was rounded (LeAudioSoftwareAudioProvider::startSession,*)
(* channel_mode_to_channel_count).                                          *)
THEOREM IntervalsFit == Spec => []IntervalFits
<1>1. ASSUME Inv, QueueSized PROVE IntervalFits
  <2> DEFINE c == session.config
             p == c.sampleRate * Channels(c.channelMode) * BytesPerSample(c.bitsPerSample)
             us == c.dataIntervalUs
  <2> SUFFICES ASSUME IsSessionReady(session), type \in LeSoftware
               PROVE  session.mq * 10000 >= c.sampleRate * Channels(c.channelMode)
                        * FormatBytes[AidlLoad(c, type).format] * (us \div 100)
    BY DEF IntervalFits
  <2>1. c # NoConfig /\ c.tag = "pcm"
    <3>1. c # NoConfig
      BY DEF IsSessionReady
    <3>2. c.tag = Tag(type)
      BY <1>1, <3>1 DEF Inv, ConfigAccepted
    <3> QED
      BY <3>1, <3>2 DEF Tag, LeSoftware, A2dpOffload, LeUnicast, LeBroadcast
  <2>2. IsSoftwarePcmConfigurationValid(c) /\ us \in Nat /\ LeMqSize(c) > 0
    BY <1>1, <2>1, RunsWith
  <2>3. session.mq = LeMqSize(c)
    BY <1>1, <2>1 DEF QueueSized, MqSize, LeSoftware, A2dpSoftware, HearingAid
  <2>4. FormatBytes[AidlLoad(c, type).format] = BytesPerSample(c.bitsPerSample)
    BY <2>2, FormatSize
  <2>5. p \in Nat /\ p >= 10000 /\ LeMqSize(c) = (p * (us \div 1000) * 2) \div 1000
    BY <2>2, FrameBytes DEF LeMqSize, kBufferCount
  <2>6. session.mq * 10000 >= p * (us \div 100)
    <3> HIDE DEF p, us
    <3> QED
      BY <2>2, <2>3, <2>5, Rounding
  <2> QED
    BY <2>4, <2>6
<1> QED
  BY <1>1, Invariance, Sized, PTL
=============================================================================
