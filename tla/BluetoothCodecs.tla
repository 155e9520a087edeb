--------------------------- MODULE BluetoothCodecs ---------------------------
(***************************************************************************)
(* What the Bluetooth audio HAL knows of audio configurations: the tables   *)
(* of the AIDL providers (BluetoothAudioCodecs.cpp), those of the HIDL      *)
(* library (BluetoothAudioSupportedCodecsDB*.cpp), the conversion from AIDL *)
(* to HIDL (HidlToAidlMiddleware.cpp) and the formats in which the ports    *)
(* open a PCM stream (device_port_proxy.cc, device_port_proxy_hidl.cc).     *)
(*                                                                         *)
(* An AIDL configuration is a record of plain values.  In a HIDL one every  *)
(* field is a bit mask, here the set of the values its bits stand for; a    *)
(* field the conversion does not assign is Unset, the empty mask.           *)
(***************************************************************************)
EXTENDS Integers, FiniteSets

Unset == {}

A2dpSoftware  == {"A2DP_SOFTWARE_ENCODING", "A2DP_SOFTWARE_DECODING"}
A2dpOffload   == {"A2DP_HARDWARE_OFFLOAD_ENCODING", "A2DP_HARDWARE_OFFLOAD_DECODING"}
LeSoftware    == {"LE_AUDIO_SOFTWARE_ENCODING", "LE_AUDIO_SOFTWARE_DECODING",
                  "LE_AUDIO_BROADCAST_SOFTWARE_ENCODING"}
LeUnicast     == {"LE_AUDIO_HARDWARE_OFFLOAD_ENCODING", "LE_AUDIO_HARDWARE_OFFLOAD_DECODING"}
LeBroadcast   == {"LE_AUDIO_BROADCAST_HARDWARE_OFFLOAD_ENCODING"}
HearingAid    == {"HEARING_AID_SOFTWARE_ENCODING"}

(* A record c has one of the values cap lists in each field of cap.         *)
Within(c, cap) == \A f \in DOMAIN cap : c[f] \in cap[f]
-----------------------------------------------------------------------------
(* AIDL: capabilities and validity.                                         *)

SoftwarePcm ==
  [sampleRate |-> {16000, 24000, 32000, 44100, 48000, 88200, 96000},
   channelMode |-> {"MONO", "STEREO"}, bitsPerSample |-> {16, 24, 32}]
OffloadSbc ==
  [sampleRate |-> {44100}, channelMode |-> {"MONO", "JOINT_STEREO"},
   blockLength |-> {4, 8, 12, 16}, numSubbands |-> {8},
   allocMethod |-> {"ALLOC_MD_L"}, bitsPerSample |-> {16}]
MinBitpool == 2
MaxBitpool == 53
OffloadAac ==
  [objectType |-> {"MPEG2_LC"}, sampleRate |-> {44100},
   channelMode |-> {"STEREO"}, bitsPerSample |-> {16}]
OffloadLdac ==
  [sampleRate |-> {44100, 48000, 88200, 96000}, channelMode |-> {"DUAL", "STEREO"},
   qualityIndex |-> {"HIGH"}, bitsPerSample |-> {16, 24, 32}]
OffloadAptx ==
  [sampleRate |-> {44100, 48000}, channelMode |-> {"STEREO"}, bitsPerSample |-> {16}]
OffloadAptxHd ==
  [sampleRate |-> {44100, 48000}, channelMode |-> {"STEREO"}, bitsPerSample |-> {24}]
OffloadOpus ==
  [sampleRate |-> {48000}, frameDurationUs |-> {10000, 20000},
   channelMode |-> {"MONO", "STEREO"}]

IsSoftwarePcmConfigurationValid(c) == Within(c, SoftwarePcm)

IsOffloadSbcConfigurationValid(c) ==
  /\ c.specific = "sbc" /\ Within(c, OffloadSbc)
  /\ MinBitpool <= c.minBitpool /\ c.minBitpool <= c.maxBitpool /\ c.maxBitpool <= MaxBitpool
IsOffloadAacConfigurationValid(c)    == c.specific = "aac"  /\ Within(c, OffloadAac)
IsOffloadLdacConfigurationValid(c)   == c.specific = "ldac" /\ Within(c, OffloadLdac)
IsOffloadAptxConfigurationValid(c)   == c.specific = "aptx" /\ Within(c, OffloadAptx)
IsOffloadAptxHdConfigurationValid(c) == c.specific = "aptx" /\ Within(c, OffloadAptxHd)
IsOffloadOpusConfigurationValid(c)   == c.specific = "opus" /\ Within(c, OffloadOpus)

IsOffloadCodecConfigurationValid_TagOnly(type, c) ==
  type \in A2dpOffload /\ c.specific \in {"sbc", "aac", "ldac", "aptx", "opus"}
IsOffloadCodecConfigurationValid(type, c) ==
  /\ type \in A2dpOffload
  /\ \/ c.codecType = "SBC"     /\ IsOffloadSbcConfigurationValid(c)
     \/ c.codecType = "AAC"     /\ IsOffloadAacConfigurationValid(c)
     \/ c.codecType = "LDAC"    /\ IsOffloadLdacConfigurationValid(c)
     \/ c.codecType = "APTX"    /\ IsOffloadAptxConfigurationValid(c)
     \/ c.codecType = "APTX_HD" /\ IsOffloadAptxHdConfigurationValid(c)
     \/ c.codecType = "OPUS"    /\ IsOffloadOpusConfigurationValid(c)

(* Any LE audio configuration will do, for a session that takes one.        *)
IsOffloadLeAudioConfigurationValid(type) == type \in LeUnicast \cup LeBroadcast
-----------------------------------------------------------------------------
(* From AIDL to HIDL.                                                       *)

HidlSessionTypes == A2dpSoftware \cup A2dpOffload \cup HearingAid \cup LeSoftware \cup LeUnicast

(* A table of the middleware, and the value of a switch: an entry gives one *)
(* bit, everything else none.                                               *)
Mapped(x, entries) == IF x \in entries THEN {x} ELSE Unset

to_hidl_sample_rate(rate) ==
  Mapped(rate, {8000, 16000, 24000, 32000, 44100, 48000, 88200, 96000, 176400, 192000})
to_hidl_bits_per_sample(bits) == Mapped(bits, {16, 24, 32})
to_hidl_channel_mode(mode) == Mapped(mode, {"MONO", "STEREO"})
to_hidl_codec_type(codec) ==
  IF codec \in {"SBC", "AAC", "APTX", "APTX_HD", "LDAC"} THEN codec ELSE "UNKNOWN"

to_hidl_pcm_config(c) ==
  [sampleRate |-> to_hidl_sample_rate(c.sampleRate),
   channelMode |-> to_hidl_channel_mode(c.channelMode),
   bitsPerSample |-> to_hidl_bits_per_sample(c.bitsPerSample),
   dataIntervalUs |-> c.dataIntervalUs]
to_hidl_sbc_config(c) ==
  [specific |-> "sbc", minBitpool |-> c.minBitpool, maxBitpool |-> c.maxBitpool,
   sampleRate |-> to_hidl_sample_rate(c.sampleRate),
   bitsPerSample |-> to_hidl_bits_per_sample(c.bitsPerSample),
   channelMode |-> Mapped(c.channelMode, {"JOINT_STEREO", "STEREO", "DUAL", "MONO"}),
   blockLength |-> Mapped(c.blockLength, {4, 8, 12, 16}),
   numSubbands |-> Mapped(c.numSubbands, {4, 8}),
   allocMethod |-> Mapped(c.allocMethod, {"ALLOC_MD_S", "ALLOC_MD_L"})]
to_hidl_aac_config(c) ==
  [specific |-> "aac", sampleRate |-> to_hidl_sample_rate(c.sampleRate),
   bitsPerSample |-> to_hidl_bits_per_sample(c.bitsPerSample),
   channelMode |-> to_hidl_channel_mode(c.channelMode),
   objectType |-> Mapped(c.objectType, {"MPEG2_LC", "MPEG4_LC", "MPEG4_LTP", "MPEG4_SCALABLE"})]
to_hidl_ldac_config(c) ==
  [specific |-> "ldac", sampleRate |-> to_hidl_sample_rate(c.sampleRate),
   bitsPerSample |-> to_hidl_bits_per_sample(c.bitsPerSample),
   channelMode |-> Mapped(c.channelMode, {"STEREO", "DUAL", "MONO"}),
   qualityIndex |-> Mapped(c.qualityIndex, {"HIGH", "MID", "LOW", "ABR"})]
to_hidl_aptx_config(c) ==
  [specific |-> "aptx", sampleRate |-> to_hidl_sample_rate(c.sampleRate),
   bitsPerSample |-> to_hidl_bits_per_sample(c.bitsPerSample),
   channelMode |-> to_hidl_channel_mode(c.channelMode)]

(* The specific part of a codec HIDL does not know is left as it was.       *)
to_hidl_codec_config(c) ==
  [codecType |-> to_hidl_codec_type(c.codecType), encodedAudioBitrate |-> c.encodedAudioBitrate,
   config |-> CASE c.specific = "sbc"  -> to_hidl_sbc_config(c)
                [] c.specific = "aac"  -> to_hidl_aac_config(c)
                [] c.specific = "ldac" -> to_hidl_ldac_config(c)
                [] c.specific = "aptx" -> to_hidl_aptx_config(c)
                [] OTHER -> [specific |-> "unset"]]
-----------------------------------------------------------------------------
(* HIDL: the same tables once more, as masks.                               *)

HidlRates == {44100, 48000, 88200, 96000, 176400, 192000, 16000, 24000}  \* 0xff

HidlSoftwarePcm ==
  [sampleRate |-> {44100, 48000, 88200, 96000, 16000, 24000},
   channelMode |-> {"MONO", "STEREO"}, bitsPerSample |-> {16, 24, 32}]
HidlOffloadSbc ==
  [sampleRate |-> {44100}, channelMode |-> {"MONO", "JOINT_STEREO"},
   blockLength |-> {4, 8, 12, 16}, numSubbands |-> {8},
   allocMethod |-> {"ALLOC_MD_L"}, bitsPerSample |-> {16}]
HidlOffloadAac ==
  [objectType |-> {"MPEG2_LC"}, sampleRate |-> {44100},
   channelMode |-> {"STEREO"}, bitsPerSample |-> {16}]
HidlOffloadLdac ==
  [sampleRate |-> {44100, 48000, 88200, 96000}, channelMode |-> {"DUAL", "STEREO"},
   bitsPerSample |-> {16, 24, 32}]
HidlOffloadAptx ==
  [sampleRate |-> {44100, 48000}, channelMode |-> {"STEREO"}, bitsPerSample |-> {16}]
HidlOffloadAptxHd ==
  [sampleRate |-> {44100, 48000}, channelMode |-> {"STEREO"}, bitsPerSample |-> {24}]

(* IsSingleBit tests the bits of the field one by one and stops at a second *)
(* one that is set; bits outside the field are not looked at.               *)
IsSingleBit_AtMostOne(mask, field) == Cardinality(mask \cap field) <= 1
IsSingleBit(mask, field) == Cardinality(mask \cap field) = 1

Chosen(c, fields)    == \A f \in DOMAIN fields : IsSingleBit(c[f], fields[f])
Supported(c, cap)    == \A f \in DOMAIN cap : c[f] \cap cap[f] # {}
PcmFields == [sampleRate |-> HidlRates, channelMode |-> {"MONO", "STEREO"},
              bitsPerSample |-> {16, 24, 32}]

HidlSbcValid(c) ==
  /\ c.specific = "sbc"
  /\ Chosen(c, [sampleRate |-> HidlRates, channelMode |-> {"JOINT_STEREO", "STEREO", "DUAL", "MONO"},
                blockLength |-> {4, 8, 12, 16}, numSubbands |-> {4, 8},
                allocMethod |-> {"ALLOC_MD_S", "ALLOC_MD_L"}, bitsPerSample |-> {16, 24, 32}])
  /\ c.minBitpool <= c.maxBitpool
  /\ Supported(c, HidlOffloadSbc)
  /\ MinBitpool <= c.minBitpool /\ c.maxBitpool <= MaxBitpool
HidlAacValid(c) ==
  /\ c.specific = "aac" /\ Chosen(c, PcmFields)
  /\ IsSingleBit(c.objectType, {"MPEG2_LC", "MPEG4_LC", "MPEG4_LTP", "MPEG4_SCALABLE"})
  /\ Supported(c, HidlOffloadAac)
HidlLdacValid(c) ==
  /\ c.specific = "ldac"
  /\ Chosen(c, [PcmFields EXCEPT !.channelMode = {"STEREO", "DUAL", "MONO"}])
  /\ c.qualityIndex # Unset
  /\ Supported(c, HidlOffloadLdac)
HidlAptxValid(c)   == c.specific = "aptx" /\ Chosen(c, PcmFields) /\ Supported(c, HidlOffloadAptx)
HidlAptxHdValid(c) == c.specific = "aptx" /\ Chosen(c, PcmFields) /\ Supported(c, HidlOffloadAptxHd)

(* encodedAudioBitrate is unsigned in HIDL: a negative one is a large one.  *)
HidlBitrates == 1 .. 16777215   \* 0x00000001 to 0x00ffffff
HidlCodecValid(type, c) ==
  /\ type = "A2DP_HARDWARE_OFFLOAD_ENCODING"
  /\ c.encodedAudioBitrate \in HidlBitrates
  /\ \/ c.codecType = "SBC"     /\ HidlSbcValid(c.config)
     \/ c.codecType = "AAC"     /\ HidlAacValid(c.config)
     \/ c.codecType = "LDAC"    /\ HidlLdacValid(c.config)
     \/ c.codecType = "APTX"    /\ HidlAptxValid(c.config)
     \/ c.codecType = "APTX_HD" /\ HidlAptxHdValid(c.config)

HidlPcmValid(c) == \E r \in HidlSoftwarePcm.sampleRate, m \in HidlSoftwarePcm.channelMode,
                      b \in HidlSoftwarePcm.bitsPerSample :
                     c.sampleRate = {r} /\ c.channelMode = {m} /\ c.bitsPerSample = {b}
HidlPcmValid_2_1(c) == HidlPcmValid(c) /\ c.dataIntervalUs # 0
-----------------------------------------------------------------------------
(* The stream a port opens for a PCM configuration: LoadAudioConfig.        *)

AidlPackedTypes == {"A2DP_HARDWARE_OFFLOAD_ENCODING", "A2DP_SOFTWARE_ENCODING"}

AidlFormat(bits, type) ==
  CASE bits = 16 -> "PCM_16_BIT"
    [] bits = 24 -> IF type \in AidlPackedTypes THEN "PCM_24_BIT_PACKED" ELSE "PCM_8_24_BIT"
    [] bits = 32 -> "PCM_32_BIT"
    [] OTHER -> "PCM_16_BIT"

AidlLoad(c, type) == [rate |-> c.sampleRate, channels |-> c.channelMode,
                      format |-> AidlFormat(c.bitsPerSample, type)]

HidlFormat(mask) ==
  CASE mask = {16} -> "PCM_16_BIT"
    [] mask = {24} -> "PCM_24_BIT_PACKED"
    [] mask = {32} -> "PCM_32_BIT"
    [] OTHER -> "PCM_16_BIT"

DefaultRate == 44100   \* kBluetoothDefaultSampleRate
HidlRate(mask) ==
  IF mask \in {{r} : r \in HidlRates \cup {8000, 32000}}
  THEN CHOOSE r \in mask : TRUE ELSE DefaultRate

HidlLoad(c) == [rate |-> HidlRate(c.sampleRate),
                channels |-> IF c.channelMode = {"MONO"} THEN "MONO" ELSE "STEREO",
                format |-> HidlFormat(c.bitsPerSample)]
=============================================================================
