------------------------ MODULE MCBluetoothProviders ------------------------
(* Configurations for TLC: of every field one or more values the tables take *)
(* and one they do not.                                                      *)
EXTENDS BluetoothProviders, TLC

Pcm == [tag : {"pcm"}, sampleRate : {16000, 22050, 32000, 44100, 48000},
        channelMode : {"MONO", "STEREO", "UNKNOWN"}, bitsPerSample : {8, 16, 24, 32},
        dataIntervalUs : {0, 500, 1500, 7500, 10000}]

Codec(codec, specific, fields) ==
  {[tag |-> "a2dp", codecType |-> codec, specific |-> specific, encodedAudioBitrate |-> b] @@ f :
     b \in {0, 328000}, f \in fields}

Sbc  == [sampleRate : {44100, 48000}, channelMode : {"MONO", "STEREO"}, blockLength : {5, 16},
         numSubbands : {4, 8}, allocMethod : {"ALLOC_MD_L", "ALLOC_MD_S"}, bitsPerSample : {16},
         minBitpool : {1, 2, 53}, maxBitpool : {2, 53, 54}]
Aac  == [sampleRate : {44100, 48000}, channelMode : {"MONO", "STEREO"},
         objectType : {"MPEG2_LC", "MPEG4_LC"}, bitsPerSample : {16, 24}]
Ldac == [sampleRate : {96000, 192000}, channelMode : {"MONO", "DUAL"},
         qualityIndex : {"HIGH", "ABR"}, bitsPerSample : {24, 8}]
Aptx == [sampleRate : {48000, 96000}, channelMode : {"STEREO", "MONO"}, bitsPerSample : {16, 24}]
Opus == [sampleRate : {48000, 44100}, frameDurationUs : {10000, 5000}, channelMode : {"MONO"}]

AllTypes == HidlSessionTypes \cup LeBroadcast

MCConfigs ==
  [pcm |-> Pcm,
   a2dp |-> Codec("SBC", "sbc", Sbc) \cup Codec("AAC", "aac", Aac) \cup Codec("LDAC", "ldac", Ldac)
            \cup Codec("APTX", "aptx", Aptx) \cup Codec("APTX_HD", "aptx", Aptx)
            \cup Codec("OPUS", "opus", Opus) \cup Codec("AAC", "aptx", Aptx),
   leAudio |-> [tag : {"leAudio"}, allocation : {1, 3}]]
=============================================================================
