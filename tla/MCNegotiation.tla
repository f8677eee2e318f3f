---------------------------- MODULE MCNegotiation ----------------------------
(* Five files and what may be asked about them: profiles that differ in    *)
(* their conditions, requests that differ in their switches, and subtitle  *)
(* tracks that a client takes in different ways.                           *)
EXTENDS Negotiation

Single(name) == [but |-> FALSE, names |-> <<name>>]

Video(codec, height, depth, bitrate, rate, level) ==
  [codec |-> codec, at |-> 0,
   values |-> [Height |-> height, VideoBitDepth |-> depth, VideoBitrate |-> bitrate,
               VideoFramerate |-> rate, VideoLevel |-> level]]

Audio(codec, place, default, channels, bitrate, rate) ==
  [codec |-> codec, at |-> place, default |-> default,
   values |-> [AudioChannels |-> channels, AudioBitrate |-> bitrate,
               AudioSampleRate |-> rate]]

File(container, bitrate, video, audio, subtitles, runs) ==
  [container |-> container, bitrate |-> bitrate, video |-> video, audio |-> audio,
   subtitles |-> subtitles, beside |-> <<>>, runs |-> runs]

\* A film in ten bits whose streams report no rates; one with two audio tracks under a
\* container of two names; one without sound or a runtime.
Film == File(<<"mkv">>, 8, Video("h264", 1080, 10, None, 23976, 41),
             <<Audio("aac", 1, FALSE, 6, 2, 48)>>,
             <<[codec |-> "ass", at |-> 2], [codec |-> "pgssub", at |-> 3]>>, TRUE)
Clip == File(<<"mov", "mp4">>, 5, Video("h264", None, 8, 4, 29970, None),
             <<Audio("dts", 1, FALSE, 6, None, 48), Audio("aac", 2, TRUE, 2, 1, 48)>>,
             <<[codec |-> "mov_text", at |-> 3]>>, TRUE)
Mute == File(<<"mkv">>, 2, Video("hevc", 720, 8, 2, 25000, 30), <<>>,
             <<[codec |-> "srt", at |-> 1]>>, FALSE)
Song == File(<<"flac">>, 9, Video("mjpeg", 300, 8, None, None, None),
             <<Audio("flac", 1, FALSE, 2, None, 96)>>, <<>>, TRUE)

\* The clip has a subtitle file beside it when it is asked about, the film may get one; and
\* one file would not open.
FiveFiles == {Film, [Clip EXCEPT !.beside = <<"srt">>], Mute, Song, Unopened}

ThreePolicies == {{"video", "audio", "remux"}, {"audio", "remux"}, {}}

OneOrNone == {<<>>, <<"srt">>}

\* Two names make a parameter as long as it may be, for forty characters.
ShortEnough(names) == Len(names) <= 2

\* A rate may be printed just below or just above what is held.
Shortest(rate) ==
  IF rate = 23976 THEN 23975 ELSE IF rate \in {29969, 29970} THEN rate + 1 ELSE rate

----------------------------------------------------------------------------
Usual(isVideo) ==
  [video |-> isVideo, container |-> [but |-> FALSE, names |-> <<"mp4", "mkv", "flac">>],
   videoCodec |-> Single("h264"), audioCodec |-> [but |-> TRUE, names |-> <<"dts">>]]

Mp4Only == [video |-> TRUE, container |-> Single("mp4"), videoCodec |-> Anything,
            audioCodec |-> Anything]

OneTarget(isVideo, container, protocol, videoCodecs, audioCodecs) ==
  [video |-> isVideo, container |-> container, protocol |-> protocol,
   videoCodecs |-> videoCodecs, audioCodecs |-> audioCodecs]

Hls(isVideo) == OneTarget(isVideo, "ts", "hls", <<"h264">>, <<"aac">>)
Http(isVideo) == OneTarget(isVideo, "mkv", "http", <<"hevc", "h264">>, <<"flac", "aac">>)
Odd(isVideo) == OneTarget(isVideo, "mkv", "http", <<"vvc">>, <<"aac">>)

Rm(isVideo) == OneTarget(isVideo, "rm", "http", <<"h264">>, <<"aac">>)
Long(isVideo) == OneTarget(isVideo, "ts", "hls", <<"hevc", "h264", "vp9">>, <<"aac">>)

Stated(property, is, value, required) ==
  [property |-> property, is |-> is, value |-> value, required |-> required]

Entry(kind, codec, when, condition) ==
  [kind |-> kind, codec |-> codec, container |-> Anything, when |-> when,
   conditions |-> {condition}]

Entries ==
  {Entry("Video", Single("h264"), {}, Stated("Height", "atMost", 720, FALSE)),
   Entry("Video", Single("h264"), {}, Stated("VideoBitDepth", "atMost", 8, FALSE)),
   Entry("Video", Anything, {}, Stated("VideoFramerate", "atMost", 29969, TRUE)),
   Entry("Video", [but |-> TRUE, names |-> <<"hevc">>], {},
         Stated("VideoBitrate", "atMost", 3, TRUE)),
   Entry("Video", Anything, {Stated("VideoBitDepth", "atLeast", 10, TRUE)},
         Stated("VideoLevel", "atMost", 40, TRUE)),
   Entry("Video", Anything, {Stated("VideoBitDepth", "atLeast", 10, TRUE)},
         Stated("Height", "atMost", 576, TRUE)),
   Entry("Video", Anything, {}, Stated("VideoBitrate", "atMost", 1, TRUE)),
   Entry("VideoAudio", Anything, {Stated("AudioChannels", "atLeast", 6, TRUE)},
         Stated("AudioSampleRate", "atMost", 44, FALSE)),
   Entry("Video", Anything, {}, Stated("IsAvc", "equals", 1, TRUE)),
   Entry("VideoAudio", Single("aac"), {}, Stated("AudioChannels", "atMost", 2, TRUE)),
   Entry("VideoAudio", Single("flac"), {}, Stated("AudioChannels", "atMost", 2, TRUE)),
   Entry("VideoAudio", Single("aac"), {}, Stated("AudioBitrate", "atMost", 1, FALSE)),
   Entry("VideoAudio", Anything, {}, Stated("AudioSampleRate", "any", {44, 96}, TRUE)),
   Entry("Audio", Anything, {}, Stated("AudioSampleRate", "atMost", 48, TRUE))}

SubtitleEntry(format, method, container) ==
  [format |-> format, method |-> method, container |-> container]

SubtitleEntries ==
  {SubtitleEntry("vtt", "External", Anything), SubtitleEntry("vtt", "Hls", Anything),
   SubtitleEntry("ass", "External", Anything), SubtitleEntry("pgssub", "Embed", Anything),
   SubtitleEntry("mov_text", "Embed", Single("mov")), SubtitleEntry("srt", "Embed", Anything)}

Profile(direct, targets, codecs, subtitles, cap) ==
  [direct |-> direct, targets |-> targets, codecs |-> codecs, subtitles |-> subtitles,
   cap |-> cap]

Plain(isVideo, profile) ==
  [video |-> isVideo, profile |-> profile, direct |-> TRUE, copyVideo |-> TRUE,
   copyAudio |-> TRUE, cap |-> None, channels |-> None, audio |-> None, subtitle |-> None]

\* Any two conditions at a time.
ByConditions(v) ==
  {Plain(v, Profile(direct, targets, codecs, <<>>, cap)) :
     direct \in {<<>>, <<Usual(v)>>}, targets \in {<<Hls(v)>>, <<Http(v)>>},
     codecs \in {{c, d} : c, d \in Entries}, cap \in {None, 3, 5}}

\* The switches of the request, and which targets there are.
BySwitches(v) ==
  {[video |-> v, direct |-> TRUE, copyVideo |-> copyVideo, copyAudio |-> copyAudio,
    cap |-> cap, channels |-> channels, audio |-> audio, subtitle |-> None,
    profile |-> Profile(<<Usual(v)>>, targets, codecs, <<>>, None)] :
     copyVideo, copyAudio \in BOOLEAN, cap \in {None, 3, 5}, channels \in {None, 2},
     audio \in {None, 1, 2}, codecs \in {{}, Entries},
     targets \in {<<>>, <<Hls(v), Http(v)>>, <<Odd(v), Hls(v)>>, <<Odd(v)>>,
                 <<Rm(v), Hls(v)>>, <<Long(v)>>}}

\* The subtitle entries, in either order, and the track that is selected.
BySubtitles(v) ==
  {[Plain(v, Profile(direct, targets, {}, subtitles, None)) EXCEPT !.subtitle = track] :
     direct \in {<<Usual(v)>>, <<Mp4Only>>}, targets \in {<<Hls(v)>>, <<Http(v)>>},
     subtitles \in {<<a, b>> : a, b \in SubtitleEntries}, track \in {None, -1, 0, 1, 2, 3, 4}}

\* A client that does not describe itself.
Unasked(v) == Plain(v, None)

\* What would not open may be a film or a song.
AsksAbout(file) ==
  UNION {ByConditions(v) \cup BySwitches(v) \cup {Unasked(v)} \cup IF v THEN BySubtitles(v) ELSE {} :
           v \in IF file = Unopened THEN BOOLEAN ELSE {file # Song}}
=============================================================================
