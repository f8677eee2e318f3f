------------------------------- MODULE Ladder -------------------------------
(***************************************************************************)
(* How a file would be played by a client: as it is, with its streams      *)
(* copied into another container, re-encoded, or not at all                *)
(* (src/atrium/media/decision.py).                                         *)
(*                                                                         *)
(* `Decide` is the whole ladder.  What it answers for is an `ask`: the     *)
(* client's profile, the switches of the request, and whether the item is  *)
(* a video.                                                                *)
(***************************************************************************)
EXTENDS DeviceProfiles

----------------------------------------------------------------------------
(* Files, requests and answers.                                            *)

VideoProperties == {"Height", "VideoBitDepth", "VideoBitrate", "VideoFramerate", "VideoLevel"}

AudioProperties == {"AudioChannels", "AudioBitrate", "AudioSampleRate"}

VideoStream == [codec: STRING, at: Nat, values: [VideoProperties -> Value]]

AudioStream ==
  [codec: STRING, at: Nat, default: BOOLEAN, values: [AudioProperties -> Value]]

\* `MediaInspection`, with the subtitle files found beside the file; it runs if its runtime
\* is known.
Source ==
  [container: Seq(STRING), bitrate: Value, video: VideoStream \cup {None},
   audio: Seq(AudioStream), subtitles: Seq([codec: STRING, at: Nat]), beside: Seq(STRING),
   runs: BOOLEAN]

\* `unopened`: what stands in for a file that would not open, and is never stored.
Unopened ==
  [container |-> <<>>, bitrate |-> None, video |-> None, audio |-> <<>>,
   subtitles |-> <<>>, beside |-> <<>>, runs |-> FALSE]

\* `Switches` and what they are switches of.
Request ==
  [video: BOOLEAN, profile: DeviceProfile \cup {None}, direct: BOOLEAN,
   copyVideo: BOOLEAN, copyAudio: BOOLEAN, cap: Value, channels: Value, audio: Value,
   subtitle: Value]

StreamPlan(properties) ==
  [index: Int, does: {"copy", "encode"}, codec: STRING, out: [properties -> Value]]

Decision ==
  [outcome: {"direct", "remux", "transcode", "none"},
   target: TranscodingProfile \cup {None},
   plans: [video: StreamPlan(VideoProperties) \cup {None},
           audio: StreamPlan(AudioProperties) \cup {None}],
   shown: Seq(SubtitleMethod), transcodes: BOOLEAN]

ASSUME NoneAssumption ==
  /\ None \notin Int /\ None \notin STRING /\ None \notin SubtitleMethod
  /\ None \notin DeviceProfile /\ None \notin TranscodingProfile
  /\ None \notin VideoStream /\ None \notin AudioStream
  /\ None \notin StreamPlan(VideoProperties) /\ None \notin StreamPlan(AudioProperties)
  /\ None \notin Decision

\* Streams lie at different places, a rate that is known is not zero, and a file that opens
\* has a container (`probe.py`).
Inspected(source) ==
  /\ source \in Source
  /\ source.container = <<>> => source = Unopened
  /\ \A i, j \in DOMAIN source.audio : source.audio[i].at = source.audio[j].at => i = j
  /\ \A i \in DOMAIN source.audio : source.audio[i].values["AudioBitrate"] # 0

\* A client says finitely much.
WellFormed(ask) ==
  /\ ask \in Request
  /\ ask.profile # None =>
       /\ IsFiniteSet(ask.profile.codecs)
       /\ \A e \in ask.profile.codecs : IsFiniteSet(e.conditions)

----------------------------------------------------------------------------
(* The streams of a source.  A file beside it comes before what is in it.  *)

\* `renumber`
Index(source, stream) == Len(source.beside) + stream.at

Tracks(source) ==
  [i \in DOMAIN source.beside |->
     [codec |-> source.beside[i], index |-> i - 1, external |-> TRUE]]
  \o [i \in DOMAIN source.subtitles |->
        [codec |-> source.subtitles[i].codec, external |-> FALSE,
         index |-> Index(source, source.subtitles[i])]]

\* `selected_audio`: the one that was named, or the default, or the first.
SelectedAudio(source, index) ==
  LET First(Test(_)) == SelectInSeq(source.audio, Test)
      named == First(LAMBDA s : Index(source, s) = index)
      default == First(LAMBDA s : s.default)
  IN IF source.audio = <<>> THEN None
     ELSE source.audio[IF named # 0 THEN named ELSE IF default # 0 THEN default ELSE 1]

\* A stream that reports no rate is taken to have the whole file's.
Values(source, stream) ==
  [p \in DOMAIN stream.values |->
     IF p \in {"VideoBitrate", "AudioBitrate"} THEN Or(stream.values[p], source.bitrate)
     ELSE stream.values[p]]

VideoOf(source, ask) == IF ask.video THEN source.video ELSE None

AudioOf(source, ask) == SelectedAudio(source, ask.audio)

AudioKind(ask) == IF ask.video THEN "VideoAudio" ELSE "Audio"

\* The codec conditions a file breaks in a container.
Broken(source, ask, names) ==
  LET video == VideoOf(source, ask)
      audio == AudioOf(source, ask)
  IN (IF video = None THEN {}
      ELSE Failures(ask.profile, "Video", video.codec, names, Values(source, video)))
     \cup
     (IF audio = None THEN {}
      ELSE Failures(ask.profile, AudioKind(ask), audio.codec, names, Values(source, audio)))

----------------------------------------------------------------------------
(* Subtitle tracks.                                                        *)

Text(format) == format \notin {"pgssub", "dvdsub"}

\* `_convertible_to`
Convertible(from, to) == Text(from) /\ {from, to} \cap {"ass", "ssa"} = {}

\* `_embed_supported`
EmbedSupported(names) ==
  names \cap {"ts", "mpegts", "mp4"} = {} /\ names \cap {"mkv", "matroska"} # {}

\* An entry under which a track is delivered inside the container (`_embedded_profile`).
Embeds(entry, track, transcoding, names, converting) ==
  /\ entry.method = "Embed"
  /\ Admits(entry.container, names)
  /\ transcoding => EmbedSupported(names)
  /\ IF converting THEN Convertible(track.codec, entry.format)
     ELSE entry.format = track.codec

\* An entry under which it is delivered apart or in the manifest (`_external_profile`).
Serves(entry, track, transcoding, converting) ==
  /\ \/ entry.method = "External" /\ Text(track.codec) = Text(entry.format)
     \/ entry.method = "Hls" /\ transcoding /\ Text(track.codec)
  /\ \/ entry.format = track.codec
     \/ converting /\ Convertible(track.codec, entry.format)

\* `_subtitle_answer`: four passes over the client's entries, each over all of them.
Method(profile, track, transcoding, names, protocol) ==
  LET entries == profile.subtitles
      Passes(k, e) ==
        IF k <= 2
        THEN /\ ~track.external /\ ~(transcoding /\ protocol = "hls")
             /\ Embeds(e, track, transcoding, names, k = 2)
        ELSE Serves(e, track, transcoding, k = 4)
      fitting == {k \in 1..4 : \E i \in DOMAIN entries : Passes(k, entries[i])}
  IN IF fitting = {} THEN "Encode"
     ELSE entries[SelectInSeq(entries, LAMBDA e : Passes(Min(fitting), e))].method

\* `_selected_subtitle`
SelectedTracks(source, ask) ==
  SelectSeq(Tracks(source), LAMBDA t : ask.video /\ t.index = ask.subtitle)

----------------------------------------------------------------------------
(* Direct play.                                                            *)

\* Whether one entry admits the container and both codecs.
Opens(source, ask, entry) ==
  LET video == VideoOf(source, ask)
      audio == AudioOf(source, ask)
  IN /\ entry.video = ask.video
     /\ Admits(entry.container, ToSet(source.container))
     /\ video # None => Admits(entry.videoCodec, {video.codec})
     /\ audio # None => Admits(entry.audioCodec, {audio.codec})

Cap(ask) == Or(ask.cap, ask.profile.cap)

WithinCap(source, cap) == cap = None \/ Or(source.bitrate, 0) <= cap

\* `_direct_play_reasons`: the first entry under which there is nothing to complain of, or
\* zero.
DirectEntry(source, ask) ==
  LET names == ToSet(source.container)
      unshown(t) == Method(ask.profile, t, FALSE, names, None) \notin {"External", "Embed"}
      refused == \/ \E t \in ToSet(SelectedTracks(source, ask)) : unshown(t)
                 \/ Broken(source, ask, names) # {}
                 \/ ~WithinCap(source, Cap(ask))
  IN IF refused THEN 0
     ELSE SelectInSeq(ask.profile.direct, LAMBDA e : Opens(source, ask, e))

\* `_single_container`: the first of a container's names that the entry opens.
PlayedAs(source, entry) ==
  LET first == SelectInSeq(source.container, LAMBDA n : Admits(entry.container, {n}))
  IN IF Len(source.container) <= 1 \/ first = 0 THEN ToSet(source.container)
     ELSE {source.container[first]}

----------------------------------------------------------------------------
(* What is done to each stream.                                            *)

\* A stream as it comes out: copied, it keeps its values; encoded, those that are planned
\* are clamped and the others are left to the encoder, which keeps the frame rate.
Plan(source, stream, copied, codec, planned) ==
  [index |-> Index(source, stream),
   does  |-> IF copied THEN "copy" ELSE "encode",
   codec |-> codec,
   out   |-> IF copied THEN stream.values ELSE planned]

\* `_plan_video`: copied when the target takes the codec, every condition holds in its
\* container too, and the file is within the cap; otherwise encoded to the first codec.
PlanVideo(source, ask, target) ==
  LET stream == source.video
      values == Values(source, stream)
      names == {target.container}
      copied == /\ ask.copyVideo
                /\ stream.codec \in ToSet(target.videoCodecs)
                /\ Failures(ask.profile, "Video", stream.codec, names, values) = {}
                /\ WithinCap(source, Cap(ask))
      codec == IF copied THEN stream.codec ELSE Head(target.videoCodecs)
      Limit(p) == Ceiling(ask.profile, "Video", codec, names, p)
  IN Plan(source, stream, copied, codec,
          [p \in DOMAIN values |->
             IF p = "VideoBitrate" THEN Clamped(Capped(Limit(p), Cap(ask)), values[p])
             ELSE IF p \in {"Height", "VideoBitDepth"} THEN Clamped(Limit(p), values[p])
             ELSE IF p = "VideoLevel" THEN None
             ELSE values[p]])

\* `_plan_audio`: copied on the same conditions but the cap; otherwise encoded to the
\* first codec whose conditions the stream could meet, or to the first.
PlanAudio(source, ask, stream, target) ==
  LET values == Values(source, stream)
      names == {target.container}
      Meets(c) == Failures(ask.profile, AudioKind(ask), c, names, values) = {}
      copied == /\ ask.copyAudio
                /\ stream.codec \in ToSet(target.audioCodecs)
                /\ Meets(stream.codec)
      met == SelectInSeq(target.audioCodecs, Meets)
      codec == IF copied THEN stream.codec
               ELSE target.audioCodecs[IF met = 0 THEN 1 ELSE met]
      Limit(p) == Ceiling(ask.profile, AudioKind(ask), codec, names, p)
  IN Plan(source, stream, copied, codec,
          [p \in DOMAIN values |->
             Clamped(IF p = "AudioChannels" THEN Capped(Limit(p), ask.channels)
                     ELSE Limit(p),
                     stream.values[p])])

\* `_producible`
Producible(source, ask, target) ==
  /\ target.video = ask.video
  /\ VideoOf(source, ask) # None => target.videoCodecs # <<>>
  /\ AudioOf(source, ask) # None => target.audioCodecs # <<>>

Plans(source, ask, target) ==
  [video |-> IF VideoOf(source, ask) = None THEN None ELSE PlanVideo(source, ask, target),
   audio |-> IF AudioOf(source, ask) = None THEN None
             ELSE PlanAudio(source, ask, AudioOf(source, ask), target)]

Encoded(plans) == {s \in DOMAIN plans : plans[s] # None /\ plans[s].does = "encode"}

\* Mistake: the client's first target that works, whatever work it is.
FirstTarget(source, ask) ==
  LET targets == ask.profile.targets
  IN SelectInSeq(targets, LAMBDA t : Producible(source, ask, t))

\* `_choose_target`: the least work, and of equal ones the client's first; zero if none.
Target(source, ask) ==
  LET targets == ask.profile.targets
      open == {i \in DOMAIN targets : Producible(source, ask, targets[i])}
      work == [i \in open |-> Cardinality(Encoded(Plans(source, ask, targets[i])))]
  IN IF open = {} THEN 0
     ELSE Min({i \in open : \A j \in open : work[i] <= work[j]})

----------------------------------------------------------------------------
(* The ladder.                                                             *)

\* `_may_process`: only the denial of all three stops a video.
MayProcess(policy, ask) ==
  IF ask.video THEN policy # {} ELSE "audio" \in policy

\* `refused_by_policy`: at delivery each stream has a permission of its own.
RefusedByPolicy(policy, ask, plans) ==
  ~MayProcess(policy, ask) \/ Encoded(plans) \ policy # {}

NoPlans == [video |-> None, audio |-> None]

\* How each track would be shown (`subtitle_answers`).
Shown(source, ask, transcoding, names, protocol) ==
  [i \in DOMAIN Tracks(source) |->
     Method(ask.profile, Tracks(source)[i], transcoding, names, protocol)]

\* The file is played as it is, under an entry for it (`decide`).
PlayedDirectly(source, ask, entry, producible) ==
  [outcome |-> "direct", target |-> None, plans |-> NoPlans,
   shown |-> Shown(source, ask, FALSE, PlayedAs(source, entry), None),
   transcodes |-> producible]

NotPlayed(source, ask) ==
  [outcome |-> "none", target |-> None, plans |-> NoPlans,
   shown |-> Shown(source, ask, FALSE, {}, None), transcodes |-> FALSE]

\* A target is produced; a remux encodes nothing.
Produced(source, ask, target, plans) ==
  [outcome |-> IF plans # NoPlans /\ Encoded(plans) = {} THEN "remux" ELSE "transcode",
   target |-> target, plans |-> plans, transcodes |-> TRUE,
   shown |-> Shown(source, ask, TRUE, {target.container}, target.protocol)]

\* Direct play comes first, and no entry or no target is zero.
Answer(source, ask, entry, chosen) ==
  IF entry # 0 /\ ask.direct
  THEN PlayedDirectly(source, ask, ask.profile.direct[entry], chosen # 0)
  ELSE IF chosen = 0 THEN NotPlayed(source, ask)
  ELSE LET target == ask.profile.targets[chosen]
       IN Produced(source, ask, target, Plans(source, ask, target))

\* `unnegotiated_transcoding`: a client that does not describe itself plays anything.
Unnegotiated(ask, policy) ==
  [outcome |-> "direct", target |-> None, plans |-> NoPlans, shown |-> <<>>,
   transcodes |-> (IF ask.video THEN "video" ELSE "audio") \in policy]

\* `decide`
Decide(source, ask, policy) ==
  IF ask.profile = None THEN Unnegotiated(ask, policy)
  ELSE Answer(source, ask, DirectEntry(source, ask),
              IF MayProcess(policy, ask) THEN Target(source, ask) ELSE 0)
=============================================================================
