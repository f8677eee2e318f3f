----------------------------- MODULE Negotiation ----------------------------
(***************************************************************************)
(* A client asks how to play an item, is answered with the file itself or  *)
(* with an address, and follows the address, which decides again from      *)
(* nothing but its own parameters (src/atrium/api/media_info.py,           *)
(* media/urls.py, api/delivery.py, api/dynamic_hls.py).                    *)
(*                                                                         *)
(* Between the two the account's permissions may change, and a scan may    *)
(* find or lose a subtitle file beside the film, which renumbers its       *)
(* streams.  A client whose player fails on the file asks again without    *)
(* direct play.  A file that would not open is negotiated about all the    *)
(* same, and only its delivery refused.                                    *)
(***************************************************************************)
EXTENDS Ladder

CONSTANTS
  Sources,       \* the files, with what an inspection found in them
  Asks(_),       \* what may be asked about a file
  Policies,      \* sets of what an account may: "video", "audio", "remux"
  BesideIt,      \* the subtitle files that may lie beside a file
  Encoders,      \* the codecs the server has an encoder for
  Muxers,        \* the containers it has a muxer for
  MinimumVideoBitrate,
  FitsAParameter(_),  \* whether a list of names is short enough for a parameter
  Printed(_)     \* the shortest decimal that reads back as a frame rate

ASSUME SourcesAssumption == \A s \in Sources : Inspected(s)

ASSUME AsksAssumption == \A s \in Sources : \A asked \in Asks(s) : WellFormed(asked)

ASSUME PoliciesAssumption == Policies \subseteq SUBSET {"video", "audio", "remux"}

ASSUME BesideAssumption == BesideIt \subseteq Seq(STRING)

\* The frame rates an address may name.
Rates(src, asked) ==
  {c.value : c \in {c \in UNION {e.conditions : e \in asked.profile.codecs} :
                      c.property = "VideoFramerate" /\ c.is \in {"atMost", "equals"}}}
  \cup IF src.video = None THEN {} ELSE {src.video.values["VideoFramerate"]} \ {None}

Printable(src, asked) == asked.profile # None => \A r \in Rates(src, asked) : Printed(r) \in Int

ASSUME PrintedAssumption == \A s \in Sources : \A asked \in Asks(s) : Printable(s, asked)

ASSUME MinimumAssumption == MinimumVideoBitrate \in Int

Seen == [source: Source, policy: SUBSET {"video", "audio", "remux"}]

\* What of a TranscodingUrl is read again.
Address ==
  [video: BOOLEAN, container: STRING, protocol: STRING, videoCodecs: Seq(STRING),
   audioCodecs: Seq(STRING), audio: Value, videoBitrate: Value, audioBitrate: Value,
   sampleRate: Value, frameRate: Value, height: Value,
   method: SubtitleMethod \cup {None}, subtitle: Value]

\* What comes of following an address: one of the errors, or an encoder that is started.
Answers == {"no route", "invalid", "refused", "failed", "started"}

ASSUME NothingAssumption ==
  None \notin Seen /\ None \notin Address /\ None \notin Answers

VARIABLES
  source,
  policy,
  ask,
  at,        \* "asked", "negotiated" or "followed"
  seen,      \* the file and the permissions of the negotiation
  decision,
  address,   \* the TranscodingUrl, if there is one
  delivery,  \* what following it has decided
  answer     \* and what came of that

vars == <<source, policy, ask, at, seen, decision, address, delivery, answer>>

----------------------------------------------------------------------------
(* The address.                                                            *)

\* Mistake: the limit of one codec, though the target allows others.
TightestOfTheFirst(profile, kind, codecs, names, property) ==
  Ceiling(profile, kind, IF codecs = <<>> THEN None ELSE Head(codecs), names, property)

\* `_tightest`: what is left when every codec of the target has had its say.
Tightest(profile, kind, codecs, names, property) ==
  LET limits == {Ceiling(profile, kind, c, names, property) :
                   c \in IF codecs = <<>> THEN {None} ELSE ToSet(codecs)} \ {None}
  IN IF limits = {} THEN None ELSE Min(limits)

\* Mistake: the sound is not taken off the cap.
VideoShareOfAll(cap, stated, audioBitrate) ==
  IF cap = None THEN stated ELSE Max({Clamped(stated, cap), MinimumVideoBitrate})

\* `_video_bitrate`: the cap without the audio's share, and no more than the profile states.
VideoShare(cap, stated, audioBitrate) ==
  IF cap = None THEN stated
  ELSE Max({Clamped(stated, cap - Or(audioBitrate, 0)), MinimumVideoBitrate})

\* `_max_framerate`: the lower of the limit and the stream's own, as it is printed.
FrameRate(limit, rate) ==
  IF Clamped(limit, rate) = None THEN None ELSE Printed(Clamped(limit, rate))

\* `_subtitle_method`: an index without a track counts as one to be burnt in.
SelectedMethod(src, asked, decided) ==
  LET i == SelectInSeq(Tracks(src), LAMBDA t : t.index = asked.subtitle)
  IN IF asked.subtitle = None \/ ~asked.video THEN None
     ELSE IF i = 0 THEN "Encode" ELSE decided.shown[i]

\* `transcoding_url`: what of a decision an address says.  It names a track that is selected
\* for a video, is one and is not fetched apart (`_names_the_subtitle_index`).
AddressOf(src, asked, decided) ==
  LET target == decided.target
      audio == decided.plans.audio
      copied == audio # None /\ audio.does = "copy"
      audioCodecs == IF copied THEN <<audio.codec>> ELSE target.audioCodecs
      audioBitrate == IF audio = None THEN None ELSE audio.out["AudioBitrate"]
      method == SelectedMethod(src, asked, decided)
      Limit(p) == Tightest(asked.profile, "Video", target.videoCodecs,
                           {target.container}, p)
  IN [video        |-> asked.video,
      container    |-> target.container,
      protocol     |-> target.protocol,
      videoCodecs  |-> target.videoCodecs,
      audioCodecs  |-> audioCodecs,
      audio        |-> IF audio = None THEN None ELSE audio.index,
      videoBitrate |-> VideoShare(Cap(asked), Limit("VideoBitrate"), audioBitrate),
      audioBitrate |-> audioBitrate,
      sampleRate   |-> IF copied THEN audio.out["AudioSampleRate"]
                       ELSE Tightest(asked.profile, AudioKind(asked), audioCodecs,
                                     {target.container}, "AudioSampleRate"),
      frameRate    |-> FrameRate(Limit("VideoFramerate"),
                                 IF VideoOf(src, asked) = None THEN None
                                 ELSE src.video.values["VideoFramerate"]),
      height       |-> Limit("Height"),
      method       |-> IF method = "External" THEN None ELSE method,
      subtitle     |-> IF ~asked.video \/ asked.subtitle = -1 \/ method = "External"
                       THEN None ELSE asked.subtitle]

----------------------------------------------------------------------------
(* The delivery.                                                           *)

\* `_ceiling_profiles`: a limit for the streams of a kind, whatever their codec.
LimitedTo(kind, limits) ==
  [kind |-> kind, codec |-> Anything, container |-> Anything, when |-> {},
   conditions |-> {[property |-> p, is |-> "atMost", value |-> limits[p],
                    required |-> TRUE] : p \in {p \in DOMAIN limits : limits[p] # None}}]

\* `decide_delivery`: an address is read as a profile with one target and no direct play.
\* What it does not name is the source's own.
AskOf(src, addr) ==
  LET own(codecs, stream) ==
        IF codecs # <<>> \/ stream = None THEN codecs ELSE <<stream.codec>>
      target == [video |-> addr.video, container |-> addr.container,
                 protocol |-> addr.protocol,
                 videoCodecs |-> own(addr.videoCodecs, src.video),
                 audioCodecs |-> own(addr.audioCodecs,
                                     IF src.audio = <<>> THEN None ELSE Head(src.audio))]
      videoLimits == [Height |-> addr.height, VideoBitrate |-> addr.videoBitrate,
                      VideoFramerate |-> addr.frameRate]
      audioLimits == [AudioBitrate |-> addr.audioBitrate,
                      AudioSampleRate |-> addr.sampleRate]
  IN [video |-> addr.video, direct |-> TRUE, copyVideo |-> TRUE, copyAudio |-> TRUE,
      cap |-> None, channels |-> None, audio |-> addr.audio, subtitle |-> None,
      profile |-> [cap |-> None, direct |-> <<>>, targets |-> <<target>>,
                   subtitles |-> <<>>,
                   codecs |-> {LimitedTo("Video", videoLimits),
                               LimitedTo(IF addr.video THEN "VideoAudio" ELSE "Audio",
                                         audioLimits)}]]

\* Mistake: the account's permissions are asked before there is a plan.
DeliveredToOwner(src, addr) == Decide(src, AskOf(src, addr), policy)

\* Nobody's permissions are asked: the segment route asks about the plan instead.
Delivered(src, addr) == Decide(src, AskOf(src, addr), {"video", "audio", "remux"})

\* `CONTAINER_PATTERN`: the lists an address names are no longer than a parameter may be.
Bindable(addr) ==
  \A names \in {<<addr.container>>, addr.videoCodecs, addr.audioCodecs} :
    FitsAParameter(names)

\* `inspection_of`, `_planned`: there is a stored inspection to decide about, and a playlist
\* has a runtime to cut.
Deliverable(src, addr) == src.container # <<>> /\ (addr.protocol = "hls" => src.runs)

\* `command`, `segment_command`: there is a stream to write, an encoder for every encode, and
\* a muxer for the container; segments of an unknown container are written as `ts`.
Commanded(addr, plans) ==
  /\ plans # NoPlans
  /\ \A s \in Encoded(plans) : plans[s].codec \in Encoders
  /\ addr.protocol = "hls" \/ addr.container \in Muxers

\* What comes of an address: the only playlist routes are those of videos, its parameters are
\* read before the item is, a segment is refused to who may not have its encode, and a body
\* needs a command (`produced_response`, `produce`).
AnswerTo(src, addr, plans, may) ==
  IF addr.protocol = "hls" /\ ~addr.video THEN "no route"
  ELSE IF ~Bindable(addr) THEN "invalid"
  ELSE IF ~Deliverable(src, addr) THEN "failed"
  ELSE IF addr.protocol = "hls" /\ RefusedByPolicy(may, AskOf(src, addr), plans)
  THEN "refused"
  ELSE IF ~Commanded(addr, plans) THEN "failed"
  ELSE "started"

\* `_announced`: the tracks a master playlist lists, and which is the default.
Announced(src, addr) ==
  IF addr.method = "Hls" THEN {t.index : t \in {t \in ToSet(Tracks(src)) : Text(t.codec)}}
  ELSE {}

DefaultTrack(src, addr) == Announced(src, addr) \cap {addr.subtitle}

----------------------------------------------------------------------------
Init ==
  /\ source \in Sources
  /\ ask \in Asks(source)
  /\ policy \in Policies
  /\ at = "asked"
  /\ seen = None /\ decision = None /\ address = None
  /\ delivery = None /\ answer = None

\* `NegotiationRefusedError`: a profile cannot be held against a track that has no sound.
Refusable(asked) == ~asked.video /\ asked.profile # None /\ source.audio = <<>>

\* An answer, and an address unless the file is played; or the refusal of either.
Answered(asked, decided) ==
  IF Refusable(asked) THEN UNCHANGED vars
  ELSE
    /\ ask' = asked
    /\ seen' = [source |-> source, policy |-> policy]
    /\ decision' = decided
    /\ address' = IF decision'.target = None THEN None
                  ELSE AddressOf(source, asked, decision')
    /\ at' = "negotiated"
    /\ UNCHANGED <<source, policy, delivery, answer>>

\* Mistake: the permission for an encode is wanted before direct play is given.
NegotiateStrictly(asked) ==
  LET all == Decide(source, asked, policy)
  IN Answered(asked,
              IF RefusedByPolicy(policy, asked, all.plans)
              THEN [all EXCEPT !.outcome = "none", !.target = None] ELSE all)

\* `_negotiation`, `_annotate`
Negotiate(asked) == Answered(asked, Decide(source, asked, policy))

Ask == at = "asked" /\ Negotiate(ask)

\* The player fails on the file.
AskAgain ==
  /\ at = "negotiated" /\ decision.outcome = "direct" /\ ask.direct
  /\ Negotiate([ask EXCEPT !.direct = FALSE])

\* One more request of the address: a playlist, a segment, the stream.  What the ladder says
\* to it is kept where the answer is a refusal too.
Follow ==
  /\ at \in {"negotiated", "followed"} /\ address # None
  /\ delivery' = Delivered(source, address)
  /\ answer' = AnswerTo(source, address, delivery'.plans, policy)
  /\ at' = "followed"
  /\ UNCHANGED <<source, policy, ask, seen, decision, address>>

\* The file or the account is no longer what the last answer was given for.
Changes ==
  /\ at # "asked"
  /\ at' = "negotiated" /\ delivery' = None /\ answer' = None
  /\ UNCHANGED <<ask, seen, decision, address>>

\* A file that would not open has no stored streams to renumber.
Rescan ==
  /\ source.container # <<>>
  /\ \E files \in BesideIt : source' = [source EXCEPT !.beside = files]
  /\ Changes /\ UNCHANGED policy

ChangePolicy ==
  /\ policy' \in Policies
  /\ Changes /\ UNCHANGED source

Next == Ask \/ AskAgain \/ Follow \/ Rescan \/ ChangePolicy

Spec == Init /\ [][Next]_vars

----------------------------------------------------------------------------
\* The types of the variables: what an address leads to is always a production.
TypeOK ==
  /\ Inspected(source) /\ WellFormed(ask)
  /\ policy \in Policies
  /\ at \in {"asked", "negotiated", "followed"}
  /\ seen \in Seen \cup {None} /\ decision \in Decision \cup {None}
  /\ address \in Address \cup {None} /\ delivery \in Decision \cup {None}
  /\ answer \in Answers \cup {None}
  /\ at = "asked" <=> decision = None
  /\ at = "asked" <=> seen = None
  /\ at = "followed" <=> delivery # None
  /\ answer = None <=> delivery = None
  /\ decision # None => (address # None <=> decision.outcome \in {"remux", "transcode"})
  /\ delivery # None => delivery.outcome \in {"remux", "transcode"}

----------------------------------------------------------------------------
(* What holds.                                                             *)

\* What an address says of a profile: these upper limits, and that of the audio bitrate for
\* the planned codec only.
CarriedProperties ==
  {"Height", "VideoBitrate", "VideoFramerate", "AudioSampleRate"}
    \cup IF Len(decision.target.audioCodecs) = 1 THEN {"AudioBitrate"} ELSE {}

\* An address was followed while the file was the one it was made for.
Delivers == at = "followed" /\ source = seen.source

Kind(s) == IF s = "video" THEN "Video" ELSE AudioKind(ask)

StreamOf(s) == IF s = "video" THEN source.video ELSE AudioOf(source, ask)

\* What the profile says of a codec in the container that is produced.
EntriesFor(s, codec) == About(ask.profile, Kind(s), codec, {decision.target.container})

\* Re-deciding from an address may copy what the negotiation would have encoded, but never
\* because it forgot a limit the address carries; that of the video bitrate is raised to the
\* minimum, and that of the frame rate to how it is printed (`transcoding_url`,
\* `_ceiling_profiles`).
LostOnlyWhatIsNotCarried ==
  Delivers =>
    \A s \in Encoded(decision.plans) \ Encoded(delivery.plans) :
      LET values == Values(source, StreamOf(s))
      IN \A c \in Failures(ask.profile, Kind(s), StreamOf(s).codec,
                           {decision.target.container}, values) :
           c.is = "atMost" =>
             \/ c.property \notin CarriedProperties \cap DOMAIN values
             \/ /\ c.property = "VideoBitrate" /\ Cap(ask) # None
                /\ values["VideoBitrate"] <= MinimumVideoBitrate
             \/ /\ c.property = "VideoFramerate"
                /\ values["VideoFramerate"] <= address.frameRate

\* A limit the address carries though the stream need not meet it: its entry is not for
\* streams like this one, or what it limits is not known of it and not required.
CarriedThoughWaived(s) ==
  \E e \in EntriesFor(s, StreamOf(s).codec) : \E c \in e.conditions :
    LET values == Values(source, StreamOf(s))
    IN /\ c.is \in {"atMost", "equals"} /\ c.property \in CarriedProperties
       /\ ~AllHold(e.when, values) \/ Measured(values, c.property) = None

\* A stream that was to be copied is copied at delivery: the audio always, and the video
\* where the target names one codec, no cap is stated, the rate is not printed below itself
\* and no limit is waived for it (`ceiling` asks for none of what `_failures` waives).
CopiesSurvive ==
  Delivers =>
    \A s \in Encoded(delivery.plans) \ Encoded(decision.plans) :
      /\ s = "video"
      /\ \/ Len(decision.target.videoCodecs) > 1
         \/ Cap(ask) # None
         \/ LET rate == source.video.values["VideoFramerate"]
            IN rate # None /\ Printed(rate) < rate
         \/ CarriedThoughWaived(s)

\* The entries whose limits bind what is delivered: of a sound that was to be copied, whose
\* own rate is carried, only those that are for it.
Binding(s, codec) ==
  {e \in EntriesFor(s, codec) :
     s = "audio" /\ decision.plans[s].does = "copy" =>
       AllHold(e.when, Values(source, StreamOf(s)))}

\* What is delivered stays within every limit of the profile that the address carries,
\* though neither the address nor the delivery knows which codec a limit was for; an encoder
\* takes the frame rate as it comes.
CarriedLimitsHold ==
  Delivers =>
    \A s \in {s \in DOMAIN delivery.plans : delivery.plans[s] # None} :
      LET plan == delivery.plans[s]
      IN \A c \in UNION {e.conditions : e \in Binding(s, plan.codec)} :
           /\ c.is \in {"atMost", "equals"}
           /\ c.property \in (CarriedProperties \cap DOMAIN plan.out) \ {"VideoFramerate"}
           /\ plan.out[c.property] \notin {None, 0}
           => plan.out[c.property]
                <= (IF c.property = "VideoBitrate" THEN Max({c.value, MinimumVideoBitrate})
                    ELSE c.value)

\* What a stream takes of the cap: its rate, or the file's where a copy reports none.
Rate(plan, property) ==
  IF plan = None THEN 0
  ELSE Or(plan.out[property], IF plan.does = "copy" THEN Or(source.bitrate, 0) ELSE 0)

\* A video and its sound stay within the cap together, or the video is down to the minimum
\* (`_video_bitrate`).
VideoKeepsTheCap ==
  Delivers /\ Cap(ask) # None /\ delivery.plans.video # None
           /\ (decision.plans.audio # None => decision.plans.audio.out["AudioBitrate"] # None) =>
    LET audio == Rate(delivery.plans.audio, "AudioBitrate")
    IN Rate(delivery.plans.video, "VideoBitrate") + audio
         <= Max({Cap(ask), MinimumVideoBitrate + audio})

\* The streams delivered are those negotiated, and the selected track is the manifest's
\* default wherever the negotiation promised it there (`_announced`).
TracksAreThoseNegotiated ==
  Delivers =>
    /\ \A s \in DOMAIN delivery.plans :
         /\ delivery.plans[s] = None <=> decision.plans[s] = None
         /\ delivery.plans[s] # None => delivery.plans[s].index = decision.plans[s].index
    /\ address.protocol = "hls" /\ SelectedMethod(source, ask, decision) = "Hls" =>
         DefaultTrack(source, address) = {ask.subtitle}

\* An address starts an encoder but in the cases the negotiation does not look at: a playlist
\* of an audio item, names too long for their parameter, a film without streams (as is any
\* that would not open), segments of a film without a runtime or for an account that may not
\* have every encode, a container without a muxer, and a target that names a codec without an
\* encoder (`_may_process`, `refuse_forbidden_production`).
AddressesAreServed ==
  Delivers =>
    \/ answer = "started"
    \/ ~Bindable(address)
    \/ ask.video /\ source.video = None /\ source.audio = <<>>
    \/ IF address.protocol = "hls"
       THEN ~ask.video \/ ~source.runs \/ ~({"video", "audio"} \subseteq policy)
       ELSE address.container \notin Muxers
    \/ \E codecs \in {decision.target.videoCodecs, decision.target.audioCodecs} :
         ~(ToSet(codecs) \subseteq Encoders)

\* Though the second decision knows nothing but the address, it is the first one but where
\* one of its parts says otherwise (`DeliveryParameters`).
TheDecisionsAgree ==
  /\ TracksAreThoseNegotiated
  /\ LostOnlyWhatIsNotCarried
  /\ CopiesSurvive
  /\ AddressesAreServed

\* What is delivered keeps to the limits the address carries and to the cap
\* (`_ceiling_profiles`, `_video_bitrate`).
LimitsAndCapHold == CarriedLimitsHold /\ VideoKeepsTheCap

\* How much an answer costs: nothing, a copy, an encode or two; and no answer is worst.
Cost(decided) ==
  IF decided.outcome = "direct" THEN 0
  ELSE IF decided.outcome = "none" THEN 4
  ELSE 1 + Cardinality(Encoded(decided.plans))

\* A profile that says less of what the client can take, or more of what it cannot, is never
\* answered better; nor is an account that may do less (`_choose_target`).
MoreIsNeverWorse ==
  at = "negotiated" /\ ask.profile # None /\ source = seen.source =>
    LET profile == ask.profile
        CostWith(changed, may) == Cost(Decide(source, [ask EXCEPT !.profile = changed], may))
        less == {[profile EXCEPT !.targets = RemoveAt(@, i)] : i \in DOMAIN profile.targets}
                \cup {[profile EXCEPT !.direct = RemoveAt(@, i)] : i \in DOMAIN profile.direct}
        more == {[profile EXCEPT !.codecs = @ \ {e}] : e \in profile.codecs}
    IN /\ \A changed \in less : CostWith(changed, seen.policy) >= Cost(decision)
       /\ \A changed \in more : CostWith(changed, seen.policy) <= Cost(decision)
       /\ CostWith(profile, {"video", "audio", "remux"}) <= Cost(decision)

\* `SupportsTranscoding` on a file that is played as it is is a promise: who asks again
\* without direct play is given an address exactly if it was made (`_can_produce`).
TranscodingClaimHolds ==
  [][at = "negotiated" /\ ask' # ask /\ ask.profile # None /\ seen' = seen =>
       (decision.transcodes <=> decision'.outcome \in {"remux", "transcode"})]_vars
=============================================================================
