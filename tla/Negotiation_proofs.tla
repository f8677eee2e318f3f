------------------------- MODULE Negotiation_proofs -------------------------
(***************************************************************************)
(* Proofs about the negotiation: for any files, profiles and permissions,  *)
(* an address leads to what was negotiated but where it says otherwise,    *)
(* what is delivered keeps to the limits it carries and to the cap, nobody *)
(* gains by saying less, and the promise beside a direct play is kept.     *)
(*                                                                         *)
(* All of it rests on one invariant, `Settled`: what is kept is the        *)
(* ladder's answer to what was asked and seen, the address made of it, and *)
(* what following that address decides.  The rest relates two calls of     *)
(* `Decide`, the second on what an address says of the first, and is about *)
(* the operators alone.                                                    *)
(***************************************************************************)
EXTENDS Negotiation, FiniteSetTheorems, SequenceTheorems, WellFoundedInduction, TLAPS

----------------------------------------------------------------------------
(* Least numbers, and the limits of a profile.                             *)
\* A set of numbers has a least one.
LEMMA LeastNumber ==
  ASSUME NEW S \in SUBSET Nat, S # {}
  PROVE  \E x \in S : \A y \in S : x <= y
<1>1. PICK x \in S : \A y \in S : ~ (<<y, x>> \in OpToRel(<, Nat))
  BY NatLessThanWellFounded, WFMin
<1>2. \A y \in S : ~ (y < x)
  BY <1>1, Zenon DEF OpToRel
<1> QED
  BY <1>2

\* The images of a finite set are finitely many.
LEMMA ImageIsFinite ==
  ASSUME NEW S, IsFiniteSet(S), NEW f
  PROVE  IsFiniteSet({f[x] : x \in S})
<1> DEFINE T == {f[x] : x \in S}
           g == [x \in S |-> f[x]]
<1>1. g \in Surjection(S, T)
  BY DEF Surjection
<1> HIDE DEF g, T
<1>2. IsFiniteSet(T)
  BY <1>1, FS_Surjection
<1> QED BY <1>2 DEF T

\* A finite set of numbers has a least one.
LEMMA LeastInteger ==
  ASSUME NEW S \in SUBSET Int, IsFiniteSet(S), S # {}
  PROVE  \E x \in S : \A y \in S : x <= y
<1> DEFINE Bare == {T \in SUBSET S : T # {} /\ \A x \in T : \E y \in T : y < x}
<1>1. SUFFICES ASSUME Bare # {} PROVE FALSE
  BY DEF Bare
<1>2. Bare \subseteq FiniteSubsetsOf(S)
  BY FS_FiniteSubsetsOfFinite
<1>3. PICK T \in Bare : \A U \in Bare : ~(<<U, T>> \in StrictSubsetOrdering(S))
  <2> HIDE DEF Bare
  <2> QED BY <1>1, <1>2, FS_StrictSubsetOrderingWellFounded, WFMin
<1>4. PICK x \in T : TRUE
  OBVIOUS
<1> DEFINE U == {y \in T : y < x}
<1>5. U \in Bare
  <2>1. U # {}
    OBVIOUS
  <2>2. ASSUME NEW y \in U PROVE \E z \in U : z < y
    <3>1. PICK z \in T : z < y
      OBVIOUS
    <3>2. z < x
      BY <3>1
    <3> QED BY <3>1, <3>2
  <2> QED BY <2>1, <2>2
<1>6. <<U, T>> \in StrictSubsetOrdering(S)
  <2>1. x \notin U
    OBVIOUS
  <2> QED BY <2>1 DEF StrictSubsetOrdering
<1> HIDE DEF U, Bare
<1> QED BY <1>3, <1>5, <1>6

\* `Min` and `Max` are what they are called, where there are a least and a greatest.
LEMMA MinOfIntegers ==
  ASSUME NEW S \in SUBSET Int, IsFiniteSet(S), S # {}
  PROVE  Min(S) \in S /\ \A y \in S : Min(S) <= y
BY LeastInteger DEF Min

\* Of natural numbers there need not be finitely many.
LEMMA MinOfNumbers ==
  ASSUME NEW S \in SUBSET Nat, S # {}
  PROVE  Min(S) \in S /\ \A y \in S : Min(S) <= y
BY LeastNumber DEF Min

\* And the greater of two is no less than either.
LEMMA MaxOfTwo ==
  ASSUME NEW a \in Int, NEW b \in Int
  PROVE  Max({a, b}) \in {a, b} /\ Max({a, b}) >= a /\ Max({a, b}) >= b
<1>1. \E x \in {a, b} : \A y \in {a, b} : x >= y
  OBVIOUS
<1> QED BY <1>1 DEF Max

\* What a client says comes to finitely many conditions.
Finite(profile) ==
  /\ profile \in DeviceProfile
  /\ IsFiniteSet(profile.codecs)
  /\ \A e \in profile.codecs : IsFiniteSet(e.conditions)

\* The conditions of some of its entries are finitely many.
LEMMA ConditionsAreFinite ==
  ASSUME NEW profile, Finite(profile), NEW entries \in SUBSET profile.codecs
  PROVE  IsFiniteSet(UNION {e.conditions : e \in entries})
<1>1. IsFiniteSet(entries)
  BY FS_Subset DEF Finite
<1> DEFINE f == [e \in entries |-> e.conditions]
           sets == {f[e] : e \in entries}
<1>2. IsFiniteSet(sets)
  <2> HIDE DEF f
  <2> QED BY <1>1, ImageIsFinite
<1>3. \A T \in sets : IsFiniteSet(T)
  BY DEF Finite
<1>4. UNION {e.conditions : e \in entries} = UNION sets
  BY DEF f
<1> HIDE DEF sets
<1>5. IsFiniteSet(UNION sets)
  BY <1>2, <1>3, FS_UNION
<1> QED BY <1>4, <1>5

\* A condition that limits a property from above.
Limiting(c, property) == c.property = property /\ c.is \in {"atMost", "equals"}

\* Only a list of values is no number.
LEMMA LimitIsANumber ==
  ASSUME NEW profile \in DeviceProfile, NEW e \in profile.codecs, NEW c \in e.conditions,
         c.is # "any"
  PROVE  c.value \in Int
<1>1. e \in CodecProfile
  BY DEF DeviceProfile
<1>2. c \in Condition
  BY <1>1 DEF CodecProfile
<1> QED BY <1>2 DEF Condition

\* The limit for a codec is the least of those that its entries state (`ceiling`).
LEMMA CeilingIsTheLeast ==
  ASSUME NEW profile, Finite(profile), NEW kind, NEW codec, NEW names, NEW property
  PROVE  LET limit == Ceiling(profile, kind, codec, names, property)
             entries == About(profile, kind, codec, names)
         IN /\ limit \in Value
            /\ limit # None => \E e \in entries : \E c \in e.conditions :
                                 Limiting(c, property) /\ c.value = limit
            /\ \A e \in entries : \A c \in e.conditions :
                 Limiting(c, property) => limit # None /\ limit \in Int /\ limit <= c.value
<1> DEFINE entries == About(profile, kind, codec, names)
           all == UNION {e.conditions : e \in entries}
           limiting == {c \in all : c.property = property /\ c.is \in {"atMost", "equals"}}
           f == [c \in limiting |-> c.value]
           limits == {c.value : c \in limiting}
           limit == Ceiling(profile, kind, codec, names, property)
<1>1. limit = IF limits = {} THEN None ELSE Min(limits)
  BY DEF Ceiling
<1>2. entries \subseteq profile.codecs
  BY DEF About
<1>3. IsFiniteSet(limiting)
  <2>1. IsFiniteSet(all)
    BY <1>2, ConditionsAreFinite
  <2>2. limiting \in SUBSET all
    OBVIOUS
  <2> HIDE DEF all, limiting
  <2> QED BY <2>1, <2>2, FS_Subset
<1>4. limits \in SUBSET Int
  <2> SUFFICES ASSUME NEW c \in limiting PROVE c.value \in Int
    OBVIOUS
  <2>1. PICK e \in entries : c \in e.conditions
    OBVIOUS
  <2> QED BY <1>2, <2>1, LimitIsANumber DEF Finite
<1>5. IsFiniteSet(limits)
  <2>1. limits = {f[c] : c \in limiting}
    OBVIOUS
  <2> HIDE DEF limiting, f
  <2> QED BY <1>3, <2>1, ImageIsFinite
<1>6. limits # {} => limit \in limits /\ \A y \in limits : limit <= y
  <2> HIDE DEF limits
  <2> QED BY <1>1, <1>4, <1>5, MinOfIntegers
<1>7. limit \in Value
  BY <1>1, <1>4, <1>6 DEF Value
<1>8. ASSUME limit # None
      PROVE  \E e \in entries : \E c \in e.conditions : Limiting(c, property) /\ c.value = limit
  <2>1. limit \in limits
    BY <1>1, <1>6, <1>8
  <2>2. PICK c \in limiting : c.value = limit
    BY <2>1
  <2>3. PICK e \in entries : c \in e.conditions
    OBVIOUS
  <2> QED BY <2>2, <2>3 DEF Limiting
<1>9. ASSUME NEW e \in entries, NEW c \in e.conditions, Limiting(c, property)
      PROVE  limit # None /\ limit \in Int /\ limit <= c.value
  <2>1. c.value \in limits
    BY <1>9 DEF Limiting
  <2>2. limit \in Int /\ limit <= c.value
    BY <1>4, <1>6, <2>1
  <2> QED BY <2>2, NoneAssumption
<1> HIDE DEF limit, entries
<1> QED BY <1>7, <1>8, <1>9 DEF limit, entries

----------------------------------------------------------------------------
(* Streams and what is planned for them.                                   *)
\* The selected sound is one of the file's: the named one, where there is one.
LEMMA SelectedAudioIsOne ==
  ASSUME NEW src, Inspected(src), NEW index
  PROVE  LET stream == SelectedAudio(src, index)
         IN /\ src.audio = <<>> => stream = None
            /\ src.audio # <<>> =>
                 /\ \E i \in DOMAIN src.audio : stream = src.audio[i]
                 /\ stream \in AudioStream /\ stream # None
                 /\ stream.values["AudioBitrate"] # 0
                 /\ \A i \in DOMAIN src.audio :
                      Index(src, src.audio[i]) = index => stream = src.audio[i]
<1> DEFINE audio == src.audio
           Named == {i \in 1..Len(audio) : Index(src, audio[i]) = index}
           Default == {i \in 1..Len(audio) : audio[i].default}
           named == IF Named # {} THEN Min(Named) ELSE 0
           default == IF Default # {} THEN Min(Default) ELSE 0
           stream == SelectedAudio(src, index)
<1>1. /\ audio \in Seq(AudioStream) /\ DOMAIN audio = 1..Len(audio) /\ Len(audio) \in Nat
      /\ src.beside \in Seq(STRING) /\ Len(src.beside) \in Nat
  BY DEF Inspected, Source
<1>2. stream = IF audio = <<>> THEN None
               ELSE audio[IF named # 0 THEN named ELSE IF default # 0 THEN default ELSE 1]
  BY DEF SelectedAudio, SelectInSeq
<1>3. Named # {} => named \in Named
  <2>1. Named \in SUBSET Nat
    OBVIOUS
  <2> HIDE DEF Named
  <2> QED BY <2>1, MinOfNumbers
<1>4. Default # {} => default \in Default
  <2>1. Default \in SUBSET Nat
    OBVIOUS
  <2> HIDE DEF Default
  <2> QED BY <2>1, MinOfNumbers
<1>5. SUFFICES ASSUME audio # <<>>
               PROVE  /\ \E i \in DOMAIN audio : stream = audio[i]
                      /\ stream \in AudioStream /\ stream # None
                      /\ stream.values["AudioBitrate"] # 0
                      /\ \A i \in DOMAIN audio :
                           Index(src, audio[i]) = index => stream = audio[i]
  BY <1>2
<1>6. Len(audio) >= 1
  BY <1>1, <1>5
<1>7. PICK i \in DOMAIN audio : stream = audio[i] /\ (Named # {} => i \in Named)
  <2>1. CASE Named # {}
    <3>1. named \in 1..Len(audio)
      BY <1>3, <2>1
    <3> HIDE DEF named, Named, default
    <3> QED BY <1>1, <1>2, <1>3, <1>5, <2>1, <3>1
  <2>2. CASE Named = {} /\ Default # {}
    <3>1. default \in 1..Len(audio) /\ named = 0
      BY <1>4, <2>2
    <3> HIDE DEF named, Named, default
    <3> QED BY <1>1, <1>2, <1>5, <2>2, <3>1
  <2>3. CASE Named = {} /\ Default = {}
    <3>1. default = 0 /\ named = 0
      BY <2>3
    <3> HIDE DEF named, Named, default
    <3> QED BY <1>1, <1>2, <1>5, <1>6, <2>3, <3>1
  <2> QED BY <2>1, <2>2, <2>3
<1>8. stream \in AudioStream /\ stream # None
  BY <1>1, <1>7, NoneAssumption
<1>9. stream.values["AudioBitrate"] # 0
  <2>1. audio[i].values["AudioBitrate"] # 0
    BY DEF Inspected
  <2> HIDE DEF stream
  <2> QED BY <1>7, <2>1
<1>10. ASSUME NEW j \in DOMAIN audio, Index(src, audio[j]) = index
       PROVE  stream = audio[j]
  <2>1. j \in Named
    BY <1>1, <1>10
  <2>2. Index(src, audio[i]) = index
    BY <1>7, <2>1
  <2>3. audio[i].at \in Int /\ audio[j].at \in Int
    <3>1. audio[i] \in AudioStream /\ audio[j] \in AudioStream
      BY <1>1
    <3> QED BY <3>1 DEF AudioStream
  <2>4. audio[i].at = audio[j].at
    BY <1>1, <1>10, <2>2, <2>3 DEF Index
  <2> QED BY <1>7, <2>4 DEF Inspected
<1> HIDE DEF stream
<1> QED BY <1>7, <1>8, <1>9, <1>10

\* The streams a request is about.
LEMMA StreamsAreInspected ==
  ASSUME NEW src, Inspected(src), NEW a
  PROVE  /\ VideoOf(src, a) \in VideoStream \cup {None}
         /\ AudioOf(src, a) \in AudioStream \cup {None}
         /\ AudioOf(src, a) # None <=> src.audio # <<>>
         /\ AudioOf(src, a) # None => AudioOf(src, a).values["AudioBitrate"] # 0
<1>1. VideoOf(src, a) \in VideoStream \cup {None}
  BY DEF VideoOf, Inspected, Source
<1>2. /\ src.audio = <<>> => AudioOf(src, a) = None
      /\ src.audio # <<>> => /\ AudioOf(src, a) \in AudioStream /\ AudioOf(src, a) # None
                             /\ AudioOf(src, a).values["AudioBitrate"] # 0
  BY SelectedAudioIsOne DEF AudioOf
<1> QED BY <1>1, <1>2, NoneAssumption

\* What a stream measures has the type of what it reports.
LEMMA ValuesAreValues ==
  ASSUME NEW src, Inspected(src), NEW properties, NEW stream,
         stream.values \in [properties -> Value]
  PROVE  /\ Values(src, stream) \in [properties -> Value]
         /\ \A p \in properties :
              /\ p \notin {"VideoBitrate", "AudioBitrate"} =>
                   Values(src, stream)[p] = stream.values[p]
              /\ p \in {"VideoBitrate", "AudioBitrate"} =>
                   Values(src, stream)[p] = Or(stream.values[p], src.bitrate)
              /\ stream.values[p] \notin {None, 0} => Values(src, stream)[p] = stream.values[p]
<1>1. src.bitrate \in Value
  BY DEF Inspected, Source
<1> QED BY <1>1 DEF Values, Or

\* Clamping takes the lower of what is known.
LEMMA ClampedIsLeast ==
  ASSUME NEW limit \in Value, NEW value \in Value
  PROVE  /\ Clamped(limit, value) \in Value
         /\ Clamped(limit, value) \in {limit, value}
         /\ limit # None => Clamped(limit, value) \in Int /\ Clamped(limit, value) <= limit
         /\ value # None => Clamped(limit, value) \in Int /\ Clamped(limit, value) <= value
BY NoneAssumption DEF Clamped, Value

\* What `or` yields, and a cap on top of it, is a value.
LEMMA OrIsOne ==
  ASSUME NEW a \in Value, NEW b \in Value
  PROVE  Or(a, b) \in Value /\ (a \notin {None, 0} => Or(a, b) = a)
BY DEF Or, Value

\* A capped limit is a value.
LEMMA CappedIsValue ==
  ASSUME NEW limit \in Value, NEW cap \in Value
  PROVE  Capped(limit, cap) \in Value
<1>1. CASE cap = None
  BY <1>1 DEF Capped
<1>2. CASE cap # None
  <2>1. Or(limit, cap) \in Value
    BY OrIsOne
  <2>2. Clamped(Or(limit, cap), cap) \in Value
    BY <2>1, ClampedIsLeast
  <2> QED BY <1>2, <2>2 DEF Capped
<1> QED BY <1>1, <1>2

\* The parts of a request that says something of its client.
LEMMA RequestHasParts ==
  ASSUME NEW a, WellFormed(a), a.profile # None
  PROVE  /\ a.video \in BOOLEAN /\ a.direct \in BOOLEAN /\ a.copyVideo \in BOOLEAN
         /\ a.copyAudio \in BOOLEAN /\ a.cap \in Value /\ a.channels \in Value
         /\ a.audio \in Value /\ a.subtitle \in Value
         /\ Finite(a.profile) /\ a.profile \in DeviceProfile
         /\ a.profile.cap \in Value /\ a.profile.targets \in Seq(TranscodingProfile)
         /\ a.profile.direct \in Seq(DirectPlayProfile)
         /\ a.profile.subtitles \in Seq(SubtitleProfile)
         /\ a.profile.codecs \subseteq CodecProfile
         /\ Cap(a) \in Value
<1>1. /\ a.video \in BOOLEAN /\ a.direct \in BOOLEAN /\ a.copyVideo \in BOOLEAN
      /\ a.copyAudio \in BOOLEAN /\ a.cap \in Value /\ a.channels \in Value
      /\ a.audio \in Value /\ a.subtitle \in Value /\ a.profile \in DeviceProfile
  BY DEF WellFormed, Request
<1>2. Finite(a.profile)
  BY <1>1 DEF WellFormed, Finite
<1>3. /\ a.profile.cap \in Value /\ a.profile.targets \in Seq(TranscodingProfile)
      /\ a.profile.direct \in Seq(DirectPlayProfile)
      /\ a.profile.subtitles \in Seq(SubtitleProfile)
      /\ a.profile.codecs \subseteq CodecProfile
  BY <1>1 DEF DeviceProfile
<1>4. Cap(a) \in Value
  BY <1>1, <1>3, OrIsOne DEF Cap
<1> QED BY <1>1, <1>2, <1>3, <1>4

\* The parts of a target and of a stream.
LEMMA TargetHasParts ==
  ASSUME NEW target \in TranscodingProfile
  PROVE  /\ target.video \in BOOLEAN /\ target.container \in STRING
         /\ target.protocol \in STRING /\ target.videoCodecs \in Seq(STRING)
         /\ target.audioCodecs \in Seq(STRING) /\ target # None
BY NoneAssumption DEF TranscodingProfile

\* And of a stream.
LEMMA StreamHasParts ==
  ASSUME NEW stream
  PROVE  /\ stream \in VideoStream =>
              /\ stream.codec \in STRING /\ stream.at \in Int
              /\ stream.values \in [VideoProperties -> Value]
         /\ stream \in AudioStream =>
              /\ stream.codec \in STRING /\ stream.at \in Int
              /\ stream.values \in [AudioProperties -> Value]
BY DEF VideoStream, AudioStream

\* A stream's index is a number.
LEMMA IndexIsANumber ==
  ASSUME NEW src, Inspected(src), NEW stream, stream.at \in Int
  PROVE  Index(src, stream) \in Int
<1>1. Len(src.beside) \in Nat
  BY DEF Inspected, Source
<1> QED BY <1>1 DEF Index

\* The plan for a video: what it copies fits, what it encodes is within every limit.
LEMMA VideoPlan ==
  ASSUME NEW src, Inspected(src), NEW a, WellFormed(a), a.profile # None,
         NEW target \in TranscodingProfile, Producible(src, a, target),
         VideoOf(src, a) # None
  PROVE  LET plan == PlanVideo(src, a, target)
             values == Values(src, src.video)
             names == {target.container}
             Limit(p) == Ceiling(a.profile, "Video", plan.codec, names, p)
         IN /\ plan \in StreamPlan(VideoProperties) /\ plan # None
            /\ VideoOf(src, a) = src.video /\ src.video \in VideoStream
            /\ plan.index = Index(src, src.video)
            /\ plan.codec \in ToSet(target.videoCodecs)
            /\ plan.does = "copy" =>
                 plan.codec = src.video.codec /\ plan.out = src.video.values
            /\ plan.does = "encode" =>
                 /\ plan.out["Height"] = Clamped(Limit("Height"), values["Height"])
                 /\ plan.out["VideoBitrate"] =
                      Clamped(Capped(Limit("VideoBitrate"), Cap(a)), values["VideoBitrate"])
            /\ plan.does = "copy" <=>
                 /\ a.copyVideo /\ src.video.codec \in ToSet(target.videoCodecs)
                 /\ Failures(a.profile, "Video", src.video.codec, names, values) = {}
                 /\ WithinCap(src, Cap(a))
<1> DEFINE stream == src.video
           values == Values(src, stream)
           names == {target.container}
           copied == /\ a.copyVideo
                     /\ stream.codec \in ToSet(target.videoCodecs)
                     /\ Failures(a.profile, "Video", stream.codec, names, values) = {}
                     /\ WithinCap(src, Cap(a))
           codec == IF copied THEN stream.codec ELSE Head(target.videoCodecs)
           Limit(p) == Ceiling(a.profile, "Video", codec, names, p)
           planned == [p \in DOMAIN values |->
                         IF p = "VideoBitrate"
                         THEN Clamped(Capped(Limit(p), Cap(a)), values[p])
                         ELSE IF p \in {"Height", "VideoBitDepth"}
                         THEN Clamped(Limit(p), values[p])
                         ELSE IF p = "VideoLevel" THEN None
                         ELSE values[p]]
           plan == PlanVideo(src, a, target)
<1>1. plan = [index |-> Index(src, stream),
              does  |-> IF copied THEN "copy" ELSE "encode",
              codec |-> codec,
              out   |-> IF copied THEN stream.values ELSE planned]
  BY DEF PlanVideo, Plan
<1>2. stream = VideoOf(src, a) /\ stream \in VideoStream
  BY StreamsAreInspected DEF VideoOf
<1>3. /\ stream.codec \in STRING /\ stream.at \in Int
      /\ stream.values \in [VideoProperties -> Value]
  BY <1>2, StreamHasParts
<1>4. values \in [VideoProperties -> Value]
  BY <1>3, ValuesAreValues
<1>5. target.videoCodecs \in Seq(STRING) /\ target.videoCodecs # <<>>
  BY TargetHasParts DEF Producible
<1>6. Head(target.videoCodecs) \in STRING
      /\ Head(target.videoCodecs) \in ToSet(target.videoCodecs)
  BY <1>5 DEF ToSet
<1>7. codec \in STRING /\ codec \in ToSet(target.videoCodecs)
  BY <1>3, <1>6
<1>8. Cap(a) \in Value /\ Finite(a.profile)
  BY RequestHasParts
<1> HIDE DEF values, copied, codec
<1>9. \A p : Limit(p) \in Value /\ Capped(Limit(p), Cap(a)) \in Value
  <2>1. \A p : Limit(p) \in Value
    BY <1>8, CeilingIsTheLeast
  <2> HIDE DEF Limit
  <2> QED BY <1>8, <2>1, CappedIsValue
<1>10. planned \in [VideoProperties -> Value]
  <2>1. None \in Value
    BY DEF Value
  <2>2. ASSUME NEW p \in VideoProperties PROVE planned[p] \in Value
    <3>1. values[p] \in Value /\ Limit(p) \in Value /\ Capped(Limit(p), Cap(a)) \in Value
      BY <1>4, <1>9
    <3>2. /\ Clamped(Limit(p), values[p]) \in Value
          /\ Clamped(Capped(Limit(p), Cap(a)), values[p]) \in Value
      <4> HIDE DEF Limit
      <4> QED BY <3>1, ClampedIsLeast
    <3> HIDE DEF Limit
    <3> QED BY <1>4, <2>1, <3>1, <3>2
  <2>3. DOMAIN planned = VideoProperties /\ planned = [p \in VideoProperties |-> planned[p]]
    BY <1>4
  <2> HIDE DEF planned
  <2> QED BY <2>2, <2>3
<1>11. /\ planned["Height"] = Clamped(Limit("Height"), values["Height"])
       /\ planned["VideoBitrate"] =
            Clamped(Capped(Limit("VideoBitrate"), Cap(a)), values["VideoBitrate"])
  BY <1>4 DEF VideoProperties
<1>12. Index(src, stream) \in Int
  BY <1>3, IndexIsANumber
<1> HIDE DEF planned
<1>13. plan \in StreamPlan(VideoProperties)
  BY <1>1, <1>3, <1>7, <1>10, <1>12 DEF StreamPlan
<1>14. plan # None
  BY <1>13, NoneAssumption
<1>15. /\ plan.index = Index(src, stream) /\ plan.codec = codec
       /\ copied => plan.does = "copy" /\ plan.out = stream.values /\ codec = stream.codec
       /\ ~copied => plan.does = "encode" /\ plan.out = planned
  <2>1. copied => codec = stream.codec
    BY DEF codec
  <2> QED BY <1>1, <2>1
<1>16. plan.does = "copy" <=>
         /\ a.copyVideo /\ stream.codec \in ToSet(target.videoCodecs)
         /\ Failures(a.profile, "Video", stream.codec, names, values) = {}
         /\ WithinCap(src, Cap(a))
  BY <1>15 DEF copied
<1>17. plan.does = "encode" =>
         /\ plan.out["Height"] =
              Clamped(Ceiling(a.profile, "Video", plan.codec, names, "Height"),
                      values["Height"])
         /\ plan.out["VideoBitrate"] =
              Clamped(Capped(Ceiling(a.profile, "Video", plan.codec, names, "VideoBitrate"),
                             Cap(a)), values["VideoBitrate"])
  BY <1>11, <1>15
<1>18. plan.does = "copy" => plan.codec = stream.codec /\ plan.out = stream.values
  BY <1>15
<1>19. plan.codec \in ToSet(target.videoCodecs)
  BY <1>7, <1>15
<1> HIDE DEF plan, Limit
<1> QED BY <1>2, <1>13, <1>14, <1>15, <1>16, <1>17, <1>18, <1>19 DEF plan, values

\* The first of some places in a sequence, zero if there are none (`SelectInSeq`).
LEMMA FirstOf ==
  ASSUME NEW n \in Nat, NEW S \in SUBSET (1..n)
  PROVE  LET first == IF S # {} THEN Min(S) ELSE 0
         IN /\ first \in 0..n
            /\ first = 0 <=> S = {}
            /\ S # {} => first \in S /\ \A i \in S : first <= i
<1>1. S \in SUBSET Nat /\ \A i \in S : i >= 1 /\ i <= n
  OBVIOUS
<1>2. S # {} => Min(S) \in S /\ \A i \in S : Min(S) <= i
  BY <1>1, MinOfNumbers
<1>3. CASE S = {}
  BY <1>3
<1>4. CASE S # {}
  <2> DEFINE least == Min(S)
  <2>1. least \in S /\ (\A i \in S : least <= i) /\ least \in 1..n
    BY <1>2, <1>4
  <2> HIDE DEF least
  <2>2. least \in 0..n /\ least # 0
    BY <2>1
  <2> QED BY <1>4, <2>1, <2>2 DEF least
<1> QED BY <1>3, <1>4

\* The plan for the sound: what it copies fits, what it encodes is within every limit.
LEMMA AudioPlan ==
  ASSUME NEW src, Inspected(src), NEW a, WellFormed(a), a.profile # None,
         NEW target \in TranscodingProfile, Producible(src, a, target),
         AudioOf(src, a) # None
  PROVE  LET stream == AudioOf(src, a)
             plan == PlanAudio(src, a, stream, target)
             values == Values(src, stream)
             names == {target.container}
             Limit(p) == Ceiling(a.profile, AudioKind(a), plan.codec, names, p)
         IN /\ plan \in StreamPlan(AudioProperties) /\ plan # None
            /\ stream \in AudioStream
            /\ plan.index = Index(src, stream)
            /\ plan.codec \in ToSet(target.audioCodecs)
            /\ plan.does = "copy" => plan.codec = stream.codec /\ plan.out = stream.values
            /\ plan.does = "encode" =>
                 /\ plan.out["AudioBitrate"] =
                      Clamped(Limit("AudioBitrate"), stream.values["AudioBitrate"])
                 /\ plan.out["AudioSampleRate"] =
                      Clamped(Limit("AudioSampleRate"), stream.values["AudioSampleRate"])
            /\ plan.does = "copy" <=>
                 /\ a.copyAudio /\ stream.codec \in ToSet(target.audioCodecs)
                 /\ Failures(a.profile, AudioKind(a), stream.codec, names, values) = {}
<1> DEFINE stream == AudioOf(src, a)
           values == Values(src, stream)
           names == {target.container}
           codecs == target.audioCodecs
           kind == AudioKind(a)
           copied == /\ a.copyAudio
                     /\ stream.codec \in ToSet(codecs)
                     /\ Failures(a.profile, kind, stream.codec, names, values) = {}
           Met == {i \in 1..Len(codecs) :
                     Failures(a.profile, kind, codecs[i], names, values) = {}}
           met == IF Met # {} THEN Min(Met) ELSE 0
           codec == IF copied THEN stream.codec ELSE codecs[IF met = 0 THEN 1 ELSE met]
           Limit(p) == Ceiling(a.profile, kind, codec, names, p)
           planned == [p \in DOMAIN values |->
                         Clamped(IF p = "AudioChannels" THEN Capped(Limit(p), a.channels)
                                 ELSE Limit(p),
                                 stream.values[p])]
           plan == PlanAudio(src, a, stream, target)
<1>1. plan = [index |-> Index(src, stream),
              does  |-> IF copied THEN "copy" ELSE "encode",
              codec |-> codec,
              out   |-> IF copied THEN stream.values ELSE planned]
  BY DEF PlanAudio, Plan, SelectInSeq
<1>2. stream \in AudioStream
  BY StreamsAreInspected
<1> HIDE DEF stream
<1>3. /\ stream.codec \in STRING /\ stream.at \in Int
      /\ stream.values \in [AudioProperties -> Value]
  BY <1>2, StreamHasParts
<1>4. values \in [AudioProperties -> Value]
  BY <1>3, ValuesAreValues
<1>5. codecs \in Seq(STRING) /\ codecs # <<>>
  BY TargetHasParts DEF Producible, stream
<1>6. met \in 0..Len(codecs)
  <2>1. Met \in SUBSET (1..Len(codecs))
    OBVIOUS
  <2>2. Len(codecs) \in Nat
    BY <1>5
  <2> HIDE DEF Met, codecs
  <2> QED BY <2>1, <2>2, FirstOf
<1> HIDE DEF met
<1>7. codec \in STRING /\ codec \in ToSet(codecs)
  <2>1. (IF met = 0 THEN 1 ELSE met) \in 1..Len(codecs)
    BY <1>5, <1>6
  <2>2. codecs[IF met = 0 THEN 1 ELSE met] \in ToSet(codecs) \cap STRING
    BY <1>5, <2>1 DEF ToSet
  <2> QED BY <1>3, <2>2
<1>8. a.channels \in Value /\ Finite(a.profile)
  BY RequestHasParts
<1> HIDE DEF values, copied, codec, kind
<1>9. \A p : Limit(p) \in Value /\ Capped(Limit(p), a.channels) \in Value
  <2>1. \A p : Limit(p) \in Value
    BY <1>8, CeilingIsTheLeast
  <2> HIDE DEF Limit
  <2> QED BY <1>8, <2>1, CappedIsValue
<1>10. planned \in [AudioProperties -> Value]
  <2>1. ASSUME NEW p \in AudioProperties PROVE planned[p] \in Value
    <3>1. /\ stream.values[p] \in Value /\ Limit(p) \in Value
          /\ Capped(Limit(p), a.channels) \in Value
      BY <1>3, <1>9
    <3>2. /\ Clamped(Limit(p), stream.values[p]) \in Value
          /\ Clamped(Capped(Limit(p), a.channels), stream.values[p]) \in Value
      <4> HIDE DEF Limit
      <4> QED BY <3>1, ClampedIsLeast
    <3>3. \/ planned[p] = Clamped(Limit(p), stream.values[p])
          \/ planned[p] = Clamped(Capped(Limit(p), a.channels), stream.values[p])
      <4> HIDE DEF Limit
      <4>1. CASE p = "AudioChannels"
        BY <1>4, <4>1
      <4>2. CASE p # "AudioChannels"
        BY <1>4, <4>2
      <4> QED BY <4>1, <4>2
    <3> HIDE DEF Limit, planned
    <3> QED BY <3>2, <3>3
  <2>2. DOMAIN planned = AudioProperties /\ planned = [p \in AudioProperties |-> planned[p]]
    BY <1>4
  <2> HIDE DEF planned
  <2> QED BY <2>1, <2>2
<1>11. /\ planned["AudioBitrate"] =
            Clamped(Limit("AudioBitrate"), stream.values["AudioBitrate"])
       /\ planned["AudioSampleRate"] =
            Clamped(Limit("AudioSampleRate"), stream.values["AudioSampleRate"])
  BY <1>4 DEF AudioProperties
<1>12. Index(src, stream) \in Int
  BY <1>3, IndexIsANumber
<1> HIDE DEF planned
<1>13. plan \in StreamPlan(AudioProperties)
  BY <1>1, <1>3, <1>7, <1>10, <1>12 DEF StreamPlan
<1>14. plan # None
  BY <1>13, NoneAssumption
<1>15. /\ plan.index = Index(src, stream) /\ plan.codec = codec
       /\ copied => plan.does = "copy" /\ plan.out = stream.values /\ codec = stream.codec
       /\ ~copied => plan.does = "encode" /\ plan.out = planned
  <2>1. copied => codec = stream.codec
    BY DEF codec
  <2> QED BY <1>1, <2>1
<1>16. plan.does = "copy" <=>
         /\ a.copyAudio /\ stream.codec \in ToSet(target.audioCodecs)
         /\ Failures(a.profile, kind, stream.codec, names, values) = {}
  BY <1>15 DEF copied
<1>17. plan.does = "encode" =>
         /\ plan.out["AudioBitrate"] =
              Clamped(Ceiling(a.profile, kind, plan.codec, names, "AudioBitrate"),
                      stream.values["AudioBitrate"])
         /\ plan.out["AudioSampleRate"] =
              Clamped(Ceiling(a.profile, kind, plan.codec, names, "AudioSampleRate"),
                      stream.values["AudioSampleRate"])
  BY <1>11, <1>15
<1>18. plan.does = "copy" => plan.codec = stream.codec /\ plan.out = stream.values
  BY <1>15
<1>19. plan.codec \in ToSet(target.audioCodecs)
  BY <1>7, <1>15
<1> HIDE DEF plan, Limit
<1> QED BY <1>2, <1>13, <1>14, <1>15, <1>16, <1>17, <1>18, <1>19 DEF plan, values, stream, kind

\* A subtitle track.
Track == [codec: STRING, index: Nat, external: BOOLEAN]

\* What a file's subtitle streams and the files beside it are listed as.
LEMMA TracksAreTracks ==
  ASSUME NEW src, Inspected(src)
  PROVE  /\ Tracks(src) \in Seq(Track)
         /\ DOMAIN Tracks(src) = 1..Len(Tracks(src)) /\ Len(Tracks(src)) \in Nat
<1> DEFINE first == [i \in DOMAIN src.beside |->
                       [codec |-> src.beside[i], index |-> i - 1, external |-> TRUE]]
           second == [i \in DOMAIN src.subtitles |->
                        [codec |-> src.subtitles[i].codec, external |-> FALSE,
                         index |-> Index(src, src.subtitles[i])]]
<1>1. src.beside \in Seq(STRING) /\ src.subtitles \in Seq([codec: STRING, at: Nat])
  BY DEF Inspected, Source
<1> DEFINE Embedded == [codec: STRING, at: Nat]
<1>2. first \in Seq(Track)
  <2>1. \A i \in 1..Len(src.beside) :
          [codec |-> src.beside[i], index |-> i - 1, external |-> TRUE] \in Track
    BY <1>1 DEF Track
  <2>2. first \in [1..Len(src.beside) -> Track]
    BY <1>1, <2>1
  <2> HIDE DEF first
  <2> QED BY <1>1, <2>2
<1>3. second \in Seq(Track)
  <2>1. ASSUME NEW i \in 1..Len(src.subtitles)
        PROVE  [codec |-> src.subtitles[i].codec, external |-> FALSE,
                index |-> Index(src, src.subtitles[i])] \in Track
    <3>1. src.subtitles[i] \in Embedded
      <4>1. src.subtitles \in Seq(Embedded)
        BY <1>1
      <4> HIDE DEF Embedded
      <4> QED BY <4>1
    <3>2. src.subtitles[i].codec \in STRING /\ src.subtitles[i].at \in Nat
      BY <3>1
    <3>3. Index(src, src.subtitles[i]) \in Nat
      BY <1>1, <3>2 DEF Index
    <3> QED BY <3>2, <3>3 DEF Track
  <2>2. second \in [1..Len(src.subtitles) -> Track]
    BY <1>1, <2>1
  <2>3. Len(src.subtitles) \in Nat
    BY <1>1
  <2> HIDE DEF second
  <2> QED BY <2>2, <2>3
<1>4. Tracks(src) = first \o second
  BY DEF Tracks
<1> HIDE DEF first, second
<1>5. Tracks(src) \in Seq(Track)
  BY <1>2, <1>3, <1>4
<1> QED BY <1>5

\* How a track is shown is one of the client's methods or an encode; only text is shown in
\* a manifest.
LEMMA MethodIsAName ==
  ASSUME NEW profile \in DeviceProfile, NEW track, NEW transcoding, NEW names, NEW protocol
  PROVE  /\ Method(profile, track, transcoding, names, protocol) \in SubtitleMethod
         /\ Method(profile, track, transcoding, names, protocol) = "Hls" => Text(track.codec)
<1> DEFINE entries == profile.subtitles
           Passes(k, e) ==
             IF k <= 2
             THEN /\ ~track.external /\ ~(transcoding /\ protocol = "hls")
                  /\ Embeds(e, track, transcoding, names, k = 2)
             ELSE Serves(e, track, transcoding, k = 4)
           fitting == {k \in 1..4 : \E i \in DOMAIN entries : Passes(k, entries[i])}
           Chosen == {i \in 1..Len(entries) : Passes(Min(fitting), entries[i])}
           method == Method(profile, track, transcoding, names, protocol)
<1>1. method = IF fitting = {} THEN "Encode"
               ELSE entries[IF Chosen # {} THEN Min(Chosen) ELSE 0].method
  BY DEF Method, SelectInSeq
<1>2. entries \in Seq(SubtitleProfile)
  BY DEF DeviceProfile
<1> HIDE DEF method
<1>3. ASSUME fitting = {}
      PROVE  method \in SubtitleMethod /\ (method = "Hls" => Text(track.codec))
  <2> HIDE DEF fitting, Chosen
  <2>1. method = "Encode"
    BY <1>1, <1>3
  <2>2. method \in SubtitleMethod /\ method # "Hls"
    BY <2>1 DEF SubtitleMethod
  <2> QED BY <2>2
<1>4. ASSUME fitting # {}
      PROVE  method \in SubtitleMethod /\ (method = "Hls" => Text(track.codec))
  <2> DEFINE m == Min(fitting)
             Fits == {i \in 1..Len(entries) : Passes(m, entries[i])}
  <2>1. m \in fitting
    <3>1. fitting \in SUBSET Nat
      <4>1. 1..4 \subseteq Nat
        OBVIOUS
      <4>2. fitting \subseteq 1..4
        OBVIOUS
      <4> HIDE DEF fitting
      <4> QED BY <4>1, <4>2
    <3> HIDE DEF fitting
    <3> QED BY <1>4, <3>1, MinOfNumbers
  <2>2. method = entries[IF Fits # {} THEN Min(Fits) ELSE 0].method
    BY <1>1, <1>4
  <2> HIDE DEF m
  <2>3. \E i \in DOMAIN entries : Passes(m, entries[i])
    BY <2>1, Zenon
  <2> HIDE DEF Passes
  <2>4. Fits # {} /\ Fits \in SUBSET Nat
    BY <1>2, <2>3
  <2>5. Min(Fits) \in Fits
    <3> HIDE DEF Fits
    <3> QED BY <2>4, MinOfNumbers
  <2>6. PICK i \in 1..Len(entries) : method = entries[i].method /\ Passes(m, entries[i])
    BY <2>2, <2>4, <2>5
  <2>7. entries[i] \in SubtitleProfile
    BY <1>2
  <2>8. method \in SubtitleMethod
    BY <2>6, <2>7 DEF SubtitleProfile
  <2>9. \/ Embeds(entries[i], track, transcoding, names, m = 2)
        \/ Serves(entries[i], track, transcoding, m = 4)
    BY <2>6, Zenon DEF Passes
  <2>10. CASE Embeds(entries[i], track, transcoding, names, m = 2)
    <3>1. entries[i].method = "Embed"
      BY <2>10 DEF Embeds
    <3> QED BY <2>6, <2>8, <3>1
  <2>11. CASE Serves(entries[i], track, transcoding, m = 4)
    <3>1. entries[i].method = "Hls" => Text(track.codec)
      BY <2>11 DEF Serves
    <3> QED BY <2>6, <2>8, <3>1
  <2> QED BY <2>9, <2>10, <2>11
<1> QED BY <1>3, <1>4 DEF method

\* And so is each of what a decision shows.
LEMMA ShownAreNames ==
  ASSUME NEW src, Inspected(src), NEW a, WellFormed(a), a.profile # None,
         NEW transcoding, NEW names, NEW protocol
  PROVE  LET shown == Shown(src, a, transcoding, names, protocol)
         IN /\ shown \in Seq(SubtitleMethod)
            /\ DOMAIN shown = DOMAIN Tracks(src)
            /\ \A i \in DOMAIN Tracks(src) : shown[i] = "Hls" => Text(Tracks(src)[i].codec)
<1> DEFINE tracks == Tracks(src)
           shown == Shown(src, a, transcoding, names, protocol)
<1>1. shown = [i \in DOMAIN tracks |->
                 Method(a.profile, tracks[i], transcoding, names, protocol)]
  BY DEF Shown
<1>2. DOMAIN tracks = 1..Len(tracks) /\ Len(tracks) \in Nat
  BY TracksAreTracks
<1>3. a.profile \in DeviceProfile
  BY RequestHasParts
<1>4. \A i \in DOMAIN tracks : /\ shown[i] \in SubtitleMethod
                               /\ shown[i] = "Hls" => Text(tracks[i].codec)
  BY <1>1, <1>3, MethodIsAName
<1>5. DOMAIN shown = DOMAIN tracks /\ shown = [i \in DOMAIN tracks |-> shown[i]]
  BY <1>1
<1> HIDE DEF shown, tracks
<1>6. shown \in [1..Len(tracks) -> SubtitleMethod]
  BY <1>2, <1>4, <1>5
<1>7. shown \in Seq(SubtitleMethod)
  BY <1>2, <1>6
<1> QED BY <1>4, <1>5, <1>7 DEF shown, tracks

----------------------------------------------------------------------------
(* The ladder.                                                             *)
\* How many streams of a file are encoded in a target.
WorkOf(src, a, target) == Cardinality(Encoded(Plans(src, a, target)))

\* At most two streams are encoded.
LEMMA WorkIsSmall ==
  ASSUME NEW src, NEW a, NEW target
  PROVE  /\ WorkOf(src, a, target) \in Nat /\ WorkOf(src, a, target) <= 2
         /\ IsFiniteSet(Encoded(Plans(src, a, target)))
<1> DEFINE streams == {"video", "audio"}
<1>1. IsFiniteSet({"video"}) /\ Cardinality({"video"}) = 1
  BY FS_Singleton
<1>2. IsFiniteSet({"video"} \cup {"audio"}) /\ Cardinality({"video"} \cup {"audio"}) = 2
  BY <1>1, FS_AddElement
<1>3. streams = {"video"} \cup {"audio"}
  OBVIOUS
<1>4. Encoded(Plans(src, a, target)) \in SUBSET streams
  BY DEF Encoded, Plans
<1>5. IsFiniteSet(streams) /\ Cardinality(streams) = 2
  BY <1>2, <1>3
<1> HIDE DEF streams
<1>6. /\ IsFiniteSet(Encoded(Plans(src, a, target)))
      /\ Cardinality(Encoded(Plans(src, a, target))) <= 2
  BY <1>4, <1>5, FS_Subset
<1>7. Cardinality(Encoded(Plans(src, a, target))) \in Nat
  BY <1>6, FS_CardinalityType
<1> QED BY <1>6, <1>7 DEF WorkOf

\* The target chosen can hold the streams, with the least work of those that can.
LEMMA TargetIsTheLeastWork ==
  ASSUME NEW src, NEW a, WellFormed(a), a.profile # None
  PROVE  LET targets == a.profile.targets
             t == Target(src, a)
             Work(i) == WorkOf(src, a, targets[i])
         IN /\ t = 0 <=> \A i \in DOMAIN targets : ~Producible(src, a, targets[i])
            /\ t # 0 =>
                 /\ t \in DOMAIN targets /\ Producible(src, a, targets[t])
                 /\ \A i \in DOMAIN targets :
                      Producible(src, a, targets[i]) => Work(t) <= Work(i)
<1> DEFINE targets == a.profile.targets
           t == Target(src, a)
           Work(i) == WorkOf(src, a, targets[i])
           open == {i \in DOMAIN targets : Producible(src, a, targets[i])}
           work == [i \in open |-> Work(i)]
           least == {i \in open : \A j \in open : work[i] <= work[j]}
<1>1. t = IF open = {} THEN 0 ELSE Min(least)
  BY DEF Target, WorkOf
<1>2. open \subseteq Nat \ {0}
  BY RequestHasParts
<1>3. \A i \in open : work[i] \in Nat /\ work[i] = Work(i)
  BY WorkIsSmall
<1> HIDE DEF t, Work, work
<1>4. CASE open = {}
  <2>1. t = 0
    BY <1>1, <1>4
  <2> QED BY <1>4, <2>1 DEF t, Work
<1>5. CASE open # {}
  <2> DEFINE amounts == {work[i] : i \in open}
  <2>1. amounts \in SUBSET Nat /\ amounts # {}
    BY <1>3, <1>5
  <2>2. PICK m \in amounts : \A n \in amounts : m <= n
    <3> HIDE DEF amounts
    <3> QED BY <2>1, LeastNumber
  <2>3. PICK i \in open : work[i] = m
    BY <2>2
  <2>4. i \in least
    BY <2>2, <2>3
  <2>5. Min(least) \in least
    <3>1. least \in SUBSET Nat /\ least # {}
      BY <1>2, <2>4
    <3> HIDE DEF least
    <3> QED BY <3>1, MinOfNumbers
  <2>6. t \in least
    BY <1>1, <1>5, <2>5
  <2>7. t \in open /\ t # 0 /\ \A j \in open : Work(t) <= Work(j)
    BY <1>2, <1>3, <2>6
  <2> QED BY <2>7 DEF t, Work
<1> QED BY <1>4, <1>5

\* A file is played as it is if nothing refuses it and an entry opens it.
Refused(src, a) ==
  LET names == ToSet(src.container)
      unshown(t) == Method(a.profile, t, FALSE, names, None) \notin {"External", "Embed"}
  IN \/ \E t \in ToSet(SelectedTracks(src, a)) : unshown(t)
     \/ Broken(src, a, names) # {}
     \/ ~WithinCap(src, Cap(a))

\* The entry is one of the client's, and there is one unless the file is refused.
LEMMA DirectEntryOpens ==
  ASSUME NEW src, NEW a, a.profile.direct \in Seq(DirectPlayProfile)
  PROVE  LET direct == a.profile.direct
         IN /\ DirectEntry(src, a) # 0 => DirectEntry(src, a) \in DOMAIN direct
            /\ DirectEntry(src, a) # 0 <=>
                 ~Refused(src, a) /\ \E i \in DOMAIN direct : Opens(src, a, direct[i])
<1> DEFINE direct == a.profile.direct
           Open == {i \in 1..Len(direct) : Opens(src, a, direct[i])}
<1>1. DirectEntry(src, a) = IF Refused(src, a) THEN 0
                            ELSE IF Open # {} THEN Min(Open) ELSE 0
  BY DEF DirectEntry, Refused, SelectInSeq
<1>2. Len(direct) \in Nat /\ DOMAIN direct = 1..Len(direct)
  OBVIOUS
<1>3. /\ Open # {} => Min(Open) \in DOMAIN direct /\ Min(Open) # 0
      /\ Open # {} <=> \E i \in DOMAIN direct : Opens(src, a, direct[i])
  <2>1. Open \in SUBSET (1..Len(direct))
    OBVIOUS
  <2>2. Open # {} <=> \E i \in DOMAIN direct : Opens(src, a, direct[i])
    BY <1>2
  <2> HIDE DEF Open, direct
  <2>3. Open # {} => Min(Open) \in 1..Len(direct)
    BY <1>2, <2>1, FirstOf
  <2>4. Open # {} => Min(Open) # 0
    BY <1>2, <2>3
  <2> QED BY <1>2, <2>2, <2>3, <2>4
<1> HIDE DEF Open, direct
<1> QED BY <1>1, <1>3 DEF direct

\* What is done to the streams of a file in a target that can hold them.
LEMMA PlansAreTyped ==
  ASSUME NEW src, Inspected(src), NEW a, WellFormed(a), a.profile # None,
         NEW target \in TranscodingProfile, Producible(src, a, target)
  PROVE  LET plans == Plans(src, a, target)
         IN /\ plans \in [video: StreamPlan(VideoProperties) \cup {None},
                          audio: StreamPlan(AudioProperties) \cup {None}]
            /\ DOMAIN plans = {"video", "audio"}
            /\ plans.video = None <=> VideoOf(src, a) = None
            /\ plans.video # None => plans.video = PlanVideo(src, a, target)
            /\ plans.audio = None <=> AudioOf(src, a) = None
            /\ plans.audio # None => plans.audio = PlanAudio(src, a, AudioOf(src, a), target)
<1> DEFINE plans == Plans(src, a, target)
           video == IF VideoOf(src, a) = None THEN None ELSE PlanVideo(src, a, target)
           audio == IF AudioOf(src, a) = None THEN None
                    ELSE PlanAudio(src, a, AudioOf(src, a), target)
<1>1. plans = [video |-> video, audio |-> audio]
  BY DEF Plans
<1>2. /\ video \in StreamPlan(VideoProperties) \cup {None}
      /\ video = None <=> VideoOf(src, a) = None
  BY VideoPlan
<1>3. /\ audio \in StreamPlan(AudioProperties) \cup {None}
      /\ audio = None <=> AudioOf(src, a) = None
  BY AudioPlan
<1>4. /\ video # None => video = PlanVideo(src, a, target)
      /\ audio # None => audio = PlanAudio(src, a, AudioOf(src, a), target)
  OBVIOUS
<1> HIDE DEF video, audio
<1> QED BY <1>1, <1>2, <1>3, <1>4

\* Nor is there a plan where nothing is produced.
LEMMA NoPlansAreTyped ==
  NoPlans \in [video: StreamPlan(VideoProperties) \cup {None},
               audio: StreamPlan(AudioProperties) \cup {None}]
BY DEF NoPlans

\* What is decided, and what there is when something is produced.
LEMMA Decided ==
  ASSUME NEW src, Inspected(src), NEW a, WellFormed(a), NEW may
  PROVE  LET d == Decide(src, a, may)
         IN /\ d \in Decision
            /\ d.target = None => d.plans = NoPlans /\ d.outcome \in {"direct", "none"}
            /\ d.target # None =>
                 /\ a.profile # None
                 /\ d.outcome \in {"remux", "transcode"}
                 /\ d.target \in TranscodingProfile
                 /\ Producible(src, a, d.target)
                 /\ d.plans = Plans(src, a, d.target)
                 /\ d.shown = Shown(src, a, TRUE, {d.target.container}, d.target.protocol)
<1> DEFINE d == Decide(src, a, may)
<1>1. CASE a.profile = None
  <2>1. d = Unnegotiated(a, may)
    BY <1>1 DEF Decide
  <2>2. <<>> \in Seq(SubtitleMethod)
    OBVIOUS
  <2>3. d \in Decision /\ d.target = None /\ d.plans = NoPlans /\ d.outcome = "direct"
    BY <2>1, <2>2, NoPlansAreTyped DEF Unnegotiated, Decision
  <2> QED BY <2>3
<1>2. CASE a.profile # None
  <2> DEFINE entry == DirectEntry(src, a)
             chosen == IF MayProcess(may, a) THEN Target(src, a) ELSE 0
             target == a.profile.targets[chosen]
  <2>1. d = Answer(src, a, entry, chosen)
    BY <1>2 DEF Decide
  <2> HIDE DEF entry
  <2>2. CASE entry # 0 /\ a.direct
    <3> DEFINE shown == Shown(src, a, FALSE, PlayedAs(src, a.profile.direct[entry]), None)
               may_produce == chosen # 0
    <3>1. d = [outcome |-> "direct", target |-> None, plans |-> NoPlans, shown |-> shown,
               transcodes |-> may_produce]
      BY <2>1, <2>2 DEF Answer, PlayedDirectly
    <3>2. shown \in Seq(SubtitleMethod) /\ may_produce \in BOOLEAN
      BY <1>2, ShownAreNames
    <3> HIDE DEF shown, may_produce, chosen, d
    <3>3. d \in Decision /\ d.target = None /\ d.plans = NoPlans /\ d.outcome = "direct"
      BY <3>1, <3>2, NoPlansAreTyped DEF Decision
    <3> QED BY <3>3 DEF d
  <2>3. CASE ~(entry # 0 /\ a.direct) /\ chosen = 0
    <3>1. d = NotPlayed(src, a)
      <4> HIDE DEF chosen
      <4> QED BY <2>1, <2>3 DEF Answer
    <3> DEFINE shown == Shown(src, a, FALSE, {}, None)
    <3>2. /\ shown \in Seq(SubtitleMethod)
          /\ d = [outcome |-> "none", target |-> None, plans |-> NoPlans, shown |-> shown,
                  transcodes |-> FALSE]
      BY <1>2, <3>1, ShownAreNames DEF NotPlayed
    <3> HIDE DEF shown, d
    <3>3. d \in Decision /\ d.target = None /\ d.plans = NoPlans /\ d.outcome = "none"
      BY <3>2, NoPlansAreTyped DEF Decision
    <3> QED BY <3>3 DEF d
  <2>4. CASE ~(entry # 0 /\ a.direct) /\ chosen # 0
    <3> DEFINE plans == Plans(src, a, target)
               shown == Shown(src, a, TRUE, {target.container}, target.protocol)
               outcome == IF plans # NoPlans /\ Encoded(plans) = {} THEN "remux"
                          ELSE "transcode"
    <3>1. d = Produced(src, a, target, plans)
      <4> HIDE DEF chosen
      <4> QED BY <2>1, <2>4 DEF Answer
    <3>2. d = [outcome |-> outcome, target |-> target, plans |-> plans, transcodes |-> TRUE,
               shown |-> shown]
      BY <3>1 DEF Produced
    <3>3. chosen \in DOMAIN a.profile.targets /\ Producible(src, a, target)
      <4>1. chosen = Target(src, a)
        BY <2>4
      <4>2. Target(src, a) # 0
        BY <2>4
      <4> QED BY <1>2, <4>1, <4>2, TargetIsTheLeastWork
    <3>4. target \in TranscodingProfile /\ target # None
      BY <1>2, <3>3, RequestHasParts, TargetHasParts
    <3> HIDE DEF target, chosen
    <3>5. plans \in [video: StreamPlan(VideoProperties) \cup {None},
                     audio: StreamPlan(AudioProperties) \cup {None}]
      BY <1>2, <3>3, <3>4, PlansAreTyped
    <3>6. shown \in Seq(SubtitleMethod)
      BY <1>2, ShownAreNames
    <3>7. outcome \in {"remux", "transcode"}
      OBVIOUS
    <3>8. /\ d.outcome = outcome /\ d.target = target /\ d.plans = plans /\ d.shown = shown
          /\ d \in Decision
      <4> HIDE DEF plans, shown, outcome, d
      <4> QED BY <3>2, <3>4, <3>5, <3>6, <3>7 DEF Decision
    <3> HIDE DEF d, outcome
    <3> QED BY <1>2, <3>3, <3>4, <3>7, <3>8 DEF d
  <2> QED BY <2>2, <2>3, <2>4
<1> QED BY <1>1, <1>2

----------------------------------------------------------------------------
(* What an address carries.                                                *)
\* What is left when every codec has had its say is the least limit (`_tightest`).
LEMMA TightestIsTheLeast ==
  ASSUME NEW profile, Finite(profile), NEW codecs \in Seq(STRING), NEW kind, NEW names,
         NEW property
  PROVE  LET limit == Tightest(profile, kind, codecs, names, property)
             Limit(c) == Ceiling(profile, kind, c, names, property)
         IN /\ limit \in Value
            /\ limit # None => \E c \in STRING \cup {None} : limit = Limit(c)
            /\ limit # None /\ codecs # <<>> => \E c \in ToSet(codecs) : limit = Limit(c)
            /\ \A c \in ToSet(codecs) : Limit(c) # None => limit # None /\ limit <= Limit(c)
<1> DEFINE Limit(c) == Ceiling(profile, kind, c, names, property)
           S == IF codecs = <<>> THEN {None} ELSE ToSet(codecs)
           f == [c \in S |-> Limit(c)]
           all == {Limit(c) : c \in S}
           limits == all \ {None}
           limit == Tightest(profile, kind, codecs, names, property)
<1>1. limit = IF limits = {} THEN None ELSE Min(limits)
  BY DEF Tightest
<1>2. \A c : Limit(c) \in Value
  BY CeilingIsTheLeast
<1> HIDE DEF Limit, limit
<1>3. IsFiniteSet(S)
  <2>1. IsFiniteSet(ToSet(codecs))
    <3>1. IsFiniteSet(1..Len(codecs))
      BY FS_Interval
    <3>2. ToSet(codecs) = {codecs[i] : i \in 1..Len(codecs)}
      BY DEF ToSet
    <3> QED BY <3>1, <3>2, ImageIsFinite
  <2>2. IsFiniteSet({None})
    BY FS_Singleton
  <2> QED BY <2>1, <2>2
<1>4. IsFiniteSet(limits)
  <2>1. all = {f[c] : c \in S}
    OBVIOUS
  <2> HIDE DEF S, f, all
  <2>2. IsFiniteSet(all)
    BY <1>3, <2>1, ImageIsFinite
  <2> QED BY <2>2, FS_Subset
<1>5. limits \in SUBSET Int
  BY <1>2 DEF Value
<1>6. limits # {} => limit \in limits /\ \A y \in limits : limit <= y
  <2> HIDE DEF limits
  <2> QED BY <1>1, <1>4, <1>5, MinOfIntegers
<1>7. limit \in Value
  BY <1>1, <1>5, <1>6 DEF Value
<1>8. limit # None => \E c \in S : limit = Limit(c)
  BY <1>1, <1>6
<1>9. \A c \in S : Limit(c) # None => limit # None /\ limit <= Limit(c)
  BY <1>5, <1>6, NoneAssumption
<1>10. ToSet(codecs) \subseteq STRING /\ (codecs = <<>> => ToSet(codecs) = {})
  BY DEF ToSet
<1>11. limit # None => \E c \in STRING \cup {None} : limit = Limit(c)
  BY <1>8, <1>10
<1>12. limit # None /\ codecs # <<>> => \E c \in ToSet(codecs) : limit = Limit(c)
  BY <1>8
<1>13. \A c \in ToSet(codecs) : Limit(c) # None => limit # None /\ limit <= Limit(c)
  BY <1>9, <1>10
<1> QED BY <1>7, <1>11, <1>12, <1>13 DEF Limit, limit

\* An entry's limit binds what is tightest.
LEMMA TightestBinds ==
  ASSUME NEW profile, Finite(profile), NEW codecs \in Seq(STRING), NEW kind, NEW names,
         NEW codec \in ToSet(codecs), NEW e \in About(profile, kind, codec, names),
         NEW c \in e.conditions, c.is \in {"atMost", "equals"}
  PROVE  LET limit == Tightest(profile, kind, codecs, names, c.property)
         IN limit # None /\ limit \in Int /\ c.value \in Int /\ limit <= c.value
<1> DEFINE limit == Tightest(profile, kind, codecs, names, c.property)
           ceil == Ceiling(profile, kind, codec, names, c.property)
<1>1. Limiting(c, c.property)
  BY DEF Limiting
<1>2. ceil # None /\ ceil \in Int /\ ceil <= c.value
  BY <1>1, CeilingIsTheLeast
<1>3. limit # None /\ limit <= ceil /\ limit \in Value
  BY <1>2, TightestIsTheLeast
<1>4. c.value \in Int
  <2>1. e \in profile.codecs /\ profile \in DeviceProfile
    BY DEF About, Finite
  <2> QED BY <2>1, LimitIsANumber
<1> HIDE DEF limit, ceil
<1>5. limit \in Int /\ limit <= c.value
  BY <1>2, <1>3, <1>4 DEF Value
<1> QED BY <1>3, <1>4, <1>5 DEF limit

\* Of one codec the tightest limit is that codec's.
LEMMA CeilingOfOne ==
  ASSUME NEW profile, Finite(profile), NEW codec \in STRING, NEW kind, NEW names,
         NEW property, NEW codecs \in Seq(STRING), ToSet(codecs) = {codec}
  PROVE  Tightest(profile, kind, codecs, names, property)
           = Ceiling(profile, kind, codec, names, property)
<1> DEFINE Limit(c) == Ceiling(profile, kind, c, names, property)
           limit == Tightest(profile, kind, codecs, names, property)
<1>1. codecs # <<>>
  <2>1. codecs = <<>> => ToSet(codecs) = {}
    BY DEF ToSet
  <2> QED BY <2>1
<1>2. limit = IF {Limit(c) : c \in ToSet(codecs)} \ {None} = {} THEN None
              ELSE Min({Limit(c) : c \in ToSet(codecs)} \ {None})
  BY <1>1 DEF Tightest
<1>3. Limit(codec) \in Value
  BY CeilingIsTheLeast
<1>4. {Limit(c) : c \in ToSet(codecs)} = {Limit(codec)}
  OBVIOUS
<1> HIDE DEF Limit, limit
<1>5. CASE Limit(codec) = None
  BY <1>2, <1>4, <1>5 DEF limit, Limit
<1>6. CASE Limit(codec) # None
  <2>1. {Limit(c) : c \in ToSet(codecs)} \ {None} = {Limit(codec)}
    BY <1>4, <1>6
  <2>2. {Limit(codec)} \in SUBSET Int
    BY <1>3, <1>6 DEF Value
  <2>3. IsFiniteSet({Limit(codec)})
    BY FS_Singleton
  <2>4. Min({Limit(codec)}) \in {Limit(codec)}
    BY <2>2, <2>3, MinOfIntegers
  <2>5. limit = Limit(codec)
    BY <1>2, <2>1, <2>4
  <2> QED BY <2>5 DEF limit, Limit
<1> QED BY <1>5, <1>6

\* A frame rate in an address is one that can be printed.
LEMMA FrameRateIsTyped ==
  ASSUME NEW src, Inspected(src), NEW a, WellFormed(a), a.profile # None, Printable(src, a),
         NEW codecs \in Seq(STRING), NEW names
  PROVE  LET limit == Tightest(a.profile, "Video", codecs, names, "VideoFramerate")
             rate == IF VideoOf(src, a) = None THEN None
                     ELSE src.video.values["VideoFramerate"]
         IN /\ FrameRate(limit, rate) \in Value /\ rate \in Value
            /\ Clamped(limit, rate) # None =>
                 FrameRate(limit, rate) \in Int
                   /\ FrameRate(limit, rate) = Printed(Clamped(limit, rate))
<1> DEFINE limit == Tightest(a.profile, "Video", codecs, names, "VideoFramerate")
           rate == IF VideoOf(src, a) = None THEN None ELSE src.video.values["VideoFramerate"]
<1>1. Finite(a.profile)
  BY RequestHasParts
<1>2. limit \in Value
  BY <1>1, TightestIsTheLeast
<1>3. limit # None => limit \in Rates(src, a)
  <2> SUFFICES ASSUME limit # None PROVE limit \in Rates(src, a)
    OBVIOUS
  <2>1. PICK c : limit = Ceiling(a.profile, "Video", c, names, "VideoFramerate")
    BY <1>1, TightestIsTheLeast
  <2>2. PICK e \in About(a.profile, "Video", c, names) : \E d \in e.conditions :
          Limiting(d, "VideoFramerate") /\ d.value = limit
    BY <1>1, <2>1, CeilingIsTheLeast
  <2>3. PICK d \in e.conditions : Limiting(d, "VideoFramerate") /\ d.value = limit
    BY <2>2
  <2>4. e \in a.profile.codecs
    BY DEF About
  <2> HIDE DEF limit
  <2> QED BY <2>3, <2>4 DEF Rates, Limiting
<1>4. rate \in Value /\ (rate # None => rate \in Rates(src, a))
  <2>1. CASE VideoOf(src, a) = None
    BY <2>1 DEF Value
  <2>2. CASE VideoOf(src, a) # None
    <3>1. VideoOf(src, a) = src.video /\ src.video \in VideoStream
      BY <2>2, StreamsAreInspected DEF VideoOf
    <3>2. src.video.values \in [VideoProperties -> Value]
      BY <3>1, StreamHasParts
    <3>3. src.video.values["VideoFramerate"] \in Value
      BY <3>2 DEF VideoProperties
    <3> QED BY <2>2, <3>1, <3>3 DEF Rates
  <2> QED BY <2>1, <2>2
<1>5. Clamped(limit, rate) \in {limit, rate}
  <2> HIDE DEF limit, rate
  <2> QED BY <1>2, <1>4, ClampedIsLeast
<1>6. Clamped(limit, rate) # None => Printed(Clamped(limit, rate)) \in Int
  <2> HIDE DEF limit, rate
  <2> QED BY <1>3, <1>4, <1>5 DEF Printable
<1> HIDE DEF limit, rate
<1>7. /\ FrameRate(limit, rate) \in Value
      /\ Clamped(limit, rate) # None =>
           FrameRate(limit, rate) \in Int
             /\ FrameRate(limit, rate) = Printed(Clamped(limit, rate))
  BY <1>6 DEF FrameRate, Value
<1> QED BY <1>4, <1>7 DEF limit, rate

\* The video's share of a cap is the minimum or what the sound leaves of it (`_video_bitrate`).
LEMMA ShareOfTheCap ==
  ASSUME NEW cap \in Value, NEW stated \in Value, NEW audioBitrate \in Value
  PROVE  LET share == VideoShare(cap, stated, audioBitrate)
         IN /\ share \in Value
            /\ cap = None => share = stated
            /\ cap # None =>
                 /\ share \in Int /\ share >= MinimumVideoBitrate
                 /\ \/ share = MinimumVideoBitrate
                    \/ /\ Or(audioBitrate, 0) \in Int
                       /\ share <= cap - Or(audioBitrate, 0)
                       /\ stated # None => share <= stated
<1>1. CASE cap = None
  BY <1>1 DEF VideoShare
<1>2. CASE cap # None
  <2> DEFINE rest == cap - Or(audioBitrate, 0)
             least == Clamped(stated, rest)
             share == VideoShare(cap, stated, audioBitrate)
  <2>1. Or(audioBitrate, 0) \in Int /\ cap \in Int
    BY <1>2 DEF Or, Value
  <2>2. rest \in Int
    BY <2>1
  <2>3. rest \in Value /\ rest # None
    BY <2>2, NoneAssumption DEF Value
  <2> HIDE DEF rest
  <2>4. least \in Int /\ least <= rest /\ (stated # None => least <= stated)
    BY <2>3, ClampedIsLeast
  <2>5. share = Max({least, MinimumVideoBitrate})
    BY <1>2 DEF VideoShare, rest
  <2> HIDE DEF least
  <2>6. MinimumVideoBitrate \in Int
    BY MinimumAssumption
  <2>7. /\ share \in {least, MinimumVideoBitrate}
        /\ share >= MinimumVideoBitrate
    BY <2>4, <2>5, <2>6, MaxOfTwo
  <2> HIDE DEF share
  <2>8. share \in Int
    BY <2>4, <2>6, <2>7
  <2>9. share \in Value
    BY <2>8 DEF Value
  <2> QED BY <1>2, <2>1, <2>4, <2>7, <2>8, <2>9 DEF rest, share
<1> QED BY <1>1, <1>2

\* The parts of an address.
LEMMA AddressHasParts ==
  ASSUME NEW addr \in Address
  PROVE  /\ addr.video \in BOOLEAN /\ addr.container \in STRING /\ addr.protocol \in STRING
         /\ addr.videoCodecs \in Seq(STRING) /\ addr.audioCodecs \in Seq(STRING)
         /\ addr.audio \in Value /\ addr.videoBitrate \in Value
         /\ addr.audioBitrate \in Value /\ addr.sampleRate \in Value
         /\ addr.frameRate \in Value /\ addr.height \in Value /\ addr # None
BY NothingAssumption DEF Address

\* What an address limits, by the kind of the stream.
AddressLimits(addr, kind) ==
  IF kind = "Video"
  THEN [Height |-> addr.height, VideoBitrate |-> addr.videoBitrate,
        VideoFramerate |-> addr.frameRate]
  ELSE [AudioBitrate |-> addr.audioBitrate, AudioSampleRate |-> addr.sampleRate]

\* The kinds of stream that an item has.
Kinds(video) == {"Video", IF video THEN "VideoAudio" ELSE "Audio"}

\* Its limits are values.
LEMMA LimitsAreValues ==
  ASSUME NEW addr \in Address, NEW kind
  PROVE  LET limits == AddressLimits(addr, kind)
         IN /\ DOMAIN limits \subseteq Numbers /\ IsFiniteSet(DOMAIN limits)
            /\ \A p \in DOMAIN limits : limits[p] \in Value
<1>1. /\ addr.videoBitrate \in Value /\ addr.audioBitrate \in Value
      /\ addr.sampleRate \in Value /\ addr.frameRate \in Value /\ addr.height \in Value
  BY AddressHasParts
<1>2. ASSUME NEW a, NEW b PROVE IsFiniteSet({a} \cup {b})
  <2>1. IsFiniteSet({a})
    BY FS_Singleton
  <2> QED BY <2>1, FS_AddElement
<1>3. IsFiniteSet({"Height", "VideoBitrate", "VideoFramerate"})
  <2>1. IsFiniteSet({"Height"} \cup {"VideoBitrate"})
    BY <1>2
  <2>2. IsFiniteSet(({"Height"} \cup {"VideoBitrate"}) \cup {"VideoFramerate"})
    BY <2>1, FS_AddElement
  <2>3. {"Height", "VideoBitrate", "VideoFramerate"}
          = ({"Height"} \cup {"VideoBitrate"}) \cup {"VideoFramerate"}
    OBVIOUS
  <2> QED BY <2>2, <2>3
<1>4. IsFiniteSet({"AudioBitrate", "AudioSampleRate"})
  <2>1. IsFiniteSet({"AudioBitrate"} \cup {"AudioSampleRate"})
    BY <1>2
  <2>2. {"AudioBitrate", "AudioSampleRate"} = {"AudioBitrate"} \cup {"AudioSampleRate"}
    OBVIOUS
  <2> QED BY <2>1, <2>2
<1>5. CASE kind = "Video"
  <2>1. AddressLimits(addr, kind) =
          [Height |-> addr.height, VideoBitrate |-> addr.videoBitrate,
           VideoFramerate |-> addr.frameRate]
    BY <1>5 DEF AddressLimits
  <2> QED BY <1>1, <1>3, <2>1 DEF Numbers
<1>6. CASE kind # "Video"
  <2>1. AddressLimits(addr, kind) =
          [AudioBitrate |-> addr.audioBitrate, AudioSampleRate |-> addr.sampleRate]
    BY <1>6 DEF AddressLimits
  <2> QED BY <1>1, <1>4, <2>1 DEF Numbers
<1> QED BY <1>5, <1>6

\* An entry that states limits is one of a profile, and says finitely much.
LEMMA LimitsAreAnEntry ==
  ASSUME NEW kind \in {"Video", "VideoAudio", "Audio"}, NEW limits,
         DOMAIN limits \subseteq Numbers, IsFiniteSet(DOMAIN limits),
         \A p \in DOMAIN limits : limits[p] \in Value
  PROVE  LET entry == LimitedTo(kind, limits)
         IN /\ entry \in CodecProfile /\ IsFiniteSet(entry.conditions)
            /\ entry.kind = kind /\ entry.codec = Anything /\ entry.container = Anything
            /\ entry.when = {}
            /\ entry.conditions =
                 {[property |-> p, is |-> "atMost", value |-> limits[p], required |-> TRUE] :
                    p \in {p \in DOMAIN limits : limits[p] # None}}
<1> DEFINE stated == {p \in DOMAIN limits : limits[p] # None}
           says == [p \in stated |-> [property |-> p, is |-> "atMost", value |-> limits[p],
                                      required |-> TRUE]]
           conditions == {[property |-> p, is |-> "atMost", value |-> limits[p],
                           required |-> TRUE] : p \in stated}
           entry == LimitedTo(kind, limits)
<1>1. entry = [kind |-> kind, codec |-> Anything, container |-> Anything, when |-> {},
               conditions |-> conditions]
  BY DEF LimitedTo
<1>2. conditions \subseteq Condition
  <2> SUFFICES ASSUME NEW p \in stated
               PROVE [property |-> p, is |-> "atMost", value |-> limits[p],
                      required |-> TRUE] \in Condition
    OBVIOUS
  <2>1. limits[p] \in Int /\ p \in ConditionProperty
    BY DEF Value, ConditionProperty
  <2> QED BY <2>1 DEF Condition
<1>3. IsFiniteSet(conditions)
  <2>1. stated \in SUBSET DOMAIN limits
    OBVIOUS
  <2>2. IsFiniteSet(stated)
    <3> HIDE DEF stated
    <3> QED BY <2>1, FS_Subset
  <2>3. conditions = {says[p] : p \in stated}
    OBVIOUS
  <2> HIDE DEF conditions, says, stated
  <2> QED BY <2>2, <2>3, ImageIsFinite
<1>4. Anything \in List
  <2>1. <<>> \in Seq(STRING)
    OBVIOUS
  <2> QED BY <2>1 DEF Anything, List
<1> HIDE DEF conditions, entry
<1>5. /\ entry \in CodecProfile /\ IsFiniteSet(entry.conditions)
      /\ entry.kind = kind /\ entry.codec = Anything /\ entry.container = Anything
      /\ entry.when = {} /\ entry.conditions = conditions
  BY <1>1, <1>2, <1>3, <1>4 DEF CodecProfile
<1> QED BY <1>5 DEF entry, conditions

\* How an address is read: one target, and a limit for each kind of stream.
Own(codecs, stream) ==
  IF codecs # <<>> \/ stream = None THEN codecs ELSE <<stream.codec>>

\* The target it names.
TargetOf(src, addr) ==
  [video |-> addr.video, container |-> addr.container, protocol |-> addr.protocol,
   videoCodecs |-> Own(addr.videoCodecs, src.video),
   audioCodecs |-> Own(addr.audioCodecs, IF src.audio = <<>> THEN None ELSE Head(src.audio))]

\* The request that an address is read as.
LEMMA AddressIsAsked ==
  ASSUME NEW src, Inspected(src), NEW addr \in Address
  PROVE  LET a == AskOf(src, addr)
             target == TargetOf(src, addr)
         IN /\ a \in Request /\ WellFormed(a) /\ a.profile # None
            /\ a.video = addr.video /\ a.copyVideo /\ a.copyAudio
            /\ a.audio = addr.audio /\ Cap(a) = None
            /\ target \in TranscodingProfile /\ target # None
            /\ a.profile.direct = <<>> /\ a.profile.targets = <<target>>
            /\ a.profile.codecs =
                 {LimitedTo(k, AddressLimits(addr, k)) : k \in Kinds(addr.video)}
<1> DEFINE a == AskOf(src, addr)
           target == TargetOf(src, addr)
           sound == IF addr.video THEN "VideoAudio" ELSE "Audio"
           first == LimitedTo("Video", AddressLimits(addr, "Video"))
           second == LimitedTo(sound, AddressLimits(addr, sound))
           profile == [cap |-> None, direct |-> <<>>, targets |-> <<target>>,
                       subtitles |-> <<>>, codecs |-> {first, second}]
<1>1. a = [video |-> addr.video, direct |-> TRUE, copyVideo |-> TRUE, copyAudio |-> TRUE,
           cap |-> None, channels |-> None, audio |-> addr.audio, subtitle |-> None,
           profile |-> profile]
  BY DEF AskOf, AddressLimits, TargetOf, Own
<1>2. target \in TranscodingProfile /\ target # None
  <2>1. ASSUME NEW codecs \in Seq(STRING), NEW stream,
               stream # None => stream.codec \in STRING
        PROVE  Own(codecs, stream) \in Seq(STRING)
    <3>1. CASE codecs # <<>> \/ stream = None
      BY <3>1 DEF Own
    <3>2. CASE ~(codecs # <<>> \/ stream = None)
      <4>1. <<stream.codec>> \in Seq(STRING)
        BY <2>1, <3>2
      <4> QED BY <3>2, <4>1 DEF Own
    <3> QED BY <3>1, <3>2
  <2>2. src.video # None => src.video.codec \in STRING
    <3>1. src.video \in VideoStream \cup {None}
      BY DEF Inspected, Source
    <3> QED BY <3>1, StreamHasParts
  <2>3. src.audio # <<>> => Head(src.audio).codec \in STRING
    <3>1. src.audio \in Seq(AudioStream)
      BY DEF Inspected, Source
    <3>2. src.audio # <<>> => Head(src.audio) \in AudioStream
      BY <3>1
    <3> QED BY <3>2, StreamHasParts
  <2> DEFINE sounds == IF src.audio = <<>> THEN None ELSE Head(src.audio)
  <2>4. sounds # None => sounds.codec \in STRING
    BY <2>3
  <2> HIDE DEF sounds
  <2>5. /\ Own(addr.videoCodecs, src.video) \in Seq(STRING)
        /\ Own(addr.audioCodecs, sounds) \in Seq(STRING)
    BY <2>1, <2>2, <2>4, AddressHasParts
  <2>6. target \in TranscodingProfile
    BY <2>5, AddressHasParts DEF TargetOf, TranscodingProfile, sounds
  <2> QED BY <2>6, TargetHasParts
<1>3. /\ first \in CodecProfile /\ IsFiniteSet(first.conditions)
      /\ second \in CodecProfile /\ IsFiniteSet(second.conditions)
  <2>1. sound \in {"Video", "VideoAudio", "Audio"}
    OBVIOUS
  <2> HIDE DEF sound
  <2>2. /\ LimitedTo("Video", AddressLimits(addr, "Video")) \in CodecProfile
        /\ IsFiniteSet(LimitedTo("Video", AddressLimits(addr, "Video")).conditions)
    BY LimitsAreValues, LimitsAreAnEntry
  <2>3. /\ LimitedTo(sound, AddressLimits(addr, sound)) \in CodecProfile
        /\ IsFiniteSet(LimitedTo(sound, AddressLimits(addr, sound)).conditions)
    BY <2>1, LimitsAreValues, LimitsAreAnEntry
  <2> QED BY <2>2, <2>3
<1>4. {LimitedTo(k, AddressLimits(addr, k)) : k \in Kinds(addr.video)} = {first, second}
  BY DEF Kinds
<1>5. IsFiniteSet({first, second})
  <2>1. IsFiniteSet({first})
    BY FS_Singleton
  <2>2. IsFiniteSet({first} \cup {second})
    BY <2>1, FS_AddElement
  <2>3. {first, second} = {first} \cup {second}
    OBVIOUS
  <2> QED BY <2>2, <2>3
<1> HIDE DEF first, second, target
<1>6. /\ <<>> \in Seq(DirectPlayProfile) /\ <<>> \in Seq(SubtitleProfile)
      /\ <<target>> \in Seq(TranscodingProfile)
  BY <1>2
<1>7. profile \in DeviceProfile /\ profile # None
  <2>1. profile \in DeviceProfile
    BY <1>3, <1>6 DEF DeviceProfile, Value
  <2> HIDE DEF profile
  <2> QED BY <2>1, NoneAssumption
<1>8. /\ profile.direct = <<>> /\ profile.targets = <<target>> /\ profile.cap = None
      /\ profile.codecs = {first, second}
  OBVIOUS
<1> HIDE DEF profile, a
<1>9. a \in Request
  BY <1>1, <1>7, AddressHasParts DEF Request, Value
<1>10. /\ a.profile = profile /\ a.video = addr.video /\ a.copyVideo /\ a.copyAudio
       /\ a.audio = addr.audio /\ a.cap = None
  BY <1>1
<1>11. WellFormed(a)
  <2>1. a.profile.codecs = {first, second}
    BY <1>8, <1>10
  <2>2. IsFiniteSet(a.profile.codecs)
    BY <1>5, <2>1
  <2>3. \A e \in a.profile.codecs : IsFiniteSet(e.conditions)
    BY <1>3, <2>1
  <2> QED BY <1>9, <2>2, <2>3 DEF WellFormed
<1>12. Cap(a) = None
  <2>1. a.profile.cap = None
    BY <1>8, <1>10
  <2>2. Or(None, None) = None
    BY DEF Or
  <2> QED BY <1>10, <2>1, <2>2 DEF Cap
<1> QED BY <1>2, <1>4, <1>7, <1>8, <1>9, <1>10, <1>11, <1>12 DEF a, target

\* What an address leads to is always a production of its target.
LEMMA DeliveryProduces ==
  ASSUME NEW src, Inspected(src), NEW addr \in Address
  PROVE  LET d == Delivered(src, addr)
             a == AskOf(src, addr)
             target == TargetOf(src, addr)
         IN /\ d \in Decision /\ d.target = target
            /\ d.outcome \in {"remux", "transcode"}
            /\ Producible(src, a, target)
            /\ d.plans = Plans(src, a, target)
<1> DEFINE a == AskOf(src, addr)
           target == TargetOf(src, addr)
           all == {"video", "audio", "remux"}
           d == Decide(src, a, all)
<1>1. /\ WellFormed(a) /\ a.profile # None /\ target \in TranscodingProfile
      /\ a.video = addr.video
      /\ a.profile.direct = <<>> /\ a.profile.targets = <<target>>
  BY AddressIsAsked
<1>2. Producible(src, a, target)
  <2>1. target.video = a.video
    BY <1>1 DEF TargetOf
  <2>2. VideoOf(src, a) # None => target.videoCodecs # <<>>
    BY DEF VideoOf, TargetOf, Own
  <2>3. AudioOf(src, a) # None => target.audioCodecs # <<>>
    <3> SUFFICES ASSUME AudioOf(src, a) # None PROVE target.audioCodecs # <<>>
      OBVIOUS
    <3>1. src.audio # <<>>
      BY StreamsAreInspected
    <3>2. Head(src.audio) # None
      <4>1. src.audio \in Seq(AudioStream)
        BY DEF Inspected, Source
      <4>2. Head(src.audio) \in AudioStream
        BY <3>1, <4>1
      <4> QED BY <4>2, NoneAssumption
    <3> QED BY <3>1, <3>2 DEF TargetOf, Own
  <2> QED BY <2>1, <2>2, <2>3 DEF Producible
<1> HIDE DEF a, target
<1>3. Target(src, a) = 1
  <2>1. DOMAIN a.profile.targets = {1} /\ a.profile.targets[1] = target
    BY <1>1
  <2> QED BY <1>1, <1>2, <2>1, TargetIsTheLeastWork
<1>4. MayProcess(all, a)
  BY DEF MayProcess
<1>5. DirectEntry(src, a) = 0
  <2>1. /\ a.profile.direct \in Seq(DirectPlayProfile) /\ DOMAIN a.profile.direct = {}
    BY <1>1
  <2> QED BY <2>1, DirectEntryOpens
<1>6. d = Produced(src, a, target, Plans(src, a, target))
  <2>1. a.profile.targets[1] = target
    BY <1>1
  <2> QED BY <1>1, <1>3, <1>4, <1>5, <2>1 DEF Decide, Answer
<1>7. d.target = target /\ target # None
  BY <1>1, <1>6, TargetHasParts DEF Produced
<1>8. d = Delivered(src, addr)
  BY DEF Delivered, a
<1> HIDE DEF d, all
<1>9. d \in Decision /\ d.outcome \in {"remux", "transcode"} /\ d.plans = Plans(src, a, target)
  BY <1>1, <1>7, Decided DEF d
<1> QED BY <1>2, <1>7, <1>8, <1>9 DEF a, target

\* How the selected track is shown, and which one it is.
LEMMA SelectedIsShown ==
  ASSUME NEW src, Inspected(src), NEW a, WellFormed(a), a.profile # None, NEW d,
         NEW names, NEW protocol, d.shown = Shown(src, a, TRUE, names, protocol)
  PROVE  LET method == SelectedMethod(src, a, d)
         IN /\ method \in SubtitleMethod \cup {None}
            /\ method = "Hls" =>
                 /\ a.video /\ a.subtitle # -1
                 /\ \E i \in DOMAIN Tracks(src) :
                      Tracks(src)[i].index = a.subtitle /\ Text(Tracks(src)[i].codec)
<1> DEFINE tracks == Tracks(src)
           found == {i \in 1..Len(tracks) : tracks[i].index = a.subtitle}
           first == IF found # {} THEN Min(found) ELSE 0
           method == SelectedMethod(src, a, d)
<1>1. method = IF a.subtitle = None \/ ~a.video THEN None
               ELSE IF first = 0 THEN "Encode" ELSE d.shown[first]
  BY DEF SelectedMethod, SelectInSeq
<1>2. /\ DOMAIN tracks = 1..Len(tracks) /\ Len(tracks) \in Nat
      /\ \A i \in DOMAIN tracks : tracks[i].index \in Nat
  <2>1. Tracks(src) \in Seq(Track) /\ DOMAIN Tracks(src) = 1..Len(Tracks(src))
        /\ Len(Tracks(src)) \in Nat
    BY TracksAreTracks
  <2> HIDE DEF tracks
  <2>2. tracks \in Seq(Track) /\ DOMAIN tracks = 1..Len(tracks) /\ Len(tracks) \in Nat
    BY <2>1 DEF tracks
  <2>3. \A i \in DOMAIN tracks : tracks[i] \in Track
    BY <2>2
  <2> QED BY <2>2, <2>3 DEF Track
<1>3. first # 0 => first \in found
  <2>1. found \in SUBSET (1..Len(tracks))
    OBVIOUS
  <2> HIDE DEF found, tracks
  <2> QED BY <1>2, <2>1, FirstOf
<1>4. /\ DOMAIN d.shown = DOMAIN tracks /\ d.shown \in Seq(SubtitleMethod)
      /\ \A i \in DOMAIN tracks : d.shown[i] = "Hls" => Text(tracks[i].codec)
  BY ShownAreNames
<1>5. first # 0 => first \in DOMAIN tracks /\ tracks[first].index = a.subtitle
  BY <1>2, <1>3
<1> HIDE DEF tracks, found, first, method
<1>6. first # 0 => d.shown[first] \in SubtitleMethod
  <2> DEFINE shown == d.shown
  <2>1. DOMAIN shown = DOMAIN tracks /\ shown \in Seq(SubtitleMethod)
    BY <1>4
  <2> HIDE DEF shown
  <2>2. \A i \in DOMAIN shown : shown[i] \in SubtitleMethod
    BY <2>1
  <2>3. first # 0 => shown[first] \in SubtitleMethod
    BY <1>5, <2>1, <2>2
  <2> QED BY <2>3 DEF shown
<1>7. "Encode" \in SubtitleMethod /\ "Hls" # None
  BY NoneAssumption DEF SubtitleMethod
<1>8. method \in SubtitleMethod \cup {None}
  BY <1>1, <1>6, <1>7
<1>9. method = "Hls" => first # 0 /\ d.shown[first] = "Hls"
  BY <1>1, <1>7
<1>10. method = "Hls" => \E i \in DOMAIN tracks :
         tracks[i].index = a.subtitle /\ Text(tracks[i].codec)
  BY <1>4, <1>5, <1>9
<1>11. method = "Hls" => a.video /\ a.subtitle # -1
  <2>1. method = "Hls" => a.video
    BY <1>1, <1>7
  <2>2. method = "Hls" => a.subtitle \in Nat
    BY <1>2, <1>10
  <2> QED BY <2>1, <2>2
<1> QED BY <1>8, <1>10, <1>11 DEF method, tracks

\* An address says of a decision what of its target, plans and limits is read again.
LEMMA AddressSays ==
  ASSUME NEW src, Inspected(src), NEW a, WellFormed(a), Printable(src, a), NEW may, NEW d,
         d = Decide(src, a, may), d.target # None
  PROVE  LET addr == AddressOf(src, a, d)
             target == d.target
             audio == d.plans.audio
             copied == audio # None /\ audio.does = "copy"
             method == SelectedMethod(src, a, d)
             Limit(p) == Tightest(a.profile, "Video", target.videoCodecs,
                                  {target.container}, p)
         IN /\ addr \in Address
            /\ addr.video = a.video /\ addr.container = target.container
            /\ addr.protocol = target.protocol /\ addr.videoCodecs = target.videoCodecs
            /\ addr.audioCodecs = IF copied THEN <<audio.codec>> ELSE target.audioCodecs
            /\ addr.audio = IF audio = None THEN None ELSE audio.index
            /\ addr.audioBitrate = IF audio = None THEN None ELSE audio.out["AudioBitrate"]
            /\ addr.videoBitrate =
                 VideoShare(Cap(a), Limit("VideoBitrate"), addr.audioBitrate)
            /\ addr.sampleRate =
                 IF copied THEN audio.out["AudioSampleRate"]
                 ELSE Tightest(a.profile, AudioKind(a), target.audioCodecs,
                               {target.container}, "AudioSampleRate")
            /\ addr.frameRate =
                 FrameRate(Limit("VideoFramerate"),
                           IF VideoOf(src, a) = None THEN None
                           ELSE src.video.values["VideoFramerate"])
            /\ addr.height = Limit("Height")
            /\ method = "Hls" => addr.method = "Hls" /\ addr.subtitle = a.subtitle
<1> DEFINE target == d.target
           audio == d.plans.audio
           copied == audio # None /\ audio.does = "copy"
           method == SelectedMethod(src, a, d)
           Limit(p) == Tightest(a.profile, "Video", target.videoCodecs,
                                {target.container}, p)
           audioCodecs == IF copied THEN <<audio.codec>> ELSE target.audioCodecs
           audioIndex == IF audio = None THEN None ELSE audio.index
           audioBitrate == IF audio = None THEN None ELSE audio.out["AudioBitrate"]
           videoBitrate == VideoShare(Cap(a), Limit("VideoBitrate"), audioBitrate)
           sampleRate == IF copied THEN audio.out["AudioSampleRate"]
                         ELSE Tightest(a.profile, AudioKind(a), audioCodecs,
                                       {target.container}, "AudioSampleRate")
           frameRate == FrameRate(Limit("VideoFramerate"),
                                  IF VideoOf(src, a) = None THEN None
                                  ELSE src.video.values["VideoFramerate"])
           named == IF method = "External" THEN None ELSE method
           subtitle == IF ~a.video \/ a.subtitle = -1 \/ method = "External"
                       THEN None ELSE a.subtitle
           height == Limit("Height")
           addr == AddressOf(src, a, d)
<1>1. addr = [video |-> a.video, container |-> target.container,
              protocol |-> target.protocol, videoCodecs |-> target.videoCodecs,
              audioCodecs |-> audioCodecs, audio |-> audioIndex,
              videoBitrate |-> videoBitrate, audioBitrate |-> audioBitrate,
              sampleRate |-> sampleRate, frameRate |-> frameRate, height |-> height,
              method |-> named, subtitle |-> subtitle]
  BY DEF AddressOf
<1>2. /\ a.profile # None /\ d.target \in TranscodingProfile
      /\ Producible(src, a, d.target) /\ d.plans = Plans(src, a, d.target)
      /\ d.shown = Shown(src, a, TRUE, {d.target.container}, d.target.protocol)
  BY Decided
<1>3. /\ a.video \in BOOLEAN /\ Finite(a.profile) /\ Cap(a) \in Value /\ a.subtitle \in Value
  BY <1>2, RequestHasParts
<1>4. /\ target.container \in STRING /\ target.protocol \in STRING
      /\ target.videoCodecs \in Seq(STRING) /\ target.audioCodecs \in Seq(STRING)
  BY <1>2, TargetHasParts
<1>5. audio \in StreamPlan(AudioProperties) \cup {None}
  <2>1. d.plans \in [video: StreamPlan(VideoProperties) \cup {None},
                     audio: StreamPlan(AudioProperties) \cup {None}]
    BY <1>2, PlansAreTyped
  <2> QED BY <2>1
<1>6. /\ method \in SubtitleMethod \cup {None}
      /\ method = "Hls" => a.video /\ a.subtitle # -1
  BY <1>2, SelectedIsShown
<1> HIDE DEF method, audio, target
<1>7. audio # None => /\ audio.codec \in STRING /\ audio.index \in Int
                      /\ audio.out["AudioBitrate"] \in Value
                      /\ audio.out["AudioSampleRate"] \in Value
  BY <1>5 DEF StreamPlan, AudioProperties
<1>8. /\ audioCodecs \in Seq(STRING) /\ audioIndex \in Value /\ audioBitrate \in Value
  <2>1. CASE copied
    <3>1. <<audio.codec>> \in Seq(STRING)
      BY <1>7, <2>1
    <3>2. audioCodecs = <<audio.codec>> /\ audioIndex = audio.index
          /\ audioBitrate = audio.out["AudioBitrate"]
      BY <2>1
    <3> HIDE DEF audioCodecs, audioIndex, audioBitrate
    <3> QED BY <1>7, <2>1, <3>1, <3>2 DEF Value
  <2>2. CASE ~copied
    <3>1. audioCodecs = target.audioCodecs
      BY <2>2
    <3>2. audioIndex \in Value /\ audioBitrate \in Value
      <4>1. CASE audio = None
        BY <4>1 DEF Value
      <4>2. CASE audio # None
        BY <1>7, <4>2 DEF Value
      <4> QED BY <4>1, <4>2
    <3> HIDE DEF audioCodecs, audioIndex, audioBitrate
    <3> QED BY <1>4, <3>1, <3>2
  <2> QED BY <2>1, <2>2
<1>9. Limit("VideoBitrate") \in Value /\ Limit("Height") \in Value
  BY <1>3, <1>4, TightestIsTheLeast
<1>10. sampleRate \in Value
  <2>1. Tightest(a.profile, AudioKind(a), audioCodecs, {target.container},
                 "AudioSampleRate") \in Value
    <3> HIDE DEF audioCodecs
    <3> QED BY <1>3, <1>8, TightestIsTheLeast
  <2> QED BY <1>7, <2>1
<1>11. frameRate \in Value
  BY <1>2, <1>4, FrameRateIsTyped
<1>12. videoBitrate \in Value
  <2> HIDE DEF Limit, audioBitrate
  <2> QED BY <1>3, <1>8, <1>9, ShareOfTheCap
<1>13. named \in SubtitleMethod \cup {None} /\ subtitle \in Value
  BY <1>3, <1>6 DEF Value
<1>14. method = "Hls" => named = "Hls" /\ subtitle = a.subtitle
  BY <1>6
<1>15. ~copied => audioCodecs = target.audioCodecs
  OBVIOUS
<1>16. sampleRate = IF copied THEN audio.out["AudioSampleRate"]
                    ELSE Tightest(a.profile, AudioKind(a), target.audioCodecs,
                                  {target.container}, "AudioSampleRate")
  BY <1>15
<1> HIDE DEF audioCodecs, audioIndex, audioBitrate, videoBitrate, sampleRate, frameRate,
             named, subtitle, height, addr
<1>17. addr \in Address
  <2>1. height \in Value
    BY <1>9 DEF height
  <2> QED BY <1>1, <1>3, <1>4, <1>8, <1>10, <1>11, <1>12, <1>13, <2>1 DEF Address
<1>18. /\ addr.video = a.video /\ addr.container = target.container
       /\ addr.protocol = target.protocol /\ addr.videoCodecs = target.videoCodecs
       /\ addr.audioCodecs = audioCodecs /\ addr.audio = audioIndex
       /\ addr.videoBitrate = videoBitrate /\ addr.audioBitrate = audioBitrate
       /\ addr.sampleRate = sampleRate /\ addr.frameRate = frameRate
       /\ addr.height = height
       /\ addr.method = named /\ addr.subtitle = subtitle
  BY <1>1
<1>19. addr.audioCodecs = IF copied THEN <<audio.codec>> ELSE target.audioCodecs
  BY <1>18 DEF audioCodecs
<1>20. addr.audio = IF audio = None THEN None ELSE audio.index
  BY <1>18 DEF audioIndex
<1>21. addr.audioBitrate = IF audio = None THEN None ELSE audio.out["AudioBitrate"]
  BY <1>18 DEF audioBitrate
<1>22. addr.videoBitrate = VideoShare(Cap(a), Limit("VideoBitrate"), addr.audioBitrate)
  BY <1>18 DEF videoBitrate
<1>23. /\ addr.frameRate = FrameRate(Limit("VideoFramerate"),
                              IF VideoOf(src, a) = None THEN None
                              ELSE src.video.values["VideoFramerate"])
       /\ addr.height = Limit("Height")
  BY <1>18 DEF frameRate, height
<1>24. method = "Hls" => addr.method = "Hls" /\ addr.subtitle = a.subtitle
  BY <1>14, <1>18
<1>25. addr.sampleRate = IF copied THEN audio.out["AudioSampleRate"]
                         ELSE Tightest(a.profile, AudioKind(a), target.audioCodecs,
                                       {target.container}, "AudioSampleRate")
  BY <1>16, <1>18
<1> QED BY <1>17, <1>18, <1>19, <1>20, <1>21, <1>22, <1>23, <1>24, <1>25
        DEF addr, method, audio, target

\* Some of it again, as implications.
LEMMA AddressNames ==
  ASSUME NEW src, Inspected(src), NEW a, WellFormed(a), Printable(src, a), NEW may, NEW d,
         d = Decide(src, a, may), d.target # None
  PROVE  LET addr == AddressOf(src, a, d)
             audio == d.plans.audio
         IN /\ addr \in Address
            /\ addr.video = a.video /\ addr.container = d.target.container
            /\ addr.protocol = d.target.protocol /\ addr.videoCodecs = d.target.videoCodecs
            /\ addr.audioCodecs \in {<<audio.codec>>, d.target.audioCodecs}
            /\ audio # None /\ audio.does = "copy" => addr.audioCodecs = <<audio.codec>>
            /\ ~(audio # None /\ audio.does = "copy") =>
                 addr.audioCodecs = d.target.audioCodecs
            /\ audio = None => addr.audio = None
            /\ audio # None => addr.audio = audio.index
<1> DEFINE addr == AddressOf(src, a, d)
           audio == d.plans.audio
<1>1. addr \in Address
  BY AddressSays
<1>2. /\ addr.video = a.video /\ addr.container = d.target.container
      /\ addr.protocol = d.target.protocol /\ addr.videoCodecs = d.target.videoCodecs
      /\ audio # None /\ audio.does = "copy" => addr.audioCodecs = <<audio.codec>>
      /\ ~(audio # None /\ audio.does = "copy") => addr.audioCodecs = d.target.audioCodecs
      /\ audio = None => addr.audio = None
      /\ audio # None => addr.audio = audio.index
  BY DEF AddressOf
<1> HIDE DEF addr, audio
<1> QED BY <1>1, <1>2 DEF addr, audio

----------------------------------------------------------------------------
(* The invariant.                                                          *)
\* What is kept of a negotiation follows from what was asked and seen, and what came of an
\* address from the address and what there is now.
Settled ==
  /\ Inspected(source) /\ WellFormed(ask) /\ Printable(source, ask) /\ policy \in Policies
  /\ at \in {"asked", "negotiated", "followed"}
  /\ at = "asked" => seen = None /\ decision = None /\ address = None
  /\ at # "asked" =>
       /\ seen \in Seen /\ Inspected(seen.source) /\ Printable(seen.source, ask)
       /\ ~ask.video /\ ask.profile # None => seen.source.audio # <<>>
       /\ decision = Decide(seen.source, ask, seen.policy)
       /\ address = IF decision.target = None THEN None
                    ELSE AddressOf(seen.source, ask, decision)
  /\ at = "followed" =>
       /\ address # None
       /\ delivery = Delivered(source, address)
       /\ answer = AnswerTo(source, address, delivery.plans, policy)
  /\ at # "followed" => delivery = None /\ answer = None

\* What the steps make of a request and of a file.
LEMMA AskingAgainIsWellFormed ==
  ASSUME NEW src, NEW a, WellFormed(a), Printable(src, a)
  PROVE  LET b == [a EXCEPT !.direct = FALSE]
         IN WellFormed(b) /\ Printable(src, b)
<1> DEFINE b == [a EXCEPT !.direct = FALSE]
<1>1. a \in Request /\ b \in Request /\ b.profile = a.profile
  BY DEF WellFormed, Request
<1> HIDE DEF b
<1>2. WellFormed(b)
  BY <1>1 DEF WellFormed
<1>3. Printable(src, b)
  BY <1>1 DEF Printable, Rates
<1> QED BY <1>2, <1>3 DEF b

\* A file with other files beside it is still one that was inspected.
LEMMA RescanIsInspected ==
  ASSUME NEW src, Inspected(src), src.container # <<>>, NEW files \in BesideIt
  PROVE  LET found == [src EXCEPT !.beside = files]
         IN /\ Inspected(found)
            /\ \A a : Printable(src, a) => Printable(found, a)
<1> DEFINE found == [src EXCEPT !.beside = files]
<1>1. files \in Seq(STRING)
  BY BesideAssumption
<1>2. /\ found \in Source /\ found.audio = src.audio /\ found.video = src.video
      /\ found.container = src.container
  <2>1. src \in Source
    BY DEF Inspected
  <2> QED BY <1>1, <2>1 DEF Source
<1> HIDE DEF found
<1>3. Inspected(found)
  BY <1>2 DEF Inspected
<1>4. \A a : Printable(src, a) => Printable(found, a)
  BY <1>2 DEF Printable, Rates
<1> QED BY <1>3, <1>4 DEF found

\* It holds initially and stays.
LEMMA SettledInitially == Init => Settled
<1> SUFFICES ASSUME Init PROVE Settled
  OBVIOUS
<1>1. Inspected(source) /\ WellFormed(ask) /\ Printable(source, ask)
  BY SourcesAssumption, AsksAssumption, PrintedAssumption DEF Init
<1> QED BY <1>1 DEF Init, Settled

\* What a negotiation leaves.
LEMMA NegotiationSettles ==
  ASSUME Settled, NEW asked, WellFormed(asked), Printable(source, asked), Negotiate(asked),
         ~Refusable(asked), delivery = None, answer = None
  PROVE  Settled'
<1> DEFINE now == [source |-> source, policy |-> policy]
           decided == Decide(source, asked, policy)
<1>1. /\ ask' = asked /\ seen' = now /\ decision' = decided /\ at' = "negotiated"
      /\ address' = IF decision'.target = None THEN None
                    ELSE AddressOf(source, asked, decision')
      /\ source' = source /\ policy' = policy /\ delivery' = None /\ answer' = None
  BY DEF Negotiate, Answered
<1>2. now \in Seen /\ now.source = source /\ now.policy = policy
  BY PoliciesAssumption DEF Settled, Seen, Inspected
<1> HIDE DEF now
<1>3. /\ Inspected(source)' /\ WellFormed(ask)' /\ Printable(source, ask)'
      /\ (policy \in Policies)'
  BY <1>1 DEF Settled
<1>4. /\ seen' \in Seen /\ Inspected(seen'.source) /\ Printable(seen'.source, ask')
      /\ ~ask'.video /\ ask'.profile # None => seen'.source.audio # <<>>
      /\ decision' = Decide(seen'.source, ask', seen'.policy)
      /\ address' = IF decision'.target = None THEN None
                    ELSE AddressOf(seen'.source, ask', decision')
  BY <1>1, <1>2 DEF Settled, Refusable
<1> QED BY <1>1, <1>3, <1>4 DEF Settled

\* Each step keeps it.
LEMMA SettledStays == Settled /\ [Next]_vars => Settled'
<1> SUFFICES ASSUME Settled, [Next]_vars PROVE Settled'
  OBVIOUS
<1>7. ASSUME UNCHANGED vars PROVE Settled'
  BY <1>7 DEF Settled, vars
<1>8. ASSUME NEW asked, Refusable(asked), Negotiate(asked) PROVE Settled'
  BY <1>7, <1>8 DEF Negotiate, Answered
<1>1. CASE Ask
  <2>1. WellFormed(ask) /\ Printable(source, ask) /\ delivery = None /\ answer = None
    BY <1>1 DEF Settled, Ask
  <2> QED BY <1>1, <1>8, <2>1, NegotiationSettles DEF Ask
<1>2. CASE AskAgain
  <2> DEFINE b == [ask EXCEPT !.direct = FALSE]
  <2>1. WellFormed(b) /\ Printable(source, b)
    BY AskingAgainIsWellFormed DEF Settled
  <2>2. Negotiate(b) /\ delivery = None /\ answer = None
    BY <1>2 DEF Settled, AskAgain
  <2> HIDE DEF b
  <2> QED BY <1>8, <2>1, <2>2, NegotiationSettles
<1>3. CASE Follow
  <2>1. /\ at' = "followed" /\ address' # None /\ at # "asked"
        /\ delivery' = Delivered(source', address')
        /\ answer' = AnswerTo(source', address', delivery'.plans, policy')
        /\ source' = source /\ policy' = policy /\ ask' = ask /\ seen' = seen
        /\ decision' = decision /\ address' = address
    BY <1>3 DEF Follow
  <2> QED BY <2>1 DEF Settled
<1>4. ASSUME Changes, Inspected(source'), Printable(source', ask), policy' \in Policies
      PROVE  Settled'
  <2>1. /\ at' = "negotiated" /\ at # "asked" /\ delivery' = None /\ answer' = None
        /\ ask' = ask /\ seen' = seen /\ decision' = decision /\ address' = address
    BY <1>4 DEF Changes
  <2> QED BY <1>4, <2>1 DEF Settled
<1>5. CASE Rescan
  <2>1. PICK files \in BesideIt : source' = [source EXCEPT !.beside = files]
    BY <1>5 DEF Rescan
  <2> source.container # <<>>
    BY <1>5 DEF Rescan
  <2>2. Inspected(source') /\ Printable(source', ask)
    BY <2>1, RescanIsInspected DEF Settled
  <2> QED BY <1>4, <1>5, <2>2 DEF Rescan, Settled
<1>6. CASE ChangePolicy
  BY <1>4, <1>6 DEF ChangePolicy, Settled
<1> QED BY <1>1, <1>2, <1>3, <1>5, <1>6, <1>7 DEF Next

\* At all times what is kept is the ladder's answer to what was asked and seen, the address
\* made of it and what following that address decides (`_negotiation`, `decide_delivery`).
THEOREM NegotiationIsSettled == Spec => []Settled
<1> QED BY SettledInitially, SettledStays, PTL DEF Spec

\* What is settled has its type.
LEMMA SettledIsTyped == Settled => TypeOK
<1> SUFFICES ASSUME Settled PROVE TypeOK
  OBVIOUS
<1>1. /\ Inspected(source) /\ WellFormed(ask) /\ policy \in Policies
      /\ at \in {"asked", "negotiated", "followed"}
  BY DEF Settled
<1>2. /\ seen \in Seen \cup {None} /\ (at = "asked" <=> seen = None)
  BY NothingAssumption DEF Settled
<1>3. ASSUME at # "asked"
      PROVE  /\ decision \in Decision /\ decision # None
             /\ address \in Address \cup {None}
             /\ address # None <=> decision.outcome \in {"remux", "transcode"}
  <2>1. /\ Inspected(seen.source) /\ Printable(seen.source, ask)
        /\ decision = Decide(seen.source, ask, seen.policy)
        /\ address = IF decision.target = None THEN None
                     ELSE AddressOf(seen.source, ask, decision)
    BY <1>3 DEF Settled
  <2>2. /\ decision \in Decision
        /\ decision.target = None => decision.outcome \in {"direct", "none"}
        /\ decision.target # None => decision.outcome \in {"remux", "transcode"}
    <3> DEFINE src == seen.source
               may == seen.policy
               d == Decide(src, ask, may)
    <3>1. Inspected(src) /\ decision = d
      BY <2>1
    <3> HIDE DEF src, may
    <3>2. /\ d \in Decision
          /\ d.target = None => d.outcome \in {"direct", "none"}
          /\ d.target # None => d.outcome \in {"remux", "transcode"}
      BY <1>1, <3>1, Decided
    <3> HIDE DEF d
    <3> QED BY <3>1, <3>2
  <2>3. decision.target # None => address \in Address
    BY <1>1, <2>1, AddressSays
  <2> QED BY <2>1, <2>2, <2>3, NoneAssumption, NothingAssumption
<1>4. at = "asked" => decision = None /\ address = None
  BY DEF Settled
<1>5. ASSUME at = "followed"
      PROVE  /\ delivery \in Decision /\ delivery # None
             /\ delivery.outcome \in {"remux", "transcode"}
             /\ answer \in Answers /\ answer # None
  <2>1. /\ address # None /\ delivery = Delivered(source, address)
        /\ answer = AnswerTo(source, address, delivery.plans, policy)
    BY <1>5 DEF Settled
  <2>2. address \in Address
    BY <1>3, <1>5, <2>1
  <2>3. delivery \in Decision /\ delivery.outcome \in {"remux", "transcode"}
    BY <1>1, <2>1, <2>2, DeliveryProduces
  <2>4. answer \in Answers
    BY <2>1 DEF AnswerTo, Answers
  <2> QED BY <2>3, <2>4, NoneAssumption, NothingAssumption
<1>6. at # "followed" => delivery = None /\ answer = None
  BY DEF Settled
<1>7. decision \in Decision \cup {None} /\ (at = "asked" <=> decision = None)
  BY <1>3, <1>4
<1>8. /\ address \in Address \cup {None}
      /\ decision # None => (address # None <=> decision.outcome \in {"remux", "transcode"})
  BY <1>3, <1>4
<1>9. /\ delivery \in Decision \cup {None} /\ answer \in Answers \cup {None}
      /\ (at = "followed" <=> delivery # None) /\ (answer = None <=> delivery = None)
      /\ delivery # None => delivery.outcome \in {"remux", "transcode"}
  BY <1>5, <1>6
<1> QED BY <1>1, <1>2, <1>7, <1>8, <1>9 DEF TypeOK

\* Whatever is decided has its type, and what an address leads to is a production.
THEOREM NegotiationTypesHold == Spec => []TypeOK
<1> QED BY NegotiationIsSettled, SettledIsTyped, PTL

----------------------------------------------------------------------------
(* How an address is decided on again.                                     *)
\* A value is over a limit, or may be: it is not known.
Over(limit, value) == limit # None /\ (value = None \/ limit < value)

\* The condition that a limit of an address becomes.
AtMost(property, limit) ==
  [property |-> property, is |-> "atMost", value |-> limit, required |-> TRUE]

\* An address says nothing but upper limits.
LEMMA AddressSaysAtMost ==
  ASSUME NEW addr \in Address, NEW kind \in Kinds(addr.video)
  PROVE  LET limits == AddressLimits(addr, kind)
             entry == LimitedTo(kind, limits)
         IN /\ entry.kind = kind /\ entry.codec = Anything /\ entry.container = Anything
            /\ entry.when = {}
            /\ entry.conditions =
                 {AtMost(p, limits[p]) : p \in {q \in DOMAIN limits : limits[q] # None}}
<1> DEFINE limits == AddressLimits(addr, kind)
           entry == LimitedTo(kind, limits)
<1>1. kind \in {"Video", "VideoAudio", "Audio"}
  BY DEF Kinds
<1>2. /\ DOMAIN limits \subseteq Numbers /\ IsFiniteSet(DOMAIN limits)
      /\ \A p \in DOMAIN limits : limits[p] \in Value
  BY LimitsAreValues
<1> HIDE DEF limits
<1>3. /\ entry.kind = kind /\ entry.codec = Anything /\ entry.container = Anything
      /\ entry.when = {}
      /\ entry.conditions =
           {[property |-> p, is |-> "atMost", value |-> limits[p], required |-> TRUE] :
              p \in {q \in DOMAIN limits : limits[q] # None}}
  BY <1>1, <1>2, LimitsAreAnEntry
<1> HIDE DEF entry
<1> QED BY <1>3 DEF limits, entry, AtMost

\* Of the entries an address is read as, one is for each kind of stream.
LEMMA OneEntryIsAbout ==
  ASSUME NEW src, Inspected(src), NEW addr \in Address, NEW kind \in Kinds(addr.video),
         NEW codec, codec # None, NEW names, names # {}, NEW entry
  PROVE  entry \in About(AskOf(src, addr).profile, kind, codec, names)
           <=> entry = LimitedTo(kind, AddressLimits(addr, kind))
<1> DEFINE codecs == AskOf(src, addr).profile.codecs
           Entry(k) == LimitedTo(k, AddressLimits(addr, k))
<1>1. codecs = {Entry(k) : k \in Kinds(addr.video)}
  BY AddressIsAsked
<1>2. \A k \in Kinds(addr.video) : /\ Entry(k).kind = k
                                   /\ Entry(k).codec = Anything /\ Entry(k).container = Anything
  BY AddressSaysAtMost
<1>3. Admits(Anything, names)
  BY DEF Admits, Anything
<1>4. Admits(Anything, {codec} \ {None})
  BY NoneAssumption DEF Admits, Anything
<1>5. About(AskOf(src, addr).profile, kind, codec, names)
        = {e \in codecs : e.kind = kind /\ Admits(e.container, names)
                                        /\ Admits(e.codec, {codec} \ {None})}
  BY DEF About
<1> HIDE DEF codecs, Entry
<1> QED BY <1>1, <1>2, <1>3, <1>4, <1>5 DEF Entry

\* What an address limits is what a delivery requires.
LEMMA LimitsAreRequired ==
  ASSUME NEW src, Inspected(src), NEW addr \in Address, NEW kind \in Kinds(addr.video),
         NEW codec, codec # None, NEW names, names # {}, NEW properties,
         NEW values \in [properties -> Value],
         DOMAIN AddressLimits(addr, kind) \subseteq properties
  PROVE  Failures(AskOf(src, addr).profile, kind, codec, names, values) = {}
           <=> \A p \in DOMAIN AddressLimits(addr, kind) :
                 ~Over(AddressLimits(addr, kind)[p], values[p])
<1>0. About(AskOf(src, addr).profile, kind, codec, names)
        = {LimitedTo(kind, AddressLimits(addr, kind))}
  <2>1. ASSUME NEW e \in About(AskOf(src, addr).profile, kind, codec, names)
        PROVE  e = LimitedTo(kind, AddressLimits(addr, kind))
    BY OneEntryIsAbout
  <2>2. LimitedTo(kind, AddressLimits(addr, kind))
          \in About(AskOf(src, addr).profile, kind, codec, names)
    BY OneEntryIsAbout
  <2> QED BY <2>1, <2>2
<1> DEFINE profile == AskOf(src, addr).profile
           limits == AddressLimits(addr, kind)
           entry == LimitedTo(kind, limits)
           stated == {p \in DOMAIN limits : limits[p] # None}
<1>1. About(profile, kind, codec, names) = {entry}
  BY <1>0
<1>2. /\ DOMAIN limits \subseteq Numbers /\ DOMAIN limits \subseteq properties
      /\ \A p \in DOMAIN limits : limits[p] \in Value
  BY LimitsAreValues
<1>3. entry.when = {} /\ entry.conditions = {AtMost(p, limits[p]) : p \in stated}
  BY AddressSaysAtMost
<1>4. \A p \in DOMAIN limits : p \notin Silent /\ p \in Numbers
  BY <1>2 DEF Numbers, Silent
<1>5. Failures(profile, kind, codec, names, values)
        = {c \in entry.conditions :
             c.property \notin Silent /\ ~Holds(c, Measured(values, c.property))}
  <2>1. AllHold(entry.when, values)
    BY <1>3 DEF AllHold
  <2> HIDE DEF entry, profile
  <2>2. {e \in About(profile, kind, codec, names) : AllHold(e.when, values)} = {entry}
    BY <1>1, <2>1
  <2>3. UNION {e.conditions : e \in {entry}} = entry.conditions
    OBVIOUS
  <2> QED BY <2>2, <2>3 DEF Failures
<1> HIDE DEF entry, limits, profile
<1>6. ASSUME NEW p \in stated
      PROVE  ~Holds(AtMost(p, limits[p]), Measured(values, p)) <=> Over(limits[p], values[p])
  <2>1. Measured(values, p) = values[p] /\ values[p] \in Value /\ limits[p] \in Int
    BY <1>2 DEF Measured, Value
  <2>2. CASE values[p] = None
    BY <2>1, <2>2 DEF Holds, Over, AtMost
  <2>3. CASE values[p] # None
    <3>1. values[p] \in Int
      BY <2>1, <2>3 DEF Value
    <3>2. Holds(AtMost(p, limits[p]), values[p]) <=> values[p] <= limits[p]
      BY <1>4, <2>3 DEF Holds, AtMost
    <3>3. Over(limits[p], values[p]) <=> limits[p] < values[p]
      BY <2>3 DEF Over
    <3> QED BY <2>1, <3>1, <3>2, <3>3
  <2> QED BY <2>2, <2>3
<1>7. Failures(profile, kind, codec, names, values) = {}
        <=> \A p \in stated : Holds(AtMost(p, limits[p]), Measured(values, p))
  <2>1. \A p : AtMost(p, limits[p]).property = p
    BY DEF AtMost
  <2> QED BY <1>3, <1>4, <1>5, <2>1
<1>8. \A p \in DOMAIN limits : p \notin stated => ~Over(limits[p], values[p])
  BY DEF Over
<1>9. Failures(profile, kind, codec, names, values) = {}
        <=> \A p \in DOMAIN limits : ~Over(limits[p], values[p])
  BY <1>6, <1>7, <1>8
<1> QED BY <1>9 DEF limits, profile

\* And what an encode is clamped to.
LEMMA LimitsAreCeilings ==
  ASSUME NEW src, Inspected(src), NEW addr \in Address, NEW kind \in Kinds(addr.video),
         NEW codec, codec # None, NEW names, names # {}
  PROVE  \A p \in DOMAIN AddressLimits(addr, kind) :
           Ceiling(AskOf(src, addr).profile, kind, codec, names, p)
             = AddressLimits(addr, kind)[p]
<1>0. About(AskOf(src, addr).profile, kind, codec, names)
        = {LimitedTo(kind, AddressLimits(addr, kind))}
  <2>1. ASSUME NEW e \in About(AskOf(src, addr).profile, kind, codec, names)
        PROVE  e = LimitedTo(kind, AddressLimits(addr, kind))
    BY OneEntryIsAbout
  <2>2. LimitedTo(kind, AddressLimits(addr, kind))
          \in About(AskOf(src, addr).profile, kind, codec, names)
    BY OneEntryIsAbout
  <2> QED BY <2>1, <2>2
<1> TAKE p \in DOMAIN AddressLimits(addr, kind)
<1> DEFINE profile == AskOf(src, addr).profile
           limits == AddressLimits(addr, kind)
           entry == LimitedTo(kind, limits)
           stated == {q \in DOMAIN limits : limits[q] # None}
           ceil == Ceiling(profile, kind, codec, names, p)
<1>1. About(profile, kind, codec, names) = {entry}
  BY <1>0
<1>2. entry.conditions = {AtMost(q, limits[q]) : q \in stated}
  BY AddressSaysAtMost
<1>3. Finite(profile)
  <2>1. WellFormed(AskOf(src, addr)) /\ AskOf(src, addr).profile # None
    BY AddressIsAsked
  <2> QED BY <2>1, RequestHasParts
<1> HIDE DEF entry, limits, profile
<1>4. /\ ceil \in Value
      /\ ceil # None => \E c \in entry.conditions : Limiting(c, p) /\ c.value = ceil
      /\ \A c \in entry.conditions : Limiting(c, p) => ceil # None
  BY <1>1, <1>3, CeilingIsTheLeast
<1> HIDE DEF ceil
<1>5. \A q : LET c == AtMost(q, limits[q])
             IN c.property = q /\ c.is = "atMost" /\ c.value = limits[q]
  BY DEF AtMost
<1>6. ceil # None => ceil = limits[p]
  BY <1>2, <1>4, <1>5 DEF Limiting
<1>7. limits[p] # None => ceil # None
  <2> SUFFICES ASSUME limits[p] # None PROVE ceil # None
    OBVIOUS
  <2>1. AtMost(p, limits[p]) \in entry.conditions /\ Limiting(AtMost(p, limits[p]), p)
    BY <1>2, <1>5 DEF Limiting, limits
  <2> QED BY <1>4, <2>1
<1> QED BY <1>6, <1>7 DEF ceil, limits, profile

\* An address was made for a decision and followed while the file was the same.
Redelivery(src, a, may, d, addr, e) ==
  /\ Inspected(src) /\ WellFormed(a) /\ Printable(src, a)
  /\ d = Decide(src, a, may) /\ d.target # None
  /\ addr = AddressOf(src, a, d)
  /\ e = Delivered(src, addr)

\* The second decision is about the streams of the first and the codecs of its target.
LEMMA SameStreams ==
  ASSUME NEW src, NEW a, NEW may, NEW d, NEW addr, NEW e, Redelivery(src, a, may, d, addr, e)
  PROVE  LET target == d.target
             b == AskOf(src, addr)
             read == TargetOf(src, addr)
         IN /\ Inspected(src) /\ WellFormed(a) /\ a.profile # None /\ addr \in Address
            /\ target \in TranscodingProfile /\ Producible(src, a, target)
            /\ d.plans = Plans(src, a, target)
            /\ WellFormed(b) /\ b.profile # None /\ b.copyVideo /\ b.copyAudio /\ Cap(b) = None
            /\ read \in TranscodingProfile /\ Producible(src, b, read)
            /\ e.plans = Plans(src, b, read)
            /\ VideoOf(src, b) = VideoOf(src, a) /\ AudioOf(src, b) = AudioOf(src, a)
            /\ AudioKind(b) = AudioKind(a) /\ Kinds(addr.video) = {"Video", AudioKind(a)}
            /\ read.container = target.container
            /\ VideoOf(src, a) # None => read.videoCodecs = target.videoCodecs
            /\ AudioOf(src, a) # None => read.audioCodecs = addr.audioCodecs
<1> DEFINE target == d.target
           b == AskOf(src, addr)
           read == TargetOf(src, addr)
           audio == d.plans.audio
<1>1. /\ Inspected(src) /\ WellFormed(a) /\ Printable(src, a)
      /\ d = Decide(src, a, may) /\ target # None
      /\ addr = AddressOf(src, a, d) /\ e = Delivered(src, addr)
  BY DEF Redelivery
<1>2. /\ a.profile # None /\ target \in TranscodingProfile
      /\ Producible(src, a, target) /\ d.plans = Plans(src, a, target)
  BY <1>1, Decided
<1>3. /\ addr \in Address
      /\ addr.video = a.video /\ addr.container = target.container
      /\ addr.videoCodecs = target.videoCodecs
      /\ addr.audioCodecs \in {<<audio.codec>>, target.audioCodecs}
      /\ audio = None => addr.audio = None
      /\ audio # None => addr.audio = audio.index
  BY <1>1, AddressNames
<1>4. /\ WellFormed(b) /\ b.profile # None /\ b.copyVideo /\ b.copyAudio /\ Cap(b) = None
      /\ b.video = a.video /\ b.audio = addr.audio /\ read \in TranscodingProfile
  BY <1>1, <1>3, AddressIsAsked
<1>5. Producible(src, b, read) /\ e.plans = Plans(src, b, read)
  BY <1>1, <1>3, DeliveryProduces
<1>6. audio # None <=> AudioOf(src, a) # None
  BY <1>1, <1>2, PlansAreTyped
<1>7. audio # None => audio.index = Index(src, AudioOf(src, a))
  <2> SUFFICES ASSUME audio # None PROVE audio.index = Index(src, AudioOf(src, a))
    OBVIOUS
  <2>1. AudioOf(src, a) # None /\ audio = PlanAudio(src, a, AudioOf(src, a), target)
    BY <1>1, <1>2, PlansAreTyped
  <2>2. PlanAudio(src, a, AudioOf(src, a), target).index = Index(src, AudioOf(src, a))
    BY <1>1, <1>2, <2>1, AudioPlan
  <2> QED BY <2>1, <2>2
<1> HIDE DEF b, read, target, audio
<1>8. VideoOf(src, b) = VideoOf(src, a) /\ AudioKind(b) = AudioKind(a)
      /\ Kinds(addr.video) = {"Video", AudioKind(a)}
  BY <1>3, <1>4 DEF VideoOf, AudioKind, Kinds
<1>9. AudioOf(src, b) = AudioOf(src, a)
  <2>1. CASE AudioOf(src, a) = None
    <3>1. src.audio = <<>>
      BY <1>1, <2>1, StreamsAreInspected
    <3>2. AudioOf(src, b) = None
      BY <1>1, <3>1, StreamsAreInspected
    <3> QED BY <2>1, <3>2
  <2>2. CASE AudioOf(src, a) # None
    <3>1. b.audio = Index(src, AudioOf(src, a))
      BY <1>3, <1>4, <1>6, <1>7, <2>2
    <3>2. src.audio # <<>>
      BY <1>1, <2>2, StreamsAreInspected
    <3>3. PICK i \in DOMAIN src.audio : AudioOf(src, a) = src.audio[i]
      BY <1>1, <3>2, SelectedAudioIsOne DEF AudioOf
    <3>4. Index(src, src.audio[i]) = b.audio
      BY <3>1, <3>3
    <3>5. AudioOf(src, b) = src.audio[i]
      BY <1>1, <3>2, <3>4, SelectedAudioIsOne DEF AudioOf
    <3> QED BY <3>3, <3>5
  <2> QED BY <2>1, <2>2
<1>10. read.container = target.container
  BY <1>3 DEF read, TargetOf
<1>11. VideoOf(src, a) # None => read.videoCodecs = target.videoCodecs
  <2>1. VideoOf(src, a) # None => target.videoCodecs # <<>>
    BY <1>2 DEF Producible
  <2> QED BY <1>3, <2>1 DEF read, TargetOf, Own
<1>12. AudioOf(src, a) # None => read.audioCodecs = addr.audioCodecs
  <2>1. AudioOf(src, a) # None => target.audioCodecs # <<>>
    BY <1>2 DEF Producible
  <2>2. <<audio.codec>> # <<>>
    OBVIOUS
  <2>3. AudioOf(src, a) # None => addr.audioCodecs # <<>>
    BY <1>3, <2>1, <2>2
  <2> QED BY <2>3 DEF read, TargetOf, Own
<1> QED BY <1>1, <1>2, <1>3, <1>4, <1>5, <1>8, <1>9, <1>10, <1>11, <1>12
        DEF b, read, target

\* What is done to the video at delivery.
VideoDelivered(src, a, d, addr, e) ==
  LET plan == e.plans.video
      values == Values(src, src.video)
      codecs == d.target.videoCodecs
  IN /\ plan \in StreamPlan(VideoProperties) /\ plan # None
     /\ src.video \in VideoStream
     /\ plan.index = Index(src, src.video)
     /\ plan.codec \in ToSet(codecs)
     /\ plan.does = "copy" =>
          plan.codec = src.video.codec /\ plan.out = src.video.values
     /\ plan.does = "encode" =>
          /\ plan.out["Height"] = Clamped(addr.height, values["Height"])
          /\ plan.out["VideoBitrate"] = Clamped(addr.videoBitrate, values["VideoBitrate"])
     /\ plan.does = "copy" <=>
          /\ src.video.codec \in ToSet(codecs)
          /\ ~Over(addr.height, values["Height"])
          /\ ~Over(addr.videoBitrate, values["VideoBitrate"])
          /\ ~Over(addr.frameRate, values["VideoFramerate"])

\* That is what the second decision comes to.
LEMMA VideoRedelivered ==
  ASSUME NEW src, NEW a, NEW may, NEW d, NEW addr, NEW e, Redelivery(src, a, may, d, addr, e),
         VideoOf(src, a) # None
  PROVE  VideoDelivered(src, a, d, addr, e)
<1> DEFINE b == AskOf(src, addr)
           read == TargetOf(src, addr)
           plan == e.plans.video
           values == Values(src, src.video)
           codecs == d.target.videoCodecs
           names == {read.container}
           limits == AddressLimits(addr, "Video")
<1>1. /\ Inspected(src) /\ addr \in Address
      /\ WellFormed(b) /\ b.profile # None /\ b.copyVideo /\ Cap(b) = None
      /\ read \in TranscodingProfile /\ Producible(src, b, read)
      /\ e.plans = Plans(src, b, read)
      /\ VideoOf(src, b) # None /\ "Video" \in Kinds(addr.video)
      /\ read.videoCodecs = codecs
  BY SameStreams
<1> HIDE DEF b, read, codecs
<1>2. plan = PlanVideo(src, b, read)
  BY <1>1, PlansAreTyped
<1>3. /\ plan \in StreamPlan(VideoProperties) /\ plan # None
      /\ src.video \in VideoStream
      /\ plan.index = Index(src, src.video)
      /\ plan.codec \in ToSet(codecs)
      /\ plan.does = "copy" => plan.codec = src.video.codec /\ plan.out = src.video.values
      /\ plan.does = "encode" =>
           /\ plan.out["Height"] =
                Clamped(Ceiling(b.profile, "Video", plan.codec, names, "Height"),
                        values["Height"])
           /\ plan.out["VideoBitrate"] =
                Clamped(Capped(Ceiling(b.profile, "Video", plan.codec, names, "VideoBitrate"),
                               Cap(b)), values["VideoBitrate"])
      /\ plan.does = "copy" <=>
           /\ b.copyVideo /\ src.video.codec \in ToSet(codecs)
           /\ Failures(b.profile, "Video", src.video.codec, names, values) = {}
           /\ WithinCap(src, Cap(b))
  BY <1>1, <1>2, VideoPlan
<1>4. /\ values \in [VideoProperties -> Value] /\ src.video.codec \in STRING
  BY <1>1, <1>3, StreamHasParts, ValuesAreValues
<1>5. /\ src.video.codec # None /\ plan.codec # None
  <2>1. plan.codec \in STRING
    BY <1>3 DEF StreamPlan
  <2> QED BY <1>4, <2>1, NoneAssumption
<1>6. /\ DOMAIN limits = {"Height", "VideoBitrate", "VideoFramerate"}
      /\ DOMAIN limits \subseteq VideoProperties
      /\ limits["Height"] = addr.height /\ limits["VideoBitrate"] = addr.videoBitrate
      /\ limits["VideoFramerate"] = addr.frameRate
  BY DEF AddressLimits, VideoProperties
<1>7. names # {}
  OBVIOUS
<1> HIDE DEF plan, values, names
<1>8. /\ Failures(b.profile, "Video", src.video.codec, names, values) = {}
           <=> \A p \in DOMAIN limits : ~Over(limits[p], values[p])
  BY <1>1, <1>4, <1>5, <1>6, <1>7, LimitsAreRequired DEF b
<1>9. \A p \in DOMAIN limits : Ceiling(b.profile, "Video", plan.codec, names, p) = limits[p]
  BY <1>1, <1>5, <1>7, LimitsAreCeilings DEF b
<1> HIDE DEF limits
<1>10. Failures(b.profile, "Video", src.video.codec, names, values) = {}
         <=> /\ ~Over(addr.height, values["Height"])
             /\ ~Over(addr.videoBitrate, values["VideoBitrate"])
             /\ ~Over(addr.frameRate, values["VideoFramerate"])
  BY <1>6, <1>8
<1>11. /\ Ceiling(b.profile, "Video", plan.codec, names, "Height") = addr.height
       /\ Ceiling(b.profile, "Video", plan.codec, names, "VideoBitrate") = addr.videoBitrate
  BY <1>6, <1>9
<1>12. \A l : Capped(l, None) = l
  BY DEF Capped
<1>13. WithinCap(src, None)
  BY DEF WithinCap
<1>14. plan.does = "encode" =>
         /\ plan.out["Height"] = Clamped(addr.height, values["Height"])
         /\ plan.out["VideoBitrate"] = Clamped(addr.videoBitrate, values["VideoBitrate"])
  BY <1>1, <1>3, <1>11, <1>12
<1>15. plan.does = "copy" <=>
         /\ src.video.codec \in ToSet(codecs)
         /\ ~Over(addr.height, values["Height"])
         /\ ~Over(addr.videoBitrate, values["VideoBitrate"])
         /\ ~Over(addr.frameRate, values["VideoFramerate"])
  BY <1>1, <1>3, <1>10, <1>13
<1> QED BY <1>3, <1>14, <1>15 DEF VideoDelivered, plan, values, codecs

\* What is done to the sound at delivery.
AudioDelivered(src, a, d, addr, e) ==
  LET plan == e.plans.audio
      stream == AudioOf(src, a)
      values == Values(src, stream)
  IN /\ plan \in StreamPlan(AudioProperties) /\ plan # None
     /\ stream \in AudioStream
     /\ plan.index = Index(src, stream)
     /\ plan.codec \in ToSet(addr.audioCodecs)
     /\ plan.does = "copy" => plan.codec = stream.codec /\ plan.out = stream.values
     /\ plan.does = "encode" =>
          /\ plan.out["AudioBitrate"] =
               Clamped(addr.audioBitrate, stream.values["AudioBitrate"])
          /\ plan.out["AudioSampleRate"] =
               Clamped(addr.sampleRate, stream.values["AudioSampleRate"])
     /\ plan.does = "copy" <=>
          /\ stream.codec \in ToSet(addr.audioCodecs)
          /\ ~Over(addr.audioBitrate, values["AudioBitrate"])
          /\ ~Over(addr.sampleRate, values["AudioSampleRate"])

\* And that for the sound.
LEMMA AudioRedelivered ==
  ASSUME NEW src, NEW a, NEW may, NEW d, NEW addr, NEW e, Redelivery(src, a, may, d, addr, e),
         AudioOf(src, a) # None
  PROVE  AudioDelivered(src, a, d, addr, e)
<1> DEFINE b == AskOf(src, addr)
           read == TargetOf(src, addr)
           plan == e.plans.audio
           stream == AudioOf(src, a)
           values == Values(src, stream)
           kind == AudioKind(a)
           names == {read.container}
           limits == AddressLimits(addr, kind)
<1>1. /\ Inspected(src) /\ addr \in Address
      /\ WellFormed(b) /\ b.profile # None /\ b.copyAudio
      /\ read \in TranscodingProfile /\ Producible(src, b, read)
      /\ e.plans = Plans(src, b, read)
      /\ AudioOf(src, b) = stream /\ stream # None
      /\ AudioKind(b) = kind /\ kind \in Kinds(addr.video)
      /\ read.audioCodecs = addr.audioCodecs
  BY SameStreams
<1>2. kind # "Video"
  BY DEF AudioKind
<1> HIDE DEF b, read, kind
<1>3. plan = PlanAudio(src, b, stream, read)
  <2> HIDE DEF stream
  <2> QED BY <1>1, PlansAreTyped
<1>4. /\ plan \in StreamPlan(AudioProperties) /\ plan # None
      /\ stream \in AudioStream
      /\ plan.index = Index(src, stream)
      /\ plan.codec \in ToSet(read.audioCodecs)
      /\ plan.does = "copy" => plan.codec = stream.codec /\ plan.out = stream.values
      /\ plan.does = "encode" =>
           /\ plan.out["AudioBitrate"] =
                Clamped(Ceiling(b.profile, kind, plan.codec, names, "AudioBitrate"),
                        stream.values["AudioBitrate"])
           /\ plan.out["AudioSampleRate"] =
                Clamped(Ceiling(b.profile, kind, plan.codec, names, "AudioSampleRate"),
                        stream.values["AudioSampleRate"])
      /\ plan.does = "copy" <=>
           /\ b.copyAudio /\ stream.codec \in ToSet(read.audioCodecs)
           /\ Failures(b.profile, kind, stream.codec, names, values) = {}
  <2> DEFINE own == AudioOf(src, b)
             made == PlanAudio(src, b, own, read)
  <2>1. own = stream /\ plan = made /\ own # None /\ AudioKind(b) = kind
    BY <1>1, <1>3
  <2>2. /\ made \in StreamPlan(AudioProperties) /\ made # None
        /\ own \in AudioStream
        /\ made.index = Index(src, own)
        /\ made.codec \in ToSet(read.audioCodecs)
        /\ made.does = "copy" => made.codec = own.codec /\ made.out = own.values
        /\ made.does = "encode" =>
             /\ made.out["AudioBitrate"] =
                  Clamped(Ceiling(b.profile, AudioKind(b), made.codec, names, "AudioBitrate"),
                          own.values["AudioBitrate"])
             /\ made.out["AudioSampleRate"] =
                  Clamped(Ceiling(b.profile, AudioKind(b), made.codec, names,
                                  "AudioSampleRate"), own.values["AudioSampleRate"])
        /\ made.does = "copy" <=>
             /\ b.copyAudio /\ own.codec \in ToSet(read.audioCodecs)
             /\ Failures(b.profile, AudioKind(b), own.codec, names, Values(src, own)) = {}
    BY <1>1, <2>1, AudioPlan
  <2> HIDE DEF made, own, stream
  <2> QED BY <2>1, <2>2
<1> HIDE DEF stream
<1>5. /\ values \in [AudioProperties -> Value] /\ stream.codec \in STRING
  BY <1>1, <1>4, StreamHasParts, ValuesAreValues
<1>6. /\ stream.codec # None /\ plan.codec # None
  <2>1. plan.codec \in STRING
    BY <1>4 DEF StreamPlan
  <2> QED BY <1>5, <2>1, NoneAssumption
<1>7. /\ DOMAIN limits = {"AudioBitrate", "AudioSampleRate"}
      /\ DOMAIN limits \subseteq AudioProperties
      /\ limits["AudioBitrate"] = addr.audioBitrate
      /\ limits["AudioSampleRate"] = addr.sampleRate
  BY <1>2 DEF AddressLimits, AudioProperties
<1>8. names # {}
  OBVIOUS
<1> HIDE DEF plan, values, names
<1>9. Failures(b.profile, kind, stream.codec, names, values) = {}
        <=> \A p \in DOMAIN limits : ~Over(limits[p], values[p])
  <2> DEFINE codec == stream.codec
  <2>1. /\ Inspected(src) /\ addr \in Address /\ kind \in Kinds(addr.video)
        /\ codec # None /\ names # {} /\ values \in [AudioProperties -> Value]
        /\ DOMAIN AddressLimits(addr, kind) \subseteq AudioProperties
    BY <1>1, <1>5, <1>6, <1>7, <1>8
  <2> HIDE DEF codec
  <2>2. Failures(AskOf(src, addr).profile, kind, codec, names, values) = {}
          <=> \A p \in DOMAIN AddressLimits(addr, kind) :
                ~Over(AddressLimits(addr, kind)[p], values[p])
    BY <2>1, LimitsAreRequired
  <2> QED BY <2>2 DEF codec, b
<1>10. \A p \in DOMAIN limits : Ceiling(b.profile, kind, plan.codec, names, p) = limits[p]
  BY <1>1, <1>6, <1>8, LimitsAreCeilings DEF b
<1> HIDE DEF limits
<1>11. Failures(b.profile, kind, stream.codec, names, values) = {}
         <=> /\ ~Over(addr.audioBitrate, values["AudioBitrate"])
             /\ ~Over(addr.sampleRate, values["AudioSampleRate"])
  BY <1>7, <1>9
<1>12. /\ Ceiling(b.profile, kind, plan.codec, names, "AudioBitrate") = addr.audioBitrate
       /\ Ceiling(b.profile, kind, plan.codec, names, "AudioSampleRate") = addr.sampleRate
  BY <1>7, <1>10
<1>13. plan.does = "encode" =>
         /\ plan.out["AudioBitrate"] = Clamped(addr.audioBitrate, stream.values["AudioBitrate"])
         /\ plan.out["AudioSampleRate"] =
              Clamped(addr.sampleRate, stream.values["AudioSampleRate"])
  BY <1>4, <1>12
<1>14. plan.does = "copy" <=>
         /\ stream.codec \in ToSet(addr.audioCodecs)
         /\ ~Over(addr.audioBitrate, values["AudioBitrate"])
         /\ ~Over(addr.sampleRate, values["AudioSampleRate"])
  BY <1>1, <1>4, <1>11
<1> QED BY <1>1, <1>4, <1>13, <1>14 DEF AudioDelivered, plan, values, stream

----------------------------------------------------------------------------
(* Both decisions, stream by stream.                                       *)
\* A settled negotiation that was followed is such a pair of decisions.
LEMMA DeliveryIsRedelivery ==
  ASSUME Settled, Delivers
  PROVE  Redelivery(source, ask, seen.policy, decision, address, delivery)
<1>1. at # "asked" /\ at = "followed" /\ source = seen.source
  BY DEF Delivers
<1>2. /\ Inspected(source) /\ WellFormed(ask) /\ Printable(source, ask)
      /\ decision = Decide(source, ask, seen.policy)
      /\ address = IF decision.target = None THEN None ELSE AddressOf(source, ask, decision)
      /\ address # None /\ delivery = Delivered(source, address)
  BY <1>1 DEF Settled
<1> QED BY <1>2 DEF Redelivery

\* The streams of both decisions are those of the file.
LEMMA StreamsOfBoth ==
  ASSUME NEW src, NEW a, NEW may, NEW d, NEW addr, NEW e, Redelivery(src, a, may, d, addr, e)
  PROVE  /\ DOMAIN d.plans = {"video", "audio"} /\ DOMAIN e.plans = {"video", "audio"}
         /\ d.plans.video = None <=> VideoOf(src, a) = None
         /\ e.plans.video = None <=> VideoOf(src, a) = None
         /\ d.plans.audio = None <=> AudioOf(src, a) = None
         /\ e.plans.audio = None <=> AudioOf(src, a) = None
         /\ d.plans.video # None => d.plans.video = PlanVideo(src, a, d.target)
         /\ d.plans.audio # None =>
              d.plans.audio = PlanAudio(src, a, AudioOf(src, a), d.target)
<1> DEFINE b == AskOf(src, addr)
           read == TargetOf(src, addr)
           target == d.target
<1>1. /\ Inspected(src) /\ WellFormed(a) /\ a.profile # None
      /\ target \in TranscodingProfile /\ Producible(src, a, target)
      /\ d.plans = Plans(src, a, target)
      /\ WellFormed(b) /\ b.profile # None
      /\ read \in TranscodingProfile /\ Producible(src, b, read)
      /\ e.plans = Plans(src, b, read)
      /\ VideoOf(src, b) = VideoOf(src, a) /\ AudioOf(src, b) = AudioOf(src, a)
  BY SameStreams
<1> HIDE DEF b, read, target
<1>2. /\ DOMAIN d.plans = {"video", "audio"}
      /\ d.plans.video = None <=> VideoOf(src, a) = None
      /\ d.plans.audio = None <=> AudioOf(src, a) = None
      /\ d.plans.video # None => d.plans.video = PlanVideo(src, a, target)
      /\ d.plans.audio # None => d.plans.audio = PlanAudio(src, a, AudioOf(src, a), target)
  BY <1>1, PlansAreTyped
<1>3. /\ DOMAIN e.plans = {"video", "audio"}
      /\ e.plans.video = None <=> VideoOf(src, b) = None
      /\ e.plans.audio = None <=> AudioOf(src, b) = None
  BY <1>1, PlansAreTyped
<1> QED BY <1>1, <1>2, <1>3 DEF target

\* What was negotiated for the video.
VideoPlanned(src, a, d) ==
  LET plan == d.plans.video
      values == Values(src, src.video)
      names == {d.target.container}
      Limit(p) == Ceiling(a.profile, "Video", plan.codec, names, p)
  IN /\ plan \in StreamPlan(VideoProperties) /\ plan # None
     /\ VideoOf(src, a) = src.video
     /\ plan.index = Index(src, src.video)
     /\ plan.codec \in ToSet(d.target.videoCodecs)
     /\ plan.does = "copy" =>
          plan.codec = src.video.codec /\ plan.out = src.video.values
     /\ plan.does = "encode" =>
          /\ plan.out["Height"] = Clamped(Limit("Height"), values["Height"])
          /\ plan.out["VideoBitrate"] =
               Clamped(Capped(Limit("VideoBitrate"), Cap(a)), values["VideoBitrate"])
     /\ plan.does = "copy" <=>
          /\ a.copyVideo /\ src.video.codec \in ToSet(d.target.videoCodecs)
          /\ Failures(a.profile, "Video", src.video.codec, names, values) = {}
          /\ WithinCap(src, Cap(a))

\* That is what the first decision comes to for the video.
LEMMA VideoNegotiated ==
  ASSUME NEW src, NEW a, NEW may, NEW d, NEW addr, NEW e, Redelivery(src, a, may, d, addr, e),
         VideoOf(src, a) # None
  PROVE  VideoPlanned(src, a, d)
<1> DEFINE target == d.target
<1>1. /\ Inspected(src) /\ WellFormed(a) /\ a.profile # None
      /\ target \in TranscodingProfile /\ Producible(src, a, target)
  BY SameStreams
<1>2. d.plans.video = PlanVideo(src, a, target)
  BY StreamsOfBoth
<1> DEFINE made == PlanVideo(src, a, target)
           stream == src.video
           values == Values(src, stream)
           names == {target.container}
           Limit(p) == Ceiling(a.profile, "Video", made.codec, names, p)
<1> HIDE DEF target
<1>3. /\ made \in StreamPlan(VideoProperties) /\ made # None
      /\ VideoOf(src, a) = stream
      /\ made.index = Index(src, stream)
      /\ made.codec \in ToSet(target.videoCodecs)
      /\ made.does = "copy" => made.codec = stream.codec /\ made.out = stream.values
      /\ made.does = "encode" =>
           /\ made.out["Height"] = Clamped(Limit("Height"), values["Height"])
           /\ made.out["VideoBitrate"] =
                Clamped(Capped(Limit("VideoBitrate"), Cap(a)), values["VideoBitrate"])
      /\ made.does = "copy" <=>
           /\ a.copyVideo /\ stream.codec \in ToSet(target.videoCodecs)
           /\ Failures(a.profile, "Video", stream.codec, names, values) = {}
           /\ WithinCap(src, Cap(a))
  BY <1>1, VideoPlan
<1>4. d.plans.video = made
  BY <1>2
<1> HIDE DEF made, values, names, stream
<1> QED BY <1>3, <1>4 DEF VideoPlanned, values, names, stream, target

\* What was negotiated for the sound.
AudioPlanned(src, a, d) ==
  LET stream == AudioOf(src, a)
      plan == d.plans.audio
      values == Values(src, stream)
      names == {d.target.container}
      Limit(p) == Ceiling(a.profile, AudioKind(a), plan.codec, names, p)
  IN /\ plan \in StreamPlan(AudioProperties) /\ plan # None
     /\ stream \in AudioStream
     /\ plan.index = Index(src, stream)
     /\ plan.codec \in ToSet(d.target.audioCodecs)
     /\ plan.does = "copy" => plan.codec = stream.codec /\ plan.out = stream.values
     /\ plan.does = "encode" =>
          /\ plan.out["AudioBitrate"] =
               Clamped(Limit("AudioBitrate"), stream.values["AudioBitrate"])
          /\ plan.out["AudioSampleRate"] =
               Clamped(Limit("AudioSampleRate"), stream.values["AudioSampleRate"])
     /\ plan.does = "copy" <=>
          /\ a.copyAudio /\ stream.codec \in ToSet(d.target.audioCodecs)
          /\ Failures(a.profile, AudioKind(a), stream.codec, names, values) = {}

\* And that for the sound.
LEMMA AudioNegotiated ==
  ASSUME NEW src, NEW a, NEW may, NEW d, NEW addr, NEW e, Redelivery(src, a, may, d, addr, e),
         AudioOf(src, a) # None
  PROVE  AudioPlanned(src, a, d)
<1> DEFINE target == d.target
<1>1. /\ Inspected(src) /\ WellFormed(a) /\ a.profile # None
      /\ target \in TranscodingProfile /\ Producible(src, a, target)
  BY SameStreams
<1>2. d.plans.audio = PlanAudio(src, a, AudioOf(src, a), target)
  BY StreamsOfBoth
<1> DEFINE stream == AudioOf(src, a)
           made == PlanAudio(src, a, stream, target)
           values == Values(src, stream)
           names == {target.container}
           Limit(p) == Ceiling(a.profile, AudioKind(a), made.codec, names, p)
<1> HIDE DEF target
<1>3. /\ made \in StreamPlan(AudioProperties) /\ made # None
      /\ stream \in AudioStream
      /\ made.index = Index(src, stream)
      /\ made.codec \in ToSet(target.audioCodecs)
      /\ made.does = "copy" => made.codec = stream.codec /\ made.out = stream.values
      /\ made.does = "encode" =>
           /\ made.out["AudioBitrate"] =
                Clamped(Limit("AudioBitrate"), stream.values["AudioBitrate"])
           /\ made.out["AudioSampleRate"] =
                Clamped(Limit("AudioSampleRate"), stream.values["AudioSampleRate"])
      /\ made.does = "copy" <=>
           /\ a.copyAudio /\ stream.codec \in ToSet(target.audioCodecs)
           /\ Failures(a.profile, AudioKind(a), stream.codec, names, values) = {}
  BY <1>1, AudioPlan
<1>4. d.plans.audio = made
  BY <1>2
<1> HIDE DEF made, values, names, stream
<1> QED BY <1>3, <1>4 DEF AudioPlanned, values, names, stream, target

\* The streams of both decisions are the same ones.
LEMMA IndexesAgree ==
  ASSUME NEW src, NEW a, NEW may, NEW d, NEW addr, NEW e, Redelivery(src, a, may, d, addr, e)
  PROVE  /\ e.plans.video # None => e.plans.video.index = d.plans.video.index
         /\ e.plans.audio # None => e.plans.audio.index = d.plans.audio.index
<1>1. /\ e.plans.video = None <=> VideoOf(src, a) = None
      /\ e.plans.audio = None <=> AudioOf(src, a) = None
  BY StreamsOfBoth
<1>2. ASSUME VideoOf(src, a) # None
      PROVE  e.plans.video.index = d.plans.video.index
  <2>1. d.plans.video.index = Index(src, src.video)
    <3>1. VideoPlanned(src, a, d)
      BY <1>2, VideoNegotiated
    <3> QED BY <3>1 DEF VideoPlanned
  <2>2. e.plans.video.index = Index(src, src.video)
    <3>1. VideoDelivered(src, a, d, addr, e)
      BY <1>2, VideoRedelivered
    <3> QED BY <3>1 DEF VideoDelivered
  <2> QED BY <2>1, <2>2
<1>3. ASSUME AudioOf(src, a) # None
      PROVE  e.plans.audio.index = d.plans.audio.index
  <2>1. d.plans.audio.index = Index(src, AudioOf(src, a))
    <3>1. AudioPlanned(src, a, d)
      BY <1>3, AudioNegotiated
    <3> QED BY <3>1 DEF AudioPlanned
  <2>2. e.plans.audio.index = Index(src, AudioOf(src, a))
    <3>1. AudioDelivered(src, a, d, addr, e)
      BY <1>3, AudioRedelivered
    <3> QED BY <3>1 DEF AudioDelivered
  <2> QED BY <2>1, <2>2
<1> QED BY <1>1, <1>2, <1>3

\* The track promised in the manifest is its default.
LEMMA PromisedTrack ==
  ASSUME NEW src, NEW a, NEW may, NEW d, NEW addr, NEW e, Redelivery(src, a, may, d, addr, e),
         SelectedMethod(src, a, d) = "Hls"
  PROVE  DefaultTrack(src, addr) = {a.subtitle}
<1>1. /\ Inspected(src) /\ WellFormed(a) /\ Printable(src, a) /\ d = Decide(src, a, may)
      /\ d.target # None /\ addr = AddressOf(src, a, d)
  BY DEF Redelivery
<1>2. /\ a.profile # None
      /\ d.shown = Shown(src, a, TRUE, {d.target.container}, d.target.protocol)
  BY <1>1, Decided
<1> DEFINE names == {d.target.container}
           tracks == Tracks(src)
<1> HIDE DEF names
<1>7. /\ a.video /\ a.subtitle # -1
      /\ \E i \in DOMAIN tracks : tracks[i].index = a.subtitle /\ Text(tracks[i].codec)
  <2>1. d.shown = Shown(src, a, TRUE, names, d.target.protocol)
    BY <1>2 DEF names
  <2> QED BY <1>1, <1>2, <2>1, SelectedIsShown
<1>3. PICK i \in DOMAIN tracks : tracks[i].index = a.subtitle /\ Text(tracks[i].codec)
  BY <1>7
<1>4. addr.method = "Hls" /\ addr.subtitle = a.subtitle
  BY <1>7, <1>1 DEF AddressOf
<1>5. tracks[i] \in ToSet(tracks)
  BY DEF ToSet
<1>6. a.subtitle \in Announced(src, addr)
  <2> HIDE DEF tracks
  <2> QED BY <1>3, <1>4, <1>5 DEF Announced, tracks
<1> QED BY <1>4, <1>6 DEF DefaultTrack

\* The streams and the default track are those negotiated.
LEMMA TracksAgree ==
  ASSUME Settled PROVE TracksAreThoseNegotiated
<1> SUFFICES ASSUME Delivers
             PROVE  /\ \A s \in DOMAIN delivery.plans :
                         /\ delivery.plans[s] = None <=> decision.plans[s] = None
                         /\ delivery.plans[s] # None =>
                              delivery.plans[s].index = decision.plans[s].index
                    /\ address.protocol = "hls"
                         /\ SelectedMethod(source, ask, decision) = "Hls" =>
                           DefaultTrack(source, address) = {ask.subtitle}
  BY DEF TracksAreThoseNegotiated
<1>1. Redelivery(source, ask, seen.policy, decision, address, delivery)
  BY DeliveryIsRedelivery
<1>2. /\ DOMAIN delivery.plans = {"video", "audio"}
      /\ delivery.plans.video = None <=> decision.plans.video = None
      /\ delivery.plans.audio = None <=> decision.plans.audio = None
  BY <1>1, StreamsOfBoth
<1>3. /\ delivery.plans.video # None => delivery.plans.video.index = decision.plans.video.index
      /\ delivery.plans.audio # None => delivery.plans.audio.index = decision.plans.audio.index
  BY <1>1, IndexesAgree
<1>4. SelectedMethod(source, ask, decision) = "Hls" =>
        DefaultTrack(source, address) = {ask.subtitle}
  BY <1>1, PromisedTrack
<1> QED BY <1>2, <1>3, <1>4

\* What an address carries of the limits.
Carries(src, a, d, addr) ==
  LET audio == d.plans.audio
      names == {d.target.container}
      Limit(p) == Tightest(a.profile, "Video", d.target.videoCodecs, names, p)
  IN /\ addr.height = Limit("Height")
     /\ addr.videoBitrate = VideoShare(Cap(a), Limit("VideoBitrate"), addr.audioBitrate)
     /\ addr.frameRate =
          FrameRate(Limit("VideoFramerate"), IF VideoOf(src, a) = None THEN None
                                             ELSE src.video.values["VideoFramerate"])
     /\ audio = None => addr.audioBitrate = None
     /\ audio # None => addr.audioBitrate = audio.out["AudioBitrate"]
     /\ audio # None /\ audio.does = "copy" =>
          /\ addr.audioCodecs = <<audio.codec>>
          /\ addr.sampleRate = audio.out["AudioSampleRate"]
     /\ audio # None /\ audio.does # "copy" =>
          /\ addr.audioCodecs = d.target.audioCodecs
          /\ addr.sampleRate = Tightest(a.profile, AudioKind(a), d.target.audioCodecs, names,
                                        "AudioSampleRate")

\* That is what `transcoding_url` puts into it.
LEMMA AddressCarries ==
  ASSUME NEW src, NEW a, NEW may, NEW d, NEW addr, NEW e, Redelivery(src, a, may, d, addr, e)
  PROVE  Carries(src, a, d, addr)
<1>1. addr = AddressOf(src, a, d)
  BY DEF Redelivery
<1> QED BY <1>1 DEF AddressOf, Carries

\* A limit that is broken is exceeded, where the value is known.
LEMMA BrokenIsExceeded ==
  ASSUME NEW profile, Finite(profile), NEW kind, NEW codec, NEW names, NEW properties,
         NEW values \in [properties -> Value],
         NEW c \in Failures(profile, kind, codec, names, values), c.is = "atMost",
         c.property \in Numbers, c.property \in properties
  PROVE  /\ \E e \in About(profile, kind, codec, names) : c \in e.conditions
         /\ c.value \in Int
         /\ values[c.property] # None => values[c.property] > c.value
<1>1. PICK e \in About(profile, kind, codec, names) : c \in e.conditions
  BY DEF Failures
<1>2. ~Holds(c, Measured(values, c.property))
  BY DEF Failures
<1>3. c.value \in Int
  <2>1. e \in profile.codecs /\ profile \in DeviceProfile
    BY DEF About, Finite
  <2> QED BY <1>1, <2>1, LimitIsANumber
<1>4. Measured(values, c.property) = values[c.property] /\ values[c.property] \in Value
  BY DEF Measured
<1>5. ASSUME values[c.property] # None PROVE values[c.property] > c.value
  <2>1. values[c.property] \in Int
    BY <1>4, <1>5 DEF Value
  <2>2. ~(values[c.property] <= c.value)
    BY <1>2, <1>4, <1>5 DEF Holds
  <2> QED BY <1>3, <2>1, <2>2
<1> QED BY <1>1, <1>3, <1>5

\* The limit of an address binds what a delivery copies: a tightest limit that is not
\* exceeded excludes a broken one.
LEMMA TightestExcludes ==
  ASSUME NEW profile, Finite(profile), NEW codecs \in Seq(STRING), NEW kind, NEW names,
         NEW codec \in ToSet(codecs), NEW properties, NEW values \in [properties -> Value],
         NEW c \in Failures(profile, kind, codec, names, values), c.is = "atMost",
         c.property \in Numbers, c.property \in properties
  PROVE  LET limit == Tightest(profile, kind, codecs, names, c.property)
         IN /\ limit \in Int /\ limit # None /\ c.value \in Int /\ limit <= c.value
            /\ Over(limit, values[c.property])
<1> DEFINE limit == Tightest(profile, kind, codecs, names, c.property)
<1>1. /\ \E e \in About(profile, kind, codec, names) : c \in e.conditions
      /\ c.value \in Int
      /\ values[c.property] # None => values[c.property] > c.value
  BY BrokenIsExceeded
<1>2. PICK e \in About(profile, kind, codec, names) : c \in e.conditions
  BY <1>1
<1>3. limit # None /\ limit \in Int /\ limit <= c.value
  BY <1>2, TightestBinds
<1>4. values[c.property] \in Value
  OBVIOUS
<1> HIDE DEF limit
<1>5. Over(limit, values[c.property])
  BY <1>1, <1>3, <1>4 DEF Over, Value
<1> QED BY <1>1, <1>3, <1>5 DEF limit

\* What is known of both decisions.
LEMMA RedeliveryHasParts ==
  ASSUME NEW src, NEW a, NEW may, NEW d, NEW addr, NEW e, Redelivery(src, a, may, d, addr, e)
  PROVE  /\ Inspected(src) /\ WellFormed(a) /\ Printable(src, a) /\ a.profile # None
         /\ Finite(a.profile) /\ Cap(a) \in Value
         /\ d.target \in TranscodingProfile /\ addr \in Address
         /\ d.target.videoCodecs \in Seq(STRING) /\ d.target.audioCodecs \in Seq(STRING)
<1>1. /\ Inspected(src) /\ WellFormed(a) /\ Printable(src, a) /\ a.profile # None
      /\ addr \in Address /\ d.target \in TranscodingProfile
  BY SameStreams DEF Redelivery
<1>2. Finite(a.profile) /\ Cap(a) \in Value
  BY <1>1, RequestHasParts
<1>3. d.target.videoCodecs \in Seq(STRING) /\ d.target.audioCodecs \in Seq(STRING)
  BY <1>1, TargetHasParts
<1> QED BY <1>1, <1>2, <1>3

\* What a video measures and what its streams are.
LEMMA VideoMeasures ==
  ASSUME NEW src, Inspected(src), src.video \in VideoStream
  PROVE  LET values == Values(src, src.video)
         IN /\ values \in [VideoProperties -> Value]
            /\ src.video.values \in [VideoProperties -> Value]
            /\ src.video.codec \in STRING
            /\ \A p \in VideoProperties \ {"VideoBitrate"} : values[p] = src.video.values[p]
            /\ values["VideoBitrate"] = Or(src.video.values["VideoBitrate"], src.bitrate)
<1>1. src.video.codec \in STRING /\ src.video.values \in [VideoProperties -> Value]
  BY StreamHasParts
<1>2. "AudioBitrate" \notin VideoProperties /\ "VideoBitrate" \in VideoProperties
  BY DEF VideoProperties
<1> QED BY <1>1, <1>2, ValuesAreValues

\* And a sound.
LEMMA AudioMeasures ==
  ASSUME NEW src, Inspected(src), NEW stream \in AudioStream
  PROVE  LET values == Values(src, stream)
         IN /\ values \in [AudioProperties -> Value]
            /\ stream.values \in [AudioProperties -> Value]
            /\ stream.codec \in STRING
            /\ \A p \in AudioProperties \ {"AudioBitrate"} : values[p] = stream.values[p]
            /\ values["AudioBitrate"] = Or(stream.values["AudioBitrate"], src.bitrate)
<1>1. stream.codec \in STRING /\ stream.values \in [AudioProperties -> Value]
  BY StreamHasParts
<1>2. "VideoBitrate" \notin AudioProperties /\ "AudioBitrate" \in AudioProperties
  BY DEF AudioProperties
<1> QED BY <1>1, <1>2, ValuesAreValues

\* A video that was to be encoded is copied only where no carried limit is broken, but for
\* the two that are not carried as they are.
LEMMA VideoLosesNothing ==
  ASSUME NEW src, NEW a, NEW may, NEW d, NEW addr, NEW e, Redelivery(src, a, may, d, addr, e),
         VideoOf(src, a) # None, e.plans.video.does = "copy",
         NEW c \in Failures(a.profile, "Video", src.video.codec, {d.target.container},
                            Values(src, src.video)),
         c.is = "atMost", c.property \in {"Height", "VideoBitrate", "VideoFramerate"}
  PROVE  LET values == Values(src, src.video)
         IN \/ /\ c.property = "VideoBitrate" /\ Cap(a) # None
               /\ values["VideoBitrate"] <= MinimumVideoBitrate
            \/ /\ c.property = "VideoFramerate"
               /\ values["VideoFramerate"] <= addr.frameRate
<1> DEFINE values == Values(src, src.video)
           codecs == d.target.videoCodecs
           names == {d.target.container}
           codec == src.video.codec
           Limit(p) == Tightest(a.profile, "Video", codecs, names, p)
           rate == IF VideoOf(src, a) = None THEN None ELSE src.video.values["VideoFramerate"]
<1>1. /\ Inspected(src) /\ WellFormed(a) /\ Printable(src, a) /\ a.profile # None
      /\ Finite(a.profile) /\ Cap(a) \in Value /\ codecs \in Seq(STRING) /\ addr \in Address
  BY RedeliveryHasParts
<1>2. /\ src.video \in VideoStream /\ codec \in ToSet(codecs)
      /\ ~Over(addr.height, values["Height"])
      /\ ~Over(addr.videoBitrate, values["VideoBitrate"])
      /\ ~Over(addr.frameRate, values["VideoFramerate"])
  <2>1. VideoDelivered(src, a, d, addr, e)
    BY VideoRedelivered
  <2> QED BY <2>1 DEF VideoDelivered
<1>3. /\ addr.height = Limit("Height")
      /\ addr.videoBitrate = VideoShare(Cap(a), Limit("VideoBitrate"), addr.audioBitrate)
      /\ addr.frameRate = FrameRate(Limit("VideoFramerate"), rate)
  <2>1. Carries(src, a, d, addr)
    BY AddressCarries
  <2> QED BY <2>1 DEF Carries
<1>4. values \in [VideoProperties -> Value]
  BY <1>1, <1>2, VideoMeasures
<1>5. c \in Failures(a.profile, "Video", codec, names, values)
  OBVIOUS
<1>6. c.property \in Numbers /\ c.property \in VideoProperties
  BY DEF Numbers, VideoProperties
<1> HIDE DEF values, codecs, names, codec
<1>7. /\ Limit(c.property) \in Int /\ Limit(c.property) # None
      /\ Over(Limit(c.property), values[c.property])
  BY <1>1, <1>2, <1>4, <1>5, <1>6, TightestExcludes
<1>8. c.property # "Height"
  BY <1>2, <1>3, <1>7
<1>9. ASSUME c.property = "VideoBitrate"
      PROVE  Cap(a) # None /\ values["VideoBitrate"] <= MinimumVideoBitrate
  <2> DEFINE stated == Limit("VideoBitrate")
             share == VideoShare(Cap(a), stated, addr.audioBitrate)
             value == values["VideoBitrate"]
  <2>1. /\ stated \in Int /\ stated # None /\ Over(stated, value) /\ ~Over(share, value)
    BY <1>2, <1>3, <1>7, <1>9
  <2>2. stated \in Value /\ addr.audioBitrate \in Value /\ value \in Value
    BY <1>1, <1>4, <1>9, <2>1, AddressHasParts, TightestIsTheLeast DEF VideoProperties
  <2> HIDE DEF stated
  <2>3. /\ Cap(a) = None => share = stated
        /\ Cap(a) # None =>
             /\ share \in Int
             /\ share = MinimumVideoBitrate \/ share <= stated
    BY <1>1, <2>1, <2>2, ShareOfTheCap
  <2> HIDE DEF share, value
  <2>4. Cap(a) # None
    BY <2>1, <2>3
  <2>5. value # None /\ value \in Int /\ share \in Int /\ share # None
    BY <2>1, <2>2, <2>3, <2>4, NoneAssumption DEF Over, Value
  <2>6. stated < value /\ ~(share < value)
    BY <2>1, <2>5 DEF Over
  <2>7. share = MinimumVideoBitrate
    BY <2>1, <2>3, <2>4, <2>5, <2>6
  <2>8. value <= MinimumVideoBitrate
    BY <2>5, <2>6, <2>7
  <2> QED BY <2>4, <2>8 DEF value
<1>10. ASSUME c.property = "VideoFramerate"
       PROVE  values["VideoFramerate"] <= addr.frameRate
  <2> DEFINE limit == Limit("VideoFramerate")
             value == values["VideoFramerate"]
  <2>1. limit \in Int /\ limit # None /\ value \in Value /\ ~Over(addr.frameRate, value)
    BY <1>2, <1>4, <1>7, <1>10 DEF VideoProperties
  <2>2. rate \in Value /\ (Clamped(limit, rate) # None => FrameRate(limit, rate) \in Int)
    BY <1>1, FrameRateIsTyped
  <2> HIDE DEF limit, rate
  <2>3. limit \in Value
    BY <2>1 DEF Value
  <2>4. Clamped(limit, rate) # None
    BY <2>1, <2>2, <2>3, ClampedIsLeast, NoneAssumption
  <2>5. addr.frameRate \in Int /\ addr.frameRate # None
    BY <1>3, <2>2, <2>4, NoneAssumption DEF limit
  <2>6. value # None /\ value \in Int /\ ~(addr.frameRate < value)
    BY <2>1, <2>5 DEF Over, Value
  <2> QED BY <2>5, <2>6
<1> QED BY <1>8, <1>9, <1>10 DEF values

\* A list of one has one member.
LEMMA OnlyOne ==
  ASSUME NEW s, Len(s) = 1, s \in Seq(STRING), NEW x \in ToSet(s), NEW y \in ToSet(s)
  PROVE  x = y
<1>1. DOMAIN s = {1}
  OBVIOUS
<1> QED BY <1>1 DEF ToSet

\* A sound that was to be encoded is copied only where no carried limit is broken.
LEMMA AudioLosesNothing ==
  ASSUME NEW src, NEW a, NEW may, NEW d, NEW addr, NEW e, Redelivery(src, a, may, d, addr, e),
         AudioOf(src, a) # None, e.plans.audio.does = "copy", d.plans.audio.does = "encode",
         NEW c \in Failures(a.profile, AudioKind(a), AudioOf(src, a).codec,
                            {d.target.container}, Values(src, AudioOf(src, a))),
         c.is = "atMost", c.property \in {"AudioBitrate", "AudioSampleRate"}
  PROVE  c.property = "AudioBitrate" /\ Len(d.target.audioCodecs) # 1
<1> DEFINE stream == AudioOf(src, a)
           values == Values(src, stream)
           codecs == d.target.audioCodecs
           names == {d.target.container}
           codec == stream.codec
           kind == AudioKind(a)
           plan == d.plans.audio
           Limit(p) == Tightest(a.profile, kind, codecs, names, p)
<1>1. /\ Inspected(src) /\ Finite(a.profile) /\ codecs \in Seq(STRING) /\ addr \in Address
  BY RedeliveryHasParts
<1>2. /\ stream \in AudioStream /\ codec \in ToSet(addr.audioCodecs)
      /\ ~Over(addr.audioBitrate, values["AudioBitrate"])
      /\ ~Over(addr.sampleRate, values["AudioSampleRate"])
  <2>1. AudioDelivered(src, a, d, addr, e)
    BY AudioRedelivered
  <2> QED BY <2>1 DEF AudioDelivered
<1>3. /\ plan # None /\ plan.does = "encode" /\ plan.codec \in ToSet(codecs)
      /\ plan.out["AudioBitrate"] =
           Clamped(Ceiling(a.profile, kind, plan.codec, names, "AudioBitrate"),
                   stream.values["AudioBitrate"])
  <2>1. AudioPlanned(src, a, d)
    BY AudioNegotiated
  <2> QED BY <2>1 DEF AudioPlanned
<1>4. /\ addr.audioBitrate = plan.out["AudioBitrate"] /\ addr.audioCodecs = codecs
      /\ addr.sampleRate = Limit("AudioSampleRate")
  <2>1. Carries(src, a, d, addr)
    BY AddressCarries
  <2> QED BY <1>3, <2>1 DEF Carries
<1>5. /\ values \in [AudioProperties -> Value] /\ stream.values \in [AudioProperties -> Value]
  BY <1>1, <1>2, AudioMeasures
<1>6. c \in Failures(a.profile, kind, codec, names, values)
  OBVIOUS
<1>7. c.property \in Numbers /\ c.property \in AudioProperties
  BY DEF Numbers, AudioProperties
<1> HIDE DEF values, codecs, names, codec, stream, kind, plan
<1>8. c.property # "AudioSampleRate"
  <2> SUFFICES ASSUME c.property = "AudioSampleRate" PROVE FALSE
    OBVIOUS
  <2>1. Over(Limit(c.property), values[c.property])
    BY <1>1, <1>2, <1>4, <1>5, <1>6, <1>7, TightestExcludes
  <2> QED BY <1>2, <1>4, <2>1
<1>9. ASSUME c.property = "AudioBitrate" PROVE Len(codecs) # 1
  <2> SUFFICES ASSUME Len(codecs) = 1 PROVE FALSE
    OBVIOUS
  <2> DEFINE ceil == Ceiling(a.profile, kind, plan.codec, names, "AudioBitrate")
             value == values["AudioBitrate"]
             own == stream.values["AudioBitrate"]
             limit == addr.audioBitrate
  <2>1. plan.codec = codec
    BY <1>1, <1>2, <1>3, <1>4, OnlyOne
  <2>2. /\ \E f \in About(a.profile, kind, codec, names) : c \in f.conditions
        /\ c.value \in Int
        /\ values[c.property] # None => values[c.property] > c.value
    BY <1>1, <1>5, <1>6, <1>7, BrokenIsExceeded
  <2>3. PICK f \in About(a.profile, kind, codec, names) : c \in f.conditions
    BY <2>2
  <2>4. Limiting(c, "AudioBitrate")
    BY <1>9 DEF Limiting
  <2>5. ceil # None /\ ceil \in Int /\ ceil <= c.value
    BY <1>1, <2>1, <2>3, <2>4, CeilingIsTheLeast
  <2>6. own \in Value /\ value \in Value /\ ceil \in Value
    BY <1>5, <2>5 DEF AudioProperties, Value
  <2>7. limit = Clamped(ceil, own) /\ ~Over(limit, value)
    BY <1>2, <1>3, <1>4
  <2>8. c.value \in Int /\ (value # None => value > c.value)
    BY <1>9, <2>2
  <2> HIDE DEF ceil, value, own, limit
  <2>9. limit \in Int /\ limit <= ceil
    BY <2>5, <2>6, <2>7, ClampedIsLeast
  <2>10. limit # None
    BY <2>9, NoneAssumption
  <2>11. value \in Int /\ ~(limit < value) /\ value > c.value
    BY <2>6, <2>7, <2>8, <2>10 DEF Over, Value
  <2> QED BY <2>5, <2>8, <2>9, <2>11
<1> QED BY <1>8, <1>9 DEF codecs

\* What is said of a stream in the words of the properties.
LEMMA WordsOfTheProperties ==
  ASSUME Settled, Delivers
  PROVE  /\ DOMAIN decision.plans = {"video", "audio"}
         /\ DOMAIN delivery.plans = {"video", "audio"}
         /\ decision.plans.video = None <=> VideoOf(source, ask) = None
         /\ delivery.plans.video = None <=> VideoOf(source, ask) = None
         /\ decision.plans.audio = None <=> AudioOf(source, ask) = None
         /\ delivery.plans.audio = None <=> AudioOf(source, ask) = None
         /\ VideoOf(source, ask) # None =>
              /\ decision.plans.video.does \in {"copy", "encode"}
              /\ delivery.plans.video.does \in {"copy", "encode"}
              /\ source.video \in VideoStream
         /\ AudioOf(source, ask) # None =>
              /\ decision.plans.audio.does \in {"copy", "encode"}
              /\ delivery.plans.audio.does \in {"copy", "encode"}
              /\ AudioOf(source, ask) \in AudioStream
         /\ Kind("video") = "Video" /\ StreamOf("video") = source.video
         /\ Kind("audio") = AudioKind(ask) /\ StreamOf("audio") = AudioOf(source, ask)
<1>1. Redelivery(source, ask, seen.policy, decision, address, delivery)
  BY DeliveryIsRedelivery
<1>2. /\ DOMAIN decision.plans = {"video", "audio"}
      /\ DOMAIN delivery.plans = {"video", "audio"}
      /\ decision.plans.video = None <=> VideoOf(source, ask) = None
      /\ delivery.plans.video = None <=> VideoOf(source, ask) = None
      /\ decision.plans.audio = None <=> AudioOf(source, ask) = None
      /\ delivery.plans.audio = None <=> AudioOf(source, ask) = None
  BY <1>1, StreamsOfBoth
<1>3. ASSUME VideoOf(source, ask) # None
      PROVE  /\ decision.plans.video.does \in {"copy", "encode"}
             /\ delivery.plans.video.does \in {"copy", "encode"}
             /\ source.video \in VideoStream
  <2>1. VideoPlanned(source, ask, decision)
    BY <1>1, <1>3, VideoNegotiated
  <2>2. VideoDelivered(source, ask, decision, address, delivery)
    BY <1>1, <1>3, VideoRedelivered
  <2> QED BY <2>1, <2>2 DEF VideoPlanned, VideoDelivered, StreamPlan
<1>4. ASSUME AudioOf(source, ask) # None
      PROVE  /\ decision.plans.audio.does \in {"copy", "encode"}
             /\ delivery.plans.audio.does \in {"copy", "encode"}
             /\ AudioOf(source, ask) \in AudioStream
  <2>1. AudioPlanned(source, ask, decision)
    BY <1>1, <1>4, AudioNegotiated
  <2>2. AudioDelivered(source, ask, decision, address, delivery)
    BY <1>1, <1>4, AudioRedelivered
  <2> QED BY <2>1, <2>2 DEF AudioPlanned, AudioDelivered, StreamPlan
<1>5. /\ Kind("video") = "Video" /\ StreamOf("video") = source.video
      /\ Kind("audio") = AudioKind(ask) /\ StreamOf("audio") = AudioOf(source, ask)
  BY DEF Kind, StreamOf
<1> QED BY <1>2, <1>3, <1>4, <1>5

\* No limit that the address carries is lost.
LEMMA NothingCarriedIsLost ==
  ASSUME Settled PROVE LostOnlyWhatIsNotCarried
<1> DEFINE Ok(s, c) ==
             \/ c.property \notin CarriedProperties \cap DOMAIN Values(source, StreamOf(s))
             \/ /\ c.property = "VideoBitrate" /\ Cap(ask) # None
                /\ Values(source, StreamOf(s))["VideoBitrate"] <= MinimumVideoBitrate
             \/ /\ c.property = "VideoFramerate"
                /\ Values(source, StreamOf(s))["VideoFramerate"] <= address.frameRate
           Broke(s) == Failures(ask.profile, Kind(s), StreamOf(s).codec,
                                {decision.target.container}, Values(source, StreamOf(s)))
<1> SUFFICES ASSUME Delivers, NEW s \in Encoded(decision.plans) \ Encoded(delivery.plans),
                    NEW c \in Broke(s), c.is = "atMost"
             PROVE  Ok(s, c)
  BY DEF LostOnlyWhatIsNotCarried
<1>1. Redelivery(source, ask, seen.policy, decision, address, delivery)
  BY DeliveryIsRedelivery
<1>2. Inspected(source)
  BY <1>1, RedeliveryHasParts
<1>3. /\ s \in {"video", "audio"}
      /\ s = "video" =>
           /\ VideoOf(source, ask) # None /\ source.video \in VideoStream
           /\ delivery.plans.video.does = "copy"
           /\ Kind(s) = "Video" /\ StreamOf(s) = source.video
      /\ s = "audio" =>
           /\ AudioOf(source, ask) # None /\ AudioOf(source, ask) \in AudioStream
           /\ decision.plans.audio.does = "encode" /\ delivery.plans.audio.does = "copy"
           /\ Kind(s) = AudioKind(ask) /\ StreamOf(s) = AudioOf(source, ask)
  BY WordsOfTheProperties DEF Encoded
<1>4. CASE s = "video"
  <2>1. c \in Failures(ask.profile, "Video", source.video.codec,
                       {decision.target.container}, Values(source, source.video))
    BY <1>3, <1>4
  <2>2. CASE c.property \in {"Height", "VideoBitrate", "VideoFramerate"}
    BY <1>1, <1>3, <1>4, <2>1, <2>2, VideoLosesNothing
  <2>3. CASE c.property \notin {"Height", "VideoBitrate", "VideoFramerate"}
    <3>1. DOMAIN Values(source, source.video) = VideoProperties
      BY <1>2, <1>3, <1>4, VideoMeasures
    <3>2. c.property \notin CarriedProperties \cap VideoProperties
      BY <2>3 DEF CarriedProperties, VideoProperties
    <3> QED BY <1>3, <1>4, <3>1, <3>2
  <2> QED BY <2>2, <2>3
<1>5. CASE s = "audio"
  <2>1. c \in Failures(ask.profile, AudioKind(ask), AudioOf(source, ask).codec,
                       {decision.target.container}, Values(source, AudioOf(source, ask)))
    BY <1>3, <1>5
  <2>2. DOMAIN Values(source, AudioOf(source, ask)) = AudioProperties
    BY <1>2, <1>3, <1>5, AudioMeasures
  <2>3. CASE c.property \in {"AudioBitrate", "AudioSampleRate"}
    <3>1. c.property = "AudioBitrate" /\ Len(decision.target.audioCodecs) # 1
      BY <1>1, <1>3, <1>5, <2>1, <2>3, AudioLosesNothing
    <3>2. c.property \notin CarriedProperties
      BY <3>1 DEF CarriedProperties
    <3> QED BY <3>2
  <2>4. CASE c.property \notin {"AudioBitrate", "AudioSampleRate"}
    <3>1. c.property \notin CarriedProperties \cap AudioProperties
      BY <2>4 DEF CarriedProperties, AudioProperties
    <3> QED BY <1>3, <1>5, <2>2, <3>1
  <2> QED BY <2>3, <2>4
<1> QED BY <1>3, <1>4, <1>5

\* A limit that a stream exceeds though nothing fails for it is waived for it.
LEMMA ExceededIsWaived ==
  ASSUME NEW profile, Finite(profile), NEW kind, NEW codec, NEW names, NEW properties,
         NEW values \in [properties -> Value], NEW property \in Numbers \cap properties,
         Failures(profile, kind, codec, names, values) = {},
         Over(Ceiling(profile, kind, codec, names, property), values[property])
  PROVE  \E e \in About(profile, kind, codec, names) : \E c \in e.conditions :
           /\ Limiting(c, property)
           /\ ~AllHold(e.when, values) \/ Measured(values, c.property) = None
<1> DEFINE ceil == Ceiling(profile, kind, codec, names, property)
           entries == About(profile, kind, codec, names)
           value == values[property]
<1>1. ceil # None /\ (value = None \/ ceil < value) /\ value \in Value
  BY DEF Over
<1>2. PICK e \in entries : \E c \in e.conditions : Limiting(c, property) /\ c.value = ceil
  BY <1>1, CeilingIsTheLeast
<1>3. PICK c \in e.conditions : Limiting(c, property) /\ c.value = ceil
  BY <1>2
<1>4. c.property = property /\ c.is \in {"atMost", "equals"}
  BY <1>3 DEF Limiting
<1>5. ceil \in Int
  <2>1. ceil \in Value
    BY CeilingIsTheLeast
  <2> QED BY <1>1, <2>1 DEF Value
<1>6. Measured(values, property) = value
  BY DEF Measured
<1>7. property \notin Silent
  BY DEF Numbers, Silent
<1> HIDE DEF ceil, entries, value
<1>8. ASSUME AllHold(e.when, values), value # None PROVE FALSE
  <2>1. value \in Int /\ ceil < value
    BY <1>1, <1>8 DEF Value
  <2>2. ~Holds(c, value)
    BY <1>3, <1>4, <1>5, <1>8, <2>1 DEF Holds
  <2>3. c \in UNION {f.conditions : f \in {f \in entries : AllHold(f.when, values)}}
    BY <1>8
  <2>4. c \in Failures(profile, kind, codec, names, values)
    BY <1>4, <1>6, <1>7, <2>2, <2>3 DEF Failures, entries
  <2> QED BY <2>4
<1>9. ~AllHold(e.when, values) \/ Measured(values, c.property) = None
  BY <1>4, <1>6, <1>8
<1> QED BY <1>3, <1>9 DEF entries

\* A sound that was to be copied is copied.
LEMMA SoundSurvives ==
  ASSUME NEW src, NEW a, NEW may, NEW d, NEW addr, NEW e, Redelivery(src, a, may, d, addr, e),
         AudioOf(src, a) # None, d.plans.audio.does = "copy"
  PROVE  e.plans.audio.does = "copy"
<1> DEFINE stream == AudioOf(src, a)
           values == Values(src, stream)
           plan == d.plans.audio
<1>1. Inspected(src)
  BY RedeliveryHasParts
<1>2. /\ stream \in AudioStream /\ plan # None /\ plan.codec = stream.codec
      /\ plan.out = stream.values
  <2>1. AudioPlanned(src, a, d)
    BY AudioNegotiated
  <2> QED BY <2>1 DEF AudioPlanned
<1>3. /\ addr.audioCodecs = <<plan.codec>>
      /\ addr.audioBitrate = plan.out["AudioBitrate"]
      /\ addr.sampleRate = plan.out["AudioSampleRate"]
  <2>1. Carries(src, a, d, addr)
    BY AddressCarries
  <2> QED BY <1>2, <2>1 DEF Carries
<1>4. /\ stream.values \in [AudioProperties -> Value]
      /\ values["AudioSampleRate"] = stream.values["AudioSampleRate"]
      /\ values["AudioBitrate"] = Or(stream.values["AudioBitrate"], src.bitrate)
  BY <1>1, <1>2, AudioMeasures DEF AudioProperties
<1>5. stream.values["AudioBitrate"] # 0
  BY <1>1, StreamsAreInspected
<1>6. stream.codec \in ToSet(addr.audioCodecs)
  BY <1>2, <1>3 DEF ToSet
<1> DEFINE bitrate == stream.values["AudioBitrate"]
           sampleRate == stream.values["AudioSampleRate"]
<1>7. bitrate \in Value /\ sampleRate \in Value
  BY <1>4 DEF AudioProperties
<1>8. addr.audioBitrate = bitrate /\ addr.sampleRate = sampleRate
  BY <1>2, <1>3
<1> HIDE DEF bitrate, sampleRate, values, stream, plan
<1>9. ~Over(addr.sampleRate, values["AudioSampleRate"])
  BY <1>4, <1>7, <1>8 DEF Over, Value, sampleRate
<1>10. ~Over(addr.audioBitrate, values["AudioBitrate"])
  <2>1. bitrate # None => Or(bitrate, src.bitrate) = bitrate
    BY <1>5 DEF Or, bitrate
  <2>2. ~Over(bitrate, Or(bitrate, src.bitrate))
    BY <1>7, <2>1 DEF Over, Value
  <2> QED BY <1>4, <1>8, <2>2 DEF bitrate
<1>11. AudioDelivered(src, a, d, addr, e)
  BY AudioRedelivered
<1> QED BY <1>6, <1>9, <1>10, <1>11 DEF AudioDelivered, values, stream

\* A video that was to be copied is copied where one codec may be, no cap is stated, its rate
\* is not printed below itself, and no limit that is carried was waived for it.
LEMMA VideoSurvives ==
  ASSUME NEW src, NEW a, NEW may, NEW d, NEW addr, NEW e, Redelivery(src, a, may, d, addr, e),
         VideoOf(src, a) # None, d.plans.video.does = "copy", e.plans.video.does = "encode",
         Len(d.target.videoCodecs) <= 1, Cap(a) = None
  PROVE  LET rate == src.video.values["VideoFramerate"]
             values == Values(src, src.video)
         IN \/ rate # None /\ Printed(rate) < rate
            \/ \E f \in About(a.profile, "Video", src.video.codec, {d.target.container}) :
                 \E c \in f.conditions :
                   /\ c.is \in {"atMost", "equals"}
                   /\ c.property \in {"Height", "VideoBitrate", "VideoFramerate"}
                   /\ ~AllHold(f.when, values) \/ Measured(values, c.property) = None
<1> DEFINE values == Values(src, src.video)
           codecs == d.target.videoCodecs
           codec == src.video.codec
           names == {d.target.container}
           profile == a.profile
           rate == src.video.values["VideoFramerate"]
           own == IF VideoOf(src, a) = None THEN None ELSE rate
           Limit(p) == Tightest(profile, "Video", codecs, names, p)
           Ceil(p) == Ceiling(profile, "Video", codec, names, p)
           carried == {"Height", "VideoBitrate", "VideoFramerate"}
<1>1. /\ Inspected(src) /\ WellFormed(a) /\ Printable(src, a) /\ profile # None
      /\ Finite(profile) /\ codecs \in Seq(STRING)
  BY RedeliveryHasParts
<1>2. /\ src.video \in VideoStream /\ codec \in ToSet(codecs)
      /\ Failures(profile, "Video", codec, names, values) = {}
  <2>1. VideoPlanned(src, a, d)
    BY VideoNegotiated
  <2>2. VideoDelivered(src, a, d, addr, e)
    BY VideoRedelivered
  <2> QED BY <2>1, <2>2 DEF VideoPlanned, VideoDelivered
<1>3. /\ codec \in STRING /\ values \in [VideoProperties -> Value]
      /\ values["VideoFramerate"] = rate /\ rate \in Value
  BY <1>1, <1>2, VideoMeasures DEF VideoProperties
<1>4. \/ Over(addr.height, values["Height"])
      \/ Over(addr.videoBitrate, values["VideoBitrate"])
      \/ Over(addr.frameRate, values["VideoFramerate"])
  <2>1. VideoDelivered(src, a, d, addr, e)
    BY VideoRedelivered
  <2> QED BY <1>2, <2>1 DEF VideoDelivered
<1>5. /\ addr.height = Limit("Height")
      /\ addr.videoBitrate = VideoShare(Cap(a), Limit("VideoBitrate"), addr.audioBitrate)
      /\ addr.frameRate = FrameRate(Limit("VideoFramerate"), own)
  <2>1. Carries(src, a, d, addr)
    BY AddressCarries
  <2> QED BY <2>1 DEF Carries
<1>6. own = rate /\ own \in Value /\ (Clamped(Limit("VideoFramerate"), own) # None =>
                                        FrameRate(Limit("VideoFramerate"), own) \in Int)
  BY <1>1, FrameRateIsTyped
<1> HIDE DEF values, codecs, codec, names, profile, own, rate
<1>7. \A p : Limit(p) = Ceil(p)
  <2>1. ToSet(codecs) = {codec}
    <3>1. Len(codecs) = 1
      <4> DEFINE n == Len(codecs)
      <4>1. n # 0
        BY <1>1, <1>2 DEF ToSet
      <4>2. n <= 1
        BY DEF codecs
      <4>3. n \in Nat
        BY <1>1
      <4> HIDE DEF n
      <4>4. n = 1
        BY <4>1, <4>2, <4>3
      <4> QED BY <4>4 DEF n
    <3> QED BY <1>1, <1>2, <3>1, OnlyOne
  <2> QED BY <1>1, <1>3, <2>1, CeilingOfOne
<1>8. \A p : Ceil(p) \in Value
  BY <1>1, CeilingIsTheLeast
<1> HIDE DEF Limit
<1>9. ASSUME NEW p \in carried, Over(Ceil(p), values[p])
      PROVE  \E f \in About(profile, "Video", codec, names) : \E c \in f.conditions :
               /\ c.is \in {"atMost", "equals"} /\ c.property \in carried
               /\ ~AllHold(f.when, values) \/ Measured(values, c.property) = None
  <2>1. p \in Numbers \cap VideoProperties
    BY DEF Numbers, VideoProperties
  <2>2. \E f \in About(profile, "Video", codec, names) : \E c \in f.conditions :
           /\ Limiting(c, p)
           /\ ~AllHold(f.when, values) \/ Measured(values, c.property) = None
    BY <1>1, <1>2, <1>3, <1>9, <2>1, ExceededIsWaived
  <2> QED BY <2>2 DEF Limiting
<1>10. ASSUME Over(addr.frameRate, rate), ~(rate # None /\ Printed(rate) < rate)
       PROVE  Over(Ceil("VideoFramerate"), rate)
  <2> DEFINE ceil == Ceil("VideoFramerate")
             least == Clamped(ceil, rate)
  <2>1. ceil \in Value /\ rate \in Value
    BY <1>3, <1>8
  <2>2. addr.frameRate = FrameRate(ceil, rate)
    BY <1>5, <1>6, <1>7
  <2>3. least # None => FrameRate(ceil, rate) \in Int
    BY <1>6, <1>7
  <2> HIDE DEF ceil
  <2>4. least # None /\ addr.frameRate = Printed(least) /\ addr.frameRate \in Int
    BY <1>10, <2>2, <2>3 DEF FrameRate, Over
  <2>5. CASE rate = None
    <3>1. ceil # None
      BY <2>4, <2>5 DEF Clamped
    <3> QED BY <2>5, <3>1 DEF Over, ceil
  <2>6. CASE rate # None
    <3>1. rate \in Int /\ addr.frameRate < rate
      BY <1>10, <2>1, <2>6 DEF Over, Value
    <3>2. least # rate
      BY <1>10, <2>4, <2>6, <3>1
    <3>3. ceil # None /\ ceil \in Int /\ ceil < rate
      BY <2>1, <2>6, <3>1, <3>2 DEF Clamped, Value
    <3> QED BY <3>3 DEF Over, ceil
  <2> QED BY <2>5, <2>6
<1>11. Over(addr.height, values["Height"]) => Over(Ceil("Height"), values["Height"])
  BY <1>5, <1>7
<1>12. Over(addr.videoBitrate, values["VideoBitrate"]) =>
         Over(Ceil("VideoBitrate"), values["VideoBitrate"])
  BY <1>5, <1>7 DEF VideoShare
<1>13. \/ rate # None /\ Printed(rate) < rate
       \/ \E p \in carried : Over(Ceil(p), values[p])
  <2> HIDE DEF Ceil
  <2> QED BY <1>3, <1>4, <1>10, <1>11, <1>12
<1>14. \/ rate # None /\ Printed(rate) < rate
       \/ \E f \in About(profile, "Video", codec, names) : \E c \in f.conditions :
            /\ c.is \in {"atMost", "equals"} /\ c.property \in carried
            /\ ~AllHold(f.when, values) \/ Measured(values, c.property) = None
  <2> HIDE DEF Ceil, carried
  <2> QED BY <1>9, <1>13
<1> QED BY <1>14 DEF values, codec, names, profile, rate

\* What was to be copied is copied.
LEMMA WhatIsCopiedSurvives ==
  ASSUME Settled PROVE CopiesSurvive
<1> DEFINE rate == source.video.values["VideoFramerate"]
           Ok == \/ Len(decision.target.videoCodecs) > 1
                 \/ Cap(ask) # None
                 \/ rate # None /\ Printed(rate) < rate
                 \/ CarriedThoughWaived("video")
<1> SUFFICES ASSUME Delivers, NEW s \in Encoded(delivery.plans) \ Encoded(decision.plans)
             PROVE  s = "video" /\ Ok
  BY DEF CopiesSurvive
<1>1. Redelivery(source, ask, seen.policy, decision, address, delivery)
  BY DeliveryIsRedelivery
<1>2. /\ s \in {"video", "audio"}
      /\ s = "video" =>
           /\ VideoOf(source, ask) # None
           /\ decision.plans.video.does = "copy" /\ delivery.plans.video.does = "encode"
      /\ s = "audio" =>
           /\ AudioOf(source, ask) # None
           /\ decision.plans.audio.does = "copy" /\ delivery.plans.audio.does = "encode"
  BY WordsOfTheProperties DEF Encoded
<1>3. s = "video"
  BY <1>1, <1>2, SoundSurvives
<1>4. ASSUME Len(decision.target.videoCodecs) <= 1, Cap(ask) = None,
             ~(rate # None /\ Printed(rate) < rate)
      PROVE  CarriedThoughWaived("video")
  <2>1. \E f \in About(ask.profile, "Video", source.video.codec, {decision.target.container}) :
          \E c \in f.conditions :
            /\ c.is \in {"atMost", "equals"}
            /\ c.property \in {"Height", "VideoBitrate", "VideoFramerate"}
            /\ \/ ~AllHold(f.when, Values(source, source.video))
               \/ Measured(Values(source, source.video), c.property) = None
    BY <1>1, <1>2, <1>3, <1>4, VideoSurvives
  <2>2. {"Height", "VideoBitrate", "VideoFramerate"} \subseteq CarriedProperties
    BY DEF CarriedProperties
  <2>3. EntriesFor("video", StreamOf("video").codec)
          = About(ask.profile, "Video", source.video.codec, {decision.target.container})
    BY DEF EntriesFor, Kind, StreamOf
  <2>4. StreamOf("video") = source.video
    BY DEF StreamOf
  <2> QED BY <2>1, <2>2, <2>3, <2>4 DEF CarriedThoughWaived
<1>5. Len(decision.target.videoCodecs) \in Nat
  BY <1>1, RedeliveryHasParts
<1> QED BY <1>3, <1>4, <1>5

\* What is encoded at delivery is encoded to a codec that the target names.
LEMMA EncodesAreOfTheTarget ==
  ASSUME NEW src, NEW a, NEW may, NEW d, NEW addr, NEW e, Redelivery(src, a, may, d, addr, e),
         NEW s \in Encoded(e.plans)
  PROVE  \E codecs \in {d.target.videoCodecs, d.target.audioCodecs} :
           e.plans[s].codec \in ToSet(codecs)
<1>1. s \in {"video", "audio"} /\ e.plans[s] # None
  BY StreamsOfBoth DEF Encoded
<1>2. CASE s = "video"
  <2>1. VideoOf(src, a) # None
    BY <1>1, <1>2, StreamsOfBoth
  <2>2. VideoDelivered(src, a, d, addr, e)
    BY <2>1, VideoRedelivered
  <2>3. e.plans.video.codec \in ToSet(d.target.videoCodecs)
    BY <2>2 DEF VideoDelivered
  <2> QED BY <1>2, <2>3
<1>3. CASE s = "audio"
  <2>1. AudioOf(src, a) # None /\ d.plans.audio # None
    BY <1>1, <1>3, StreamsOfBoth
  <2>2. e.plans.audio.codec \in ToSet(addr.audioCodecs)
    <3>1. AudioDelivered(src, a, d, addr, e)
      BY <2>1, AudioRedelivered
    <3> QED BY <3>1 DEF AudioDelivered
  <2>3. d.plans.audio.codec \in ToSet(d.target.audioCodecs)
    <3>1. AudioPlanned(src, a, d)
      BY <2>1, AudioNegotiated
    <3> QED BY <3>1 DEF AudioPlanned
  <2>4. \/ addr.audioCodecs = <<d.plans.audio.codec>>
        \/ addr.audioCodecs = d.target.audioCodecs
    <3>1. Carries(src, a, d, addr)
      BY AddressCarries
    <3> QED BY <2>1, <3>1 DEF Carries
  <2>5. e.plans.audio.codec \in ToSet(d.target.audioCodecs)
    <3>1. ASSUME addr.audioCodecs = <<d.plans.audio.codec>>
          PROVE  e.plans.audio.codec = d.plans.audio.codec
      BY <2>2, <3>1 DEF ToSet
    <3> QED BY <2>2, <2>3, <2>4, <3>1
  <2> QED BY <1>3, <2>5
<1> QED BY <1>1, <1>2, <1>3

\* What cannot be commanded has no streams, or a codec or a container nothing writes.
LEMMA WhatIsNotCommanded ==
  ASSUME NEW src, NEW a, NEW may, NEW d, NEW addr, NEW e, Redelivery(src, a, may, d, addr, e),
         ~Commanded(addr, e.plans)
  PROVE  \/ VideoOf(src, a) = None /\ src.audio = <<>>
         \/ addr.protocol # "hls" /\ addr.container \notin Muxers
         \/ \E codecs \in {d.target.videoCodecs, d.target.audioCodecs} :
              ~(ToSet(codecs) \subseteq Encoders)
<1>1. CASE e.plans = NoPlans
  <2>1. e.plans.video = None /\ e.plans.audio = None
    BY <1>1 DEF NoPlans
  <2>2. VideoOf(src, a) = None /\ AudioOf(src, a) = None
    BY <2>1, StreamsOfBoth
  <2>3. Inspected(src)
    BY DEF Redelivery
  <2> QED BY <2>2, <2>3, StreamsAreInspected
<1>2. ASSUME NEW s \in Encoded(e.plans), e.plans[s].codec \notin Encoders
      PROVE  \E codecs \in {d.target.videoCodecs, d.target.audioCodecs} :
               ~(ToSet(codecs) \subseteq Encoders)
  <2>1. PICK codecs \in {d.target.videoCodecs, d.target.audioCodecs} :
          e.plans[s].codec \in ToSet(codecs)
    BY EncodesAreOfTheTarget
  <2> QED BY <1>2, <2>1
<1> QED BY <1>1, <1>2 DEF Commanded

\* Whatever the negotiation looks at and answers with an address is served.
LEMMA WhatIsLookedAtIsServed ==
  ASSUME Settled PROVE AddressesAreServed
<1> SUFFICES ASSUME Delivers, answer # "started", Bindable(address),
                    ~(ask.video /\ source.video = None /\ source.audio = <<>>),
                    ~(IF address.protocol = "hls"
                      THEN ~ask.video \/ ~source.runs \/ ~({"video", "audio"} \subseteq policy)
                      ELSE address.container \notin Muxers)
             PROVE  \E codecs \in {decision.target.videoCodecs, decision.target.audioCodecs} :
                      ~(ToSet(codecs) \subseteq Encoders)
  BY DEF AddressesAreServed
<1> DEFINE b == AskOf(source, address)
           hls == address.protocol = "hls"
<1>1. Redelivery(source, ask, seen.policy, decision, address, delivery)
  BY DeliveryIsRedelivery
<1>2. /\ answer = AnswerTo(source, address, delivery.plans, policy)
      /\ Inspected(source) /\ ask.profile # None
      /\ ~ask.video => source.audio # <<>>
  <2>1. ask.profile # None
    BY <1>1, SameStreams
  <2> QED BY <2>1 DEF Delivers, Settled
<1>3. address.video = ask.video
  BY <1>1, AddressNames DEF Redelivery
<1>4. b.video = address.video
  BY DEF AskOf
<1>5. hls => ~RefusedByPolicy(policy, b, delivery.plans)
  <2>1. Encoded(delivery.plans) \subseteq {"video", "audio"}
    BY <1>1, StreamsOfBoth DEF Encoded
  <2>2. hls => {"video", "audio"} \subseteq policy /\ MayProcess(policy, b)
    BY DEF MayProcess
  <2> HIDE DEF b
  <2> QED BY <2>1, <2>2 DEF RefusedByPolicy
<1>6. Deliverable(source, address)
  <2>1. source.video # None \/ source.audio # <<>>
    BY <1>2
  <2>2. source # Unopened
    BY <2>1 DEF Unopened
  <2> QED BY <1>2, <2>2 DEF Inspected, Deliverable
<1> HIDE DEF b
<1>7. ~Commanded(address, delivery.plans)
  BY <1>2, <1>3, <1>5, <1>6 DEF AnswerTo, b
<1>8. ~(VideoOf(source, ask) = None /\ source.audio = <<>>)
  BY <1>2 DEF VideoOf
<1> QED BY <1>1, <1>7, <1>8, WhatIsNotCommanded

\* Though the second decision knows nothing but the address, it is the first one but where
\* one of its parts says otherwise (`transcoding_url`, `decide_delivery`).
THEOREM TheSecondDecisionIsTheFirst == Spec => []TheDecisionsAgree
<1>1. Settled => TheDecisionsAgree
  BY TracksAgree, NothingCarriedIsLost, WhatIsCopiedSurvives, WhatIsLookedAtIsServed
     DEF TheDecisionsAgree
<1> QED BY <1>1, NegotiationIsSettled, PTL

----------------------------------------------------------------------------
(* Limits and the cap.                                                     *)
\* What is not over a limit and what is clamped to one.
LEMMA WithinTheLimit ==
  ASSUME NEW limit \in Int, NEW value \in Value
  PROVE  /\ value # None /\ ~Over(limit, value) => value \in Int /\ value <= limit
         /\ Clamped(limit, value) \in Int /\ Clamped(limit, value) <= limit
<1>1. limit \in Value /\ limit # None
  BY NoneAssumption DEF Value
<1>2. Clamped(limit, value) \in Int /\ Clamped(limit, value) <= limit
  BY <1>1, ClampedIsLeast
<1>3. value # None /\ ~Over(limit, value) => value \in Int /\ value <= limit
  BY <1>1 DEF Over, Value
<1> QED BY <1>2, <1>3

\* The video that is delivered is within the limits of its codec's entries.
LEMMA VideoWithinLimits ==
  ASSUME NEW src, NEW a, NEW may, NEW d, NEW addr, NEW e, Redelivery(src, a, may, d, addr, e),
         VideoOf(src, a) # None,
         NEW f \in About(a.profile, "Video", e.plans.video.codec, {d.target.container}),
         NEW c \in f.conditions, c.is \in {"atMost", "equals"},
         c.property \in {"Height", "VideoBitrate"},
         e.plans.video.out[c.property] \notin {None, 0}
  PROVE  LET out == e.plans.video.out
         IN /\ c.value \in Int /\ out[c.property] \in Int
            /\ c.property = "Height" => out["Height"] <= c.value
            /\ c.property = "VideoBitrate" =>
                 out["VideoBitrate"] <= Max({c.value, MinimumVideoBitrate})
<1> DEFINE values == Values(src, src.video)
           own == src.video.values
           codecs == d.target.videoCodecs
           names == {d.target.container}
           plan == e.plans.video
           out == plan.out
           profile == a.profile
           Limit(p) == Tightest(profile, "Video", codecs, names, p)
<1>1. /\ Inspected(src) /\ profile # None
      /\ Finite(profile) /\ Cap(a) \in Value /\ codecs \in Seq(STRING) /\ addr \in Address
  BY RedeliveryHasParts
<1>2. /\ plan \in StreamPlan(VideoProperties) /\ src.video \in VideoStream
      /\ plan.codec \in ToSet(codecs)
      /\ plan.does = "copy" => out = own
      /\ plan.does = "encode" =>
           /\ out["Height"] = Clamped(addr.height, values["Height"])
           /\ out["VideoBitrate"] = Clamped(addr.videoBitrate, values["VideoBitrate"])
      /\ plan.does = "copy" =>
           /\ ~Over(addr.height, values["Height"])
           /\ ~Over(addr.videoBitrate, values["VideoBitrate"])
  <2>1. VideoDelivered(src, a, d, addr, e)
    BY VideoRedelivered
  <2> QED BY <2>1 DEF VideoDelivered
<1>3. /\ addr.height = Limit("Height")
      /\ addr.videoBitrate = VideoShare(Cap(a), Limit("VideoBitrate"), addr.audioBitrate)
  <2>1. Carries(src, a, d, addr)
    BY AddressCarries
  <2> QED BY <2>1 DEF Carries
<1>4. /\ values \in [VideoProperties -> Value] /\ own \in [VideoProperties -> Value]
      /\ values["Height"] = own["Height"]
      /\ values["VideoBitrate"] = Or(own["VideoBitrate"], src.bitrate)
      /\ {"Height", "VideoBitrate"} \subseteq VideoProperties
  <2>1. {"Height", "VideoBitrate"} \subseteq VideoProperties
    BY DEF VideoProperties
  <2> QED BY <1>1, <1>2, <2>1, VideoMeasures
<1>5. plan.does \in {"copy", "encode"} /\ out \in [VideoProperties -> Value]
  BY <1>2 DEF StreamPlan
<1>6. f \in About(profile, "Video", plan.codec, names) /\ out[c.property] \notin {None, 0}
  OBVIOUS
<1> HIDE DEF values, own, codecs, names, plan, out, profile
<1>7. /\ Limit(c.property) # None /\ Limit(c.property) \in Int
      /\ c.value \in Int /\ Limit(c.property) <= c.value
  BY <1>1, <1>2, <1>6, TightestBinds
<1> HIDE DEF Limit
<1>8. out[c.property] \in Int
  BY <1>4, <1>5, <1>6 DEF Value
<1>9. ASSUME c.property = "Height" PROVE out["Height"] <= c.value
  <2>1. addr.height \in Int /\ addr.height <= c.value /\ values["Height"] \in Value
    BY <1>3, <1>4, <1>7, <1>9
  <2>2. out["Height"] \in Int /\ out["Height"] <= addr.height
    <3>1. CASE plan.does = "encode"
      BY <1>2, <2>1, <3>1, WithinTheLimit
    <3>2. CASE plan.does = "copy"
      <4>1. values["Height"] # None /\ ~Over(addr.height, values["Height"])
            /\ out["Height"] = values["Height"]
        BY <1>2, <1>4, <1>6, <1>9, <3>2
      <4> QED BY <2>1, <4>1, WithinTheLimit
    <3> QED BY <1>5, <3>1, <3>2
  <2> QED BY <1>7, <2>1, <2>2
<1>10. ASSUME c.property = "VideoBitrate"
       PROVE  out["VideoBitrate"] <= Max({c.value, MinimumVideoBitrate})
  <2> DEFINE share == addr.videoBitrate
             most == Max({c.value, MinimumVideoBitrate})
             value == values["VideoBitrate"]
  <2>1. most \in Int /\ c.value <= most /\ MinimumVideoBitrate <= most
    BY <1>7, MinimumAssumption, MaxOfTwo
  <2>2. value \in Value /\ Limit("VideoBitrate") \in Value /\ addr.audioBitrate \in Value
    BY <1>1, <1>4, <1>7, <1>10, AddressHasParts DEF Value
  <2> HIDE DEF most, value
  <2>3. share \in Int /\ share <= most
    <3>1. /\ Cap(a) = None => share = Limit("VideoBitrate")
          /\ Cap(a) # None => /\ share \in Int
                              /\ share = MinimumVideoBitrate \/ share <= Limit("VideoBitrate")
      BY <1>1, <1>3, <1>7, <1>10, <2>2, ShareOfTheCap
    <3> QED BY <1>7, <1>10, <2>1, <3>1
  <2>4. out["VideoBitrate"] \in Int /\ out["VideoBitrate"] <= share
    <3>1. CASE plan.does = "encode"
      BY <1>2, <2>2, <2>3, <3>1, WithinTheLimit DEF value
    <3>2. CASE plan.does = "copy"
      <4>1. own["VideoBitrate"] \notin {None, 0} /\ out["VideoBitrate"] = own["VideoBitrate"]
        BY <1>2, <1>6, <1>10, <3>2
      <4>2. value = out["VideoBitrate"] /\ value # None
        BY <1>4, <4>1 DEF Or, value
      <4>3. ~Over(share, value)
        BY <1>2, <3>2 DEF value
      <4> QED BY <2>2, <2>3, <4>2, <4>3, WithinTheLimit
    <3> QED BY <1>5, <3>1, <3>2
  <2> QED BY <2>1, <2>3, <2>4 DEF most
<1> QED BY <1>7, <1>8, <1>9, <1>10 DEF out, plan

\* A condition that nothing fails holds of what is known.
LEMMA UnbrokenHolds ==
  ASSUME NEW profile, Finite(profile), NEW kind, NEW codec, NEW names, NEW properties,
         NEW values \in [properties -> Value],
         Failures(profile, kind, codec, names, values) = {},
         NEW f \in About(profile, kind, codec, names), AllHold(f.when, values),
         NEW c \in f.conditions, c.is \in {"atMost", "equals"},
         c.property \in Numbers, c.property \in properties, values[c.property] # None
  PROVE  c.value \in Int /\ values[c.property] \in Int /\ values[c.property] <= c.value
<1>1. c.value \in Int
  <2>1. f \in profile.codecs /\ profile \in DeviceProfile
    BY DEF About, Finite
  <2> QED BY <2>1, LimitIsANumber
<1>2. Measured(values, c.property) = values[c.property] /\ values[c.property] \in Value
  BY DEF Measured
<1>3. values[c.property] \in Int
  BY <1>2 DEF Value
<1>4. c.property \notin Silent
  BY DEF Numbers, Silent
<1>5. Holds(c, values[c.property])
  BY <1>2, <1>4 DEF Failures
<1>6. values[c.property] = c.value \/ values[c.property] <= c.value
  BY <1>5 DEF Holds
<1> QED BY <1>1, <1>3, <1>6

\* A sound that is copied as it was to be is within the limits of the entries for it.
LEMMA CopiedSoundWithinLimits ==
  ASSUME NEW src, NEW a, NEW may, NEW d, NEW addr, NEW e, Redelivery(src, a, may, d, addr, e),
         AudioOf(src, a) # None, d.plans.audio.does = "copy",
         NEW f \in About(a.profile, AudioKind(a), e.plans.audio.codec, {d.target.container}),
         AllHold(f.when, Values(src, AudioOf(src, a))),
         NEW c \in f.conditions, c.is \in {"atMost", "equals"},
         c.property \in {"AudioBitrate", "AudioSampleRate"},
         e.plans.audio.out[c.property] \notin {None, 0}
  PROVE  /\ c.value \in Int /\ e.plans.audio.out[c.property] \in Int
         /\ e.plans.audio.out[c.property] <= c.value
<1> DEFINE stream == AudioOf(src, a)
           values == Values(src, stream)
           own == stream.values
           kind == AudioKind(a)
           names == {d.target.container}
           plan == e.plans.audio
           out == plan.out
           profile == a.profile
<1>1. Inspected(src) /\ Finite(profile)
  BY RedeliveryHasParts
<1>2. /\ stream \in AudioStream
      /\ Failures(profile, kind, stream.codec, names, values) = {}
  <2>1. AudioPlanned(src, a, d)
    BY AudioNegotiated
  <2> QED BY <2>1 DEF AudioPlanned
<1>3. plan.codec = stream.codec /\ out = own
  <2>1. AudioDelivered(src, a, d, addr, e)
    BY AudioRedelivered
  <2>2. plan.does = "copy"
    BY SoundSurvives
  <2> QED BY <2>1, <2>2 DEF AudioDelivered
<1>4. /\ values \in [AudioProperties -> Value] /\ own \in [AudioProperties -> Value]
      /\ values["AudioSampleRate"] = own["AudioSampleRate"]
      /\ values["AudioBitrate"] = Or(own["AudioBitrate"], src.bitrate)
      /\ {"AudioBitrate", "AudioSampleRate"} \subseteq AudioProperties \cap Numbers
  <2>1. {"AudioBitrate", "AudioSampleRate"} \subseteq AudioProperties \cap Numbers
    BY DEF AudioProperties, Numbers
  <2> QED BY <1>1, <1>2, <2>1, AudioMeasures
<1>5. /\ f \in About(profile, kind, stream.codec, names) /\ AllHold(f.when, values)
      /\ out[c.property] \notin {None, 0}
  BY <1>3
<1> HIDE DEF values, own, kind, names, plan, out, profile, stream
<1>6. values[c.property] = out[c.property] /\ values[c.property] # None
  <2>1. out[c.property] = own[c.property] /\ own[c.property] \notin {None, 0}
    BY <1>3, <1>5
  <2>2. CASE c.property = "AudioBitrate"
    BY <1>4, <2>1, <2>2 DEF Or
  <2>3. CASE c.property = "AudioSampleRate"
    BY <1>4, <2>1, <2>3
  <2> QED BY <2>2, <2>3
<1>7. c.value \in Int /\ values[c.property] \in Int /\ values[c.property] <= c.value
  BY <1>1, <1>2, <1>4, <1>5, <1>6, UnbrokenHolds
<1> QED BY <1>6, <1>7 DEF out, plan

\* One that was to be encoded is within the limits the address was given for it.
LEMMA EncodedSoundWithinLimits ==
  ASSUME NEW src, NEW a, NEW may, NEW d, NEW addr, NEW e, Redelivery(src, a, may, d, addr, e),
         AudioOf(src, a) # None, d.plans.audio.does = "encode",
         NEW f \in About(a.profile, AudioKind(a), e.plans.audio.codec, {d.target.container}),
         NEW c \in f.conditions, c.is \in {"atMost", "equals"},
         \/ c.property = "AudioSampleRate"
         \/ c.property = "AudioBitrate" /\ Len(d.target.audioCodecs) = 1,
         e.plans.audio.out[c.property] \notin {None, 0}
  PROVE  /\ c.value \in Int /\ e.plans.audio.out[c.property] \in Int
         /\ e.plans.audio.out[c.property] <= c.value
<1> DEFINE stream == AudioOf(src, a)
           values == Values(src, stream)
           own == stream.values
           codecs == d.target.audioCodecs
           kind == AudioKind(a)
           names == {d.target.container}
           plan == e.plans.audio
           made == d.plans.audio
           out == plan.out
           profile == a.profile
           Ceil(p) == Ceiling(profile, kind, plan.codec, names, p)
           Limit(p) == Tightest(profile, kind, codecs, names, p)
           carried == IF c.property = "AudioBitrate" THEN addr.audioBitrate
                      ELSE addr.sampleRate
<1>1. Inspected(src) /\ Finite(profile) /\ codecs \in Seq(STRING)
  BY RedeliveryHasParts
<1>2. /\ stream \in AudioStream /\ made # None /\ made.does = "encode"
      /\ made.codec \in ToSet(codecs)
      /\ made.out["AudioBitrate"]
           = Clamped(Ceiling(profile, kind, made.codec, names, "AudioBitrate"),
                     own["AudioBitrate"])
  <2>1. AudioPlanned(src, a, d)
    BY AudioNegotiated
  <2> QED BY <2>1 DEF AudioPlanned
<1>3. /\ addr.audioCodecs = codecs /\ addr.sampleRate = Limit("AudioSampleRate")
      /\ addr.audioBitrate = made.out["AudioBitrate"]
  <2>1. Carries(src, a, d, addr)
    BY AddressCarries
  <2> QED BY <1>2, <2>1 DEF Carries
<1>4. /\ plan \in StreamPlan(AudioProperties)
      /\ plan.codec \in ToSet(addr.audioCodecs)
      /\ plan.does = "copy" => out = own
      /\ plan.does = "encode" =>
           /\ out["AudioBitrate"] = Clamped(addr.audioBitrate, own["AudioBitrate"])
           /\ out["AudioSampleRate"] = Clamped(addr.sampleRate, own["AudioSampleRate"])
      /\ plan.does = "copy" =>
           /\ ~Over(addr.audioBitrate, values["AudioBitrate"])
           /\ ~Over(addr.sampleRate, values["AudioSampleRate"])
  <2>1. AudioDelivered(src, a, d, addr, e)
    BY AudioRedelivered
  <2> QED BY <2>1 DEF AudioDelivered
<1>5. /\ values \in [AudioProperties -> Value] /\ own \in [AudioProperties -> Value]
      /\ values["AudioSampleRate"] = own["AudioSampleRate"]
      /\ values["AudioBitrate"] = Or(own["AudioBitrate"], src.bitrate)
      /\ {"AudioBitrate", "AudioSampleRate"} \subseteq AudioProperties
  <2>1. {"AudioBitrate", "AudioSampleRate"} \subseteq AudioProperties
    BY DEF AudioProperties
  <2> QED BY <1>1, <1>2, <2>1, AudioMeasures
<1>6. plan.does \in {"copy", "encode"} /\ out \in [AudioProperties -> Value]
  BY <1>4 DEF StreamPlan
<1>7. /\ f \in About(profile, kind, plan.codec, names) /\ out[c.property] \notin {None, 0}
      /\ c.property \in {"AudioSampleRate", "AudioBitrate"}
      /\ c.property = "AudioBitrate" => Len(codecs) = 1
  OBVIOUS
<1> HIDE DEF values, own, codecs, kind, names, plan, made, out, profile, stream
<1>8. out[c.property] \in Int
  BY <1>5, <1>6, <1>7 DEF Value
<1>9. carried \in Int /\ c.value \in Int /\ carried <= c.value
  <2>1. CASE c.property = "AudioSampleRate"
    <3>1. /\ Limit(c.property) # None /\ Limit(c.property) \in Int
          /\ c.value \in Int /\ Limit(c.property) <= c.value
      BY <1>1, <1>3, <1>4, <1>7, TightestBinds
    <3> HIDE DEF Limit
    <3> QED BY <1>3, <2>1, <3>1
  <2>2. CASE c.property = "AudioBitrate"
    <3>1. plan.codec = made.codec
      <4>1. Len(codecs) = 1 /\ plan.codec \in ToSet(codecs)
        BY <1>3, <1>4, <1>7, <2>2
      <4> QED BY <1>1, <1>2, <4>1, OnlyOne
    <3>2. Limiting(c, "AudioBitrate")
      BY <2>2 DEF Limiting
    <3>3. /\ Ceil("AudioBitrate") # None /\ Ceil("AudioBitrate") \in Int
          /\ Ceil("AudioBitrate") <= c.value
      BY <1>1, <1>7, <3>2, CeilingIsTheLeast
    <3>4. c.value \in Int
      <4>1. f \in profile.codecs /\ profile \in DeviceProfile
        BY <1>1, <1>7 DEF About, Finite
      <4> QED BY <4>1, LimitIsANumber
    <3>5. addr.audioBitrate = Clamped(Ceil("AudioBitrate"), own["AudioBitrate"])
      BY <1>2, <1>3, <3>1
    <3> HIDE DEF Ceil
    <3>6. addr.audioBitrate \in Int /\ addr.audioBitrate <= Ceil("AudioBitrate")
      BY <1>5, <3>3, <3>5, WithinTheLimit
    <3> QED BY <2>2, <3>3, <3>4, <3>6
  <2> QED BY <1>7, <2>1, <2>2
<1>10. /\ plan.does = "encode" => out[c.property] = Clamped(carried, own[c.property])
       /\ plan.does = "copy" =>
            /\ out[c.property] = own[c.property]
            /\ ~Over(carried, values[c.property])
  BY <1>4, <1>7
<1>11. own[c.property] \in Value /\ values[c.property] \in Value
  BY <1>5, <1>7
<1>12. own[c.property] \notin {None, 0} => values[c.property] = own[c.property]
  BY <1>5, <1>7 DEF Or
<1> HIDE DEF carried
<1>13. out[c.property] <= carried
  <2>1. CASE plan.does = "encode"
    BY <1>9, <1>10, <1>11, <2>1, WithinTheLimit
  <2>2. CASE plan.does = "copy"
    <3>1. /\ values[c.property] = out[c.property] /\ values[c.property] # None
          /\ ~Over(carried, values[c.property])
      BY <1>7, <1>10, <1>12, <2>2
    <3> QED BY <1>9, <1>11, <3>1, WithinTheLimit
  <2> QED BY <1>6, <2>1, <2>2
<1>14. out[c.property] <= c.value
  BY <1>8, <1>9, <1>13
<1> QED BY <1>8, <1>9, <1>14 DEF out, plan

\* Every stream is within the limits that are carried for it.
LEMMA CarriedLimitsAreKept ==
  ASSUME Settled PROVE CarriedLimitsHold
<1> SUFFICES ASSUME Delivers, NEW s \in DOMAIN delivery.plans, delivery.plans[s] # None,
                    NEW f \in Binding(s, delivery.plans[s].codec), NEW c \in f.conditions,
                    c.is \in {"atMost", "equals"},
                    c.property \in CarriedProperties,
                    c.property \in DOMAIN delivery.plans[s].out,
                    c.property # "VideoFramerate",
                    delivery.plans[s].out[c.property] \notin {None, 0}
             PROVE  delivery.plans[s].out[c.property]
                      <= (IF c.property = "VideoBitrate"
                          THEN Max({c.value, MinimumVideoBitrate}) ELSE c.value)
  BY DEF CarriedLimitsHold
<1>1. Redelivery(source, ask, seen.policy, decision, address, delivery)
  BY DeliveryIsRedelivery
<1>2. /\ s \in {"video", "audio"}
      /\ s = "video" => VideoOf(source, ask) # None
      /\ s = "audio" => AudioOf(source, ask) # None
      /\ Kind("video") = "Video" /\ Kind("audio") = AudioKind(ask)
      /\ StreamOf("audio") = AudioOf(source, ask)
  BY WordsOfTheProperties
<1>3. /\ f \in About(ask.profile, Kind(s), delivery.plans[s].codec, {decision.target.container})
      /\ s = "audio" /\ decision.plans[s].does = "copy" =>
           AllHold(f.when, Values(source, StreamOf(s)))
  BY DEF Binding, EntriesFor
<1>4. CASE s = "video"
  <2>1. c.property \in {"Height", "VideoBitrate"}
    <3>1. delivery.plans.video \in StreamPlan(VideoProperties)
      <4>1. VideoDelivered(source, ask, decision, address, delivery)
        BY <1>1, <1>2, <1>4, VideoRedelivered
      <4> QED BY <4>1 DEF VideoDelivered
    <3>2. c.property \in VideoProperties
      BY <1>4, <3>1 DEF StreamPlan
    <3> QED BY <3>2 DEF VideoProperties, CarriedProperties
  <2>2. /\ delivery.plans.video.out[c.property] \notin {None, 0}
        /\ VideoOf(source, ask) # None
        /\ f \in About(ask.profile, "Video", delivery.plans.video.codec,
                       {decision.target.container})
    BY <1>2, <1>3, <1>4
  <2>3. /\ c.property = "Height" => delivery.plans.video.out["Height"] <= c.value
        /\ c.property = "VideoBitrate" =>
             delivery.plans.video.out["VideoBitrate"] <= Max({c.value, MinimumVideoBitrate})
    BY <1>1, <2>1, <2>2, VideoWithinLimits
  <2> QED BY <1>4, <2>1, <2>3
<1>5. CASE s = "audio"
  <2>1. /\ c.property \in {"AudioBitrate", "AudioSampleRate"}
        /\ c.property = "AudioBitrate" => Len(decision.target.audioCodecs) = 1
    <3>1. delivery.plans.audio \in StreamPlan(AudioProperties)
      <4>1. AudioDelivered(source, ask, decision, address, delivery)
        BY <1>1, <1>2, <1>5, AudioRedelivered
      <4> QED BY <4>1 DEF AudioDelivered
    <3>2. c.property \in AudioProperties
      BY <1>5, <3>1 DEF StreamPlan
    <3> QED BY <3>2 DEF AudioProperties, CarriedProperties
  <2>2. /\ delivery.plans.audio.out[c.property] \notin {None, 0}
        /\ AudioOf(source, ask) # None
        /\ f \in About(ask.profile, AudioKind(ask), delivery.plans.audio.codec,
                       {decision.target.container})
        /\ decision.plans.audio.does = "copy" =>
             AllHold(f.when, Values(source, AudioOf(source, ask)))
    BY <1>2, <1>3, <1>5
  <2>3. decision.plans.audio.does \in {"copy", "encode"}
    BY <2>2, WordsOfTheProperties
  <2>4. delivery.plans.audio.out[c.property] <= c.value
    <3>1. CASE decision.plans.audio.does = "copy"
      BY <1>1, <2>1, <2>2, <3>1, CopiedSoundWithinLimits
    <3>2. CASE decision.plans.audio.does = "encode"
      BY <1>1, <2>1, <2>2, <3>2, EncodedSoundWithinLimits
    <3> QED BY <2>3, <3>1, <3>2
  <2> QED BY <1>5, <2>1, <2>4
<1> QED BY <1>2, <1>4, <1>5

\* What a stream takes of a cap is within its limit, copied or encoded.
LEMMA RateWithinTheLimit ==
  ASSUME NEW limit \in Int, NEW own \in Value, NEW whole \in Value
  PROVE  /\ ~Over(limit, Or(own, whole)) =>
              Or(own, Or(whole, 0)) \in Int /\ Or(own, Or(whole, 0)) <= limit
         /\ \A value \in Value : Or(Clamped(limit, value), 0) \in Int
                                 /\ Or(Clamped(limit, value), 0) <= limit
<1>1. ASSUME ~Over(limit, Or(own, whole))
      PROVE  Or(own, Or(whole, 0)) \in Int /\ Or(own, Or(whole, 0)) <= limit
  <2>1. limit # None
    BY NoneAssumption
  <2>2. Or(own, whole) \in Value /\ Or(own, whole) # None
    BY <1>1, <2>1, OrIsOne DEF Over
  <2>3. Or(own, whole) \in Int /\ Or(own, whole) <= limit
    BY <1>1, <2>2, WithinTheLimit
  <2>4. Or(own, Or(whole, 0)) = Or(own, whole)
    BY <2>2 DEF Or
  <2> QED BY <2>3, <2>4
<1>2. ASSUME NEW value \in Value
      PROVE  Or(Clamped(limit, value), 0) \in Int /\ Or(Clamped(limit, value), 0) <= limit
  <2>1. Clamped(limit, value) \in Int /\ Clamped(limit, value) <= limit
    BY WithinTheLimit
  <2>2. Or(Clamped(limit, value), 0) = Clamped(limit, value)
    BY <2>1, NoneAssumption DEF Or
  <2> QED BY <2>1, <2>2
<1> QED BY <1>1, <1>2

\* What the video takes is within the address's share for it.
LEMMA VideoRate ==
  ASSUME Settled, Delivers, VideoOf(source, ask) # None, address.videoBitrate \in Int
  PROVE  /\ Rate(delivery.plans.video, "VideoBitrate") \in Int
         /\ Rate(delivery.plans.video, "VideoBitrate") <= address.videoBitrate
<1> DEFINE plan == delivery.plans.video
           own == source.video.values
           values == Values(source, source.video)
           limit == address.videoBitrate
<1>1. Redelivery(source, ask, seen.policy, decision, address, delivery)
  BY DeliveryIsRedelivery
<1>2. Inspected(source) /\ source.bitrate \in Value
  <2>1. Inspected(source)
    BY <1>1, RedeliveryHasParts
  <2> QED BY <2>1 DEF Inspected, Source
<1>3. /\ plan # None /\ source.video \in VideoStream /\ plan \in StreamPlan(VideoProperties)
      /\ plan.does = "copy" =>
           plan.out = own /\ ~Over(limit, values["VideoBitrate"])
      /\ plan.does = "encode" =>
           plan.out["VideoBitrate"] = Clamped(limit, values["VideoBitrate"])
  <2>1. VideoDelivered(source, ask, decision, address, delivery)
    BY <1>1, VideoRedelivered
  <2> QED BY <2>1 DEF VideoDelivered
<1>4. /\ own["VideoBitrate"] \in Value /\ values["VideoBitrate"] \in Value
      /\ values["VideoBitrate"] = Or(own["VideoBitrate"], source.bitrate)
  <2>1. "VideoBitrate" \in VideoProperties
    BY DEF VideoProperties
  <2> QED BY <1>2, <1>3, <2>1, VideoMeasures
<1>5. plan.does \in {"copy", "encode"}
  BY <1>3 DEF StreamPlan
<1> DEFINE rate == Rate(plan, "VideoBitrate")
<1>6. /\ plan.does = "copy" => rate = Or(own["VideoBitrate"], Or(source.bitrate, 0))
      /\ plan.does = "encode" => rate = Or(Clamped(limit, values["VideoBitrate"]), 0)
  BY <1>3 DEF Rate
<1>7. limit \in Int
  OBVIOUS
<1> HIDE DEF plan, own, values, limit, rate
<1>8. rate \in Int /\ rate <= limit
  <2>1. CASE plan.does = "copy"
    BY <1>2, <1>3, <1>4, <1>6, <1>7, <2>1, RateWithinTheLimit
  <2>2. CASE plan.does = "encode"
    BY <1>2, <1>4, <1>6, <1>7, <2>2, RateWithinTheLimit
  <2> QED BY <1>5, <2>1, <2>2
<1> QED BY <1>8 DEF rate, plan, limit

\* And what the sound takes within its limit.
LEMMA AudioRate ==
  ASSUME Settled, Delivers, AudioOf(source, ask) # None, address.audioBitrate \in Int
  PROVE  /\ Rate(delivery.plans.audio, "AudioBitrate") \in Int
         /\ Rate(delivery.plans.audio, "AudioBitrate") <= address.audioBitrate
<1> DEFINE plan == delivery.plans.audio
           stream == AudioOf(source, ask)
           own == stream.values
           values == Values(source, stream)
           limit == address.audioBitrate
<1>1. Redelivery(source, ask, seen.policy, decision, address, delivery)
  BY DeliveryIsRedelivery
<1>2. Inspected(source) /\ source.bitrate \in Value
  <2>1. Inspected(source)
    BY <1>1, RedeliveryHasParts
  <2> QED BY <2>1 DEF Inspected, Source
<1>3. /\ plan # None /\ stream \in AudioStream /\ plan \in StreamPlan(AudioProperties)
      /\ plan.does = "copy" =>
           plan.out = own /\ ~Over(limit, values["AudioBitrate"])
      /\ plan.does = "encode" =>
           plan.out["AudioBitrate"] = Clamped(limit, own["AudioBitrate"])
  <2>1. AudioDelivered(source, ask, decision, address, delivery)
    BY <1>1, AudioRedelivered
  <2> QED BY <2>1 DEF AudioDelivered
<1>4. /\ own["AudioBitrate"] \in Value
      /\ values["AudioBitrate"] = Or(own["AudioBitrate"], source.bitrate)
  <2>1. "AudioBitrate" \in AudioProperties
    BY DEF AudioProperties
  <2> QED BY <1>2, <1>3, <2>1, AudioMeasures
<1>5. plan.does \in {"copy", "encode"}
  BY <1>3 DEF StreamPlan
<1> DEFINE rate == Rate(plan, "AudioBitrate")
<1>6. /\ plan.does = "copy" => rate = Or(own["AudioBitrate"], Or(source.bitrate, 0))
      /\ plan.does = "encode" => rate = Or(Clamped(limit, own["AudioBitrate"]), 0)
  BY <1>3 DEF Rate
<1>7. limit \in Int
  OBVIOUS
<1> HIDE DEF plan, own, values, limit, rate, stream
<1>8. rate \in Int /\ rate <= limit
  <2>1. CASE plan.does = "copy"
    BY <1>2, <1>3, <1>4, <1>6, <1>7, <2>1, RateWithinTheLimit
  <2>2. CASE plan.does = "encode"
    BY <1>2, <1>4, <1>6, <1>7, <2>2, RateWithinTheLimit
  <2> QED BY <1>5, <2>1, <2>2
<1> QED BY <1>8 DEF rate, plan, limit

\* Together they stay within the cap, or the video is down to the minimum.
LEMMA TheCapIsKept ==
  ASSUME Settled PROVE VideoKeepsTheCap
<1> DEFINE video == Rate(delivery.plans.video, "VideoBitrate")
           audio == Rate(delivery.plans.audio, "AudioBitrate")
           cap == Cap(ask)
           share == address.videoBitrate
           sound == address.audioBitrate
           least == MinimumVideoBitrate
<1> SUFFICES ASSUME Delivers, cap # None, delivery.plans.video # None,
                    decision.plans.audio # None =>
                      decision.plans.audio.out["AudioBitrate"] # None
             PROVE  video + audio <= Max({cap, least + audio})
  BY DEF VideoKeepsTheCap
<1>1. Redelivery(source, ask, seen.policy, decision, address, delivery)
  BY DeliveryIsRedelivery
<1>2. /\ Finite(ask.profile) /\ cap \in Value /\ address \in Address
      /\ decision.target.videoCodecs \in Seq(STRING)
  BY <1>1, RedeliveryHasParts
<1>3. cap \in Int
  BY <1>2 DEF Value
<1>4. /\ VideoOf(source, ask) # None
      /\ delivery.plans.audio = None <=> AudioOf(source, ask) = None
      /\ decision.plans.audio = None <=> AudioOf(source, ask) = None
  BY WordsOfTheProperties
<1> DEFINE stated == Tightest(ask.profile, "Video", decision.target.videoCodecs,
                              {decision.target.container}, "VideoBitrate")
<1>5. /\ share = VideoShare(cap, stated, sound)
      /\ AudioOf(source, ask) = None => sound = None
      /\ AudioOf(source, ask) # None => sound # None
  <2>1. Carries(source, ask, decision, address)
    BY <1>1, AddressCarries
  <2> QED BY <1>4, <2>1 DEF Carries
<1>6. sound \in Value /\ stated \in Value /\ least \in Int
  <2>1. stated \in Value
    BY <1>2, TightestIsTheLeast
  <2> QED BY <1>2, <2>1, AddressHasParts, MinimumAssumption
<1> HIDE DEF stated, cap, share, sound
<1>7. /\ share \in Int
      /\ share = least \/ (Or(sound, 0) \in Int /\ share <= cap - Or(sound, 0))
  BY <1>2, <1>3, <1>5, <1>6, NoneAssumption, ShareOfTheCap
<1>8. video \in Int /\ video <= share
  BY <1>4, <1>7, VideoRate DEF share
<1>9. audio \in Int /\ audio <= Or(sound, 0) /\ Or(sound, 0) \in Int
  <2>1. CASE AudioOf(source, ask) = None
    <3>1. audio = 0
      BY <1>4, <2>1 DEF Rate
    <3>2. Or(sound, 0) = 0
      BY <1>5, <2>1 DEF Or
    <3> QED BY <3>1, <3>2
  <2>2. CASE AudioOf(source, ask) # None
    <3>1. sound \in Int
      BY <1>5, <1>6, <2>2 DEF Value
    <3>2. audio \in Int /\ audio <= sound
      BY <2>2, <3>1, AudioRate DEF sound
    <3>3. Or(sound, 0) = sound
      BY <1>5, <2>2 DEF Or
    <3> QED BY <3>1, <3>2, <3>3
  <2> QED BY <2>1, <2>2
<1> HIDE DEF video, audio, least
<1>10. /\ Max({cap, least + audio}) \in Int
       /\ Max({cap, least + audio}) >= cap /\ Max({cap, least + audio}) >= least + audio
  <2>1. least + audio \in Int
    BY <1>6, <1>9
  <2> DEFINE rest == least + audio
  <2> HIDE DEF rest
  <2>2. Max({cap, rest}) \in {cap, rest} /\ Max({cap, rest}) >= cap /\ Max({cap, rest}) >= rest
    BY <1>3, <2>1, MaxOfTwo DEF rest
  <2> QED BY <1>3, <2>1, <2>2 DEF rest
<1> DEFINE most == Max({cap, least + audio})
<1> HIDE DEF most
<1>11. CASE share = least
  BY <1>6, <1>8, <1>9, <1>10, <1>11 DEF most
<1>12. CASE share <= cap - Or(sound, 0)
  <2> DEFINE taken == Or(sound, 0)
  <2> HIDE DEF taken
  <2>1. share <= cap - taken /\ audio <= taken /\ taken \in Int
    BY <1>9, <1>12 DEF taken
  <2>2. video + audio <= cap
    BY <1>3, <1>7, <1>8, <1>9, <2>1
  <2> QED BY <1>3, <1>8, <1>9, <1>10, <2>2
<1> QED BY <1>7, <1>11, <1>12

\* What is delivered keeps to the limits the address carries and to the cap
\* (`_ceiling_profiles`, `_video_bitrate`).
THEOREM WhatIsDeliveredFits == Spec => []LimitsAndCapHold
<1>1. Settled => LimitsAndCapHold
  BY CarriedLimitsAreKept, TheCapIsKept DEF LimitsAndCapHold
<1> QED BY <1>1, NegotiationIsSettled, PTL

----------------------------------------------------------------------------
(* What an answer costs.                                                   *)
\* What encodes fewer streams is less work.
LEMMA FewerEncodesAreLessWork ==
  ASSUME NEW src, NEW a, NEW b, NEW target,
         Encoded(Plans(src, b, target)) \subseteq Encoded(Plans(src, a, target))
  PROVE  WorkOf(src, b, target) <= WorkOf(src, a, target)
<1> DEFINE fewer == Encoded(Plans(src, b, target))
           all == Encoded(Plans(src, a, target))
<1>1. IsFiniteSet(all) /\ fewer \in SUBSET all
  BY WorkIsSmall
<1> HIDE DEF fewer, all
<1>2. Cardinality(fewer) <= Cardinality(all)
  BY <1>1, FS_Subset
<1> QED BY <1>2 DEF WorkOf, fewer, all

\* Whether a file is played as it is.
Plays(src, a) == DirectEntry(src, a) # 0 /\ a.direct

\* A production is permitted and possible at a cost.
Costs(src, a, may, work) ==
  /\ MayProcess(may, a)
  /\ \E i \in DOMAIN a.profile.targets :
       /\ Producible(src, a, a.profile.targets[i])
       /\ WorkOf(src, a, a.profile.targets[i]) = work

\* An answer costs nothing where the file is played, the least work where it is not but
\* something can be produced, and else the most.
LEMMA CostOfAnAnswer ==
  ASSUME NEW src, NEW a, WellFormed(a), a.profile # None, NEW may
  PROVE  LET cost == Cost(Decide(src, a, may))
         IN /\ Plays(src, a) => cost = 0
            /\ ~Plays(src, a) =>
                 \/ cost = 4 /\ \A w : ~Costs(src, a, may, w)
                 \/ \E w \in 0..2 : /\ cost = 1 + w /\ Costs(src, a, may, w)
                                    /\ \A v : Costs(src, a, may, v) => w <= v
<1> DEFINE cost == Cost(Decide(src, a, may))
           d == Decide(src, a, may)
           targets == a.profile.targets
           t == Target(src, a)
           chosen == IF MayProcess(may, a) THEN t ELSE 0
<1>1. d = Answer(src, a, DirectEntry(src, a), chosen)
  BY DEF Decide
<1>2. /\ t = 0 <=> \A i \in DOMAIN targets : ~Producible(src, a, targets[i])
      /\ t # 0 =>
           /\ t \in DOMAIN targets /\ Producible(src, a, targets[t])
           /\ \A i \in DOMAIN targets :
                Producible(src, a, targets[i]) =>
                  WorkOf(src, a, targets[t]) <= WorkOf(src, a, targets[i])
  BY TargetIsTheLeastWork
<1> HIDE DEF t
<1>3. CASE Plays(src, a)
  <2>1. d.outcome = "direct"
    BY <1>1, <1>3 DEF Plays, Answer, PlayedDirectly
  <2>2. cost = 0
    BY <2>1 DEF Cost
  <2> QED BY <1>3, <2>2
<1>4. CASE ~Plays(src, a) /\ chosen = 0
  <2>1. d.outcome = "none"
    BY <1>1, <1>4 DEF Plays, Answer, NotPlayed
  <2>2. cost = 4
    BY <2>1 DEF Cost
  <2>3. \A w : ~Costs(src, a, may, w)
    BY <1>2, <1>4 DEF Costs
  <2> QED BY <1>4, <2>2, <2>3
<1>5. CASE ~Plays(src, a) /\ chosen # 0
  <2> DEFINE w == WorkOf(src, a, targets[t])
             plans == Plans(src, a, targets[t])
  <2>1. MayProcess(may, a) /\ chosen = t /\ t # 0
    BY <1>5
  <2>2. d = Produced(src, a, targets[t], plans)
    BY <1>1, <1>5, <2>1 DEF Plays, Answer
  <2>3. d.outcome \in {"remux", "transcode"} /\ d.plans = plans
    BY <2>2 DEF Produced
  <2>4. cost = 1 + w
    BY <2>3 DEF Cost, WorkOf
  <2>5. w \in 0..2
    BY WorkIsSmall
  <2>6. Costs(src, a, may, w)
    BY <1>2, <2>1 DEF Costs
  <2>7. \A v : Costs(src, a, may, v) => w <= v
    BY <1>2, <2>1 DEF Costs
  <2> HIDE DEF w, cost
  <2> QED BY <1>5, <2>4, <2>5, <2>6, <2>7 DEF cost
<1> QED BY <1>3, <1>4, <1>5

\* An answer is no dearer than another if it is direct wherever the other is and produces,
\* for no more work, whatever the other could.
LEMMA NoDearer ==
  ASSUME NEW src, NEW a, WellFormed(a), a.profile # None, NEW may,
         NEW b, WellFormed(b), b.profile # None, NEW can,
         Plays(src, b) => Plays(src, a),
         \A v \in 0..2 :
           Costs(src, b, can, v) => \E w \in 0..2 : w <= v /\ Costs(src, a, may, w)
  PROVE  Cost(Decide(src, a, may)) <= Cost(Decide(src, b, can))
<1> DEFINE mine == Cost(Decide(src, a, may))
           other == Cost(Decide(src, b, can))
<1>1. /\ Plays(src, a) => mine = 0
      /\ ~Plays(src, a) =>
           \/ mine = 4 /\ \A w : ~Costs(src, a, may, w)
           \/ \E w \in 0..2 : /\ mine = 1 + w /\ Costs(src, a, may, w)
                              /\ \A v : Costs(src, a, may, v) => w <= v
  BY CostOfAnAnswer
<1>2. /\ Plays(src, b) => other = 0
      /\ ~Plays(src, b) =>
           \/ other = 4 /\ \A w : ~Costs(src, b, can, w)
           \/ \E w \in 0..2 : /\ other = 1 + w /\ Costs(src, b, can, w)
                              /\ \A v : Costs(src, b, can, v) => w <= v
  BY CostOfAnAnswer
<1> HIDE DEF mine, other
<1>3. ASSUME Plays(src, a) PROVE mine <= other
  <2>1. mine = 0
    BY <1>1, <1>3
  <2>2. other = 0 \/ other = 4 \/ \E w \in 0..2 : other = 1 + w
    BY <1>2
  <2> QED BY <2>1, <2>2
<1>4. ASSUME ~Plays(src, a) PROVE mine <= other
  <2>1. ~Plays(src, b)
    BY <1>4
  <2>2. mine = 4 \/ \E w \in 0..2 : mine = 1 + w
    BY <1>1, <1>4
  <2>3. CASE other = 4
    BY <2>2, <2>3
  <2>4. CASE other # 4
    <3>1. PICK v \in 0..2 : other = 1 + v /\ Costs(src, b, can, v)
      BY <1>2, <2>1, <2>4, Zenon
    <3>2. PICK w \in 0..2 : w <= v /\ Costs(src, a, may, w)
      BY <3>1
    <3>3. PICK u \in 0..2 : mine = 1 + u /\ u <= w
      <4>1. \/ mine = 4 /\ \A x : ~Costs(src, a, may, x)
            \/ \E x \in 0..2 : /\ mine = 1 + x /\ Costs(src, a, may, x)
                               /\ \A y : Costs(src, a, may, y) => x <= y
        BY <1>1, <1>4, Zenon
      <4> QED BY <3>2, <4>1, Zenon
    <3> QED BY <3>1, <3>2, <3>3
  <2> QED BY <2>3, <2>4
<1> QED BY <1>3, <1>4 DEF mine, other

\* One request offers what another does and excludes no more: the switches are the same, and
\* so are the tracks a client shows.
Offers(a, b) ==
  /\ WellFormed(a) /\ a.profile # None /\ WellFormed(b) /\ b.profile # None
  /\ a.video = b.video /\ a.direct = b.direct /\ a.copyVideo = b.copyVideo
  /\ a.copyAudio = b.copyAudio /\ a.cap = b.cap /\ a.audio = b.audio
  /\ a.subtitle = b.subtitle
  /\ a.profile.cap = b.profile.cap /\ a.profile.subtitles = b.profile.subtitles
  /\ a.profile.codecs \subseteq b.profile.codecs
  /\ \A i \in DOMAIN b.profile.direct : \E j \in DOMAIN a.profile.direct :
       a.profile.direct[j] = b.profile.direct[i]
  /\ \A i \in DOMAIN b.profile.targets : \E j \in DOMAIN a.profile.targets :
       a.profile.targets[j] = b.profile.targets[i]

\* How a track is shown is a matter of the entries for tracks.
MethodUnder(entries, track, transcoding, names, protocol) ==
  Method([subtitles |-> entries], track, transcoding, names, protocol)

\* And which tracks are selected, of two switches.
SelectedUnder(src, video, subtitle) ==
  SelectedTracks(src, [video |-> video, subtitle |-> subtitle])

\* So both requests select the same tracks and show them alike.
LEMMA TracksAreShownAlike ==
  ASSUME NEW src, NEW a, NEW b, Offers(a, b)
  PROVE  /\ SelectedTracks(src, a) = SelectedTracks(src, b)
         /\ \A track, names : Method(a.profile, track, FALSE, names, None)
                               = Method(b.profile, track, FALSE, names, None)
<1>1. \A x : SelectedTracks(src, x) = SelectedUnder(src, x.video, x.subtitle)
  BY DEF SelectedTracks, SelectedUnder
<1>2. \A x, track, names :
        Method(x.profile, track, FALSE, names, None)
          = MethodUnder(x.profile.subtitles, track, FALSE, names, None)
  BY DEF Method, MethodUnder
<1>3. /\ a.video = b.video /\ a.subtitle = b.subtitle
      /\ a.profile.subtitles = b.profile.subtitles
  BY DEF Offers
<1> QED BY <1>1, <1>2, <1>3

\* The streams, the cap and what can hold the streams are the same, and less fails.
LEMMA LessFails ==
  ASSUME NEW src, NEW a, NEW b, Offers(a, b)
  PROVE  /\ VideoOf(src, a) = VideoOf(src, b) /\ AudioOf(src, a) = AudioOf(src, b)
         /\ AudioKind(a) = AudioKind(b) /\ Cap(a) = Cap(b)
         /\ \A t : Producible(src, a, t) <=> Producible(src, b, t)
         /\ \A e : Opens(src, a, e) <=> Opens(src, b, e)
         /\ \A kind, codec, names, values :
              Failures(a.profile, kind, codec, names, values)
                \subseteq Failures(b.profile, kind, codec, names, values)
<1>1. /\ a.video = b.video /\ a.audio = b.audio /\ a.cap = b.cap
      /\ a.profile.cap = b.profile.cap /\ a.profile.codecs \subseteq b.profile.codecs
  BY DEF Offers
<1>2. /\ VideoOf(src, a) = VideoOf(src, b) /\ AudioOf(src, a) = AudioOf(src, b)
      /\ AudioKind(a) = AudioKind(b) /\ Cap(a) = Cap(b)
  BY <1>1 DEF VideoOf, AudioOf, AudioKind, Cap
<1>3. \A t : Producible(src, a, t) <=> Producible(src, b, t)
  BY <1>1, <1>2 DEF Producible
<1>4. \A e : Opens(src, a, e) <=> Opens(src, b, e)
  BY <1>1, <1>2 DEF Opens
<1>5. ASSUME NEW kind, NEW codec, NEW names, NEW values
      PROVE  Failures(a.profile, kind, codec, names, values)
               \subseteq Failures(b.profile, kind, codec, names, values)
  <2>1. About(a.profile, kind, codec, names) \subseteq About(b.profile, kind, codec, names)
    BY <1>1 DEF About
  <2> QED BY <2>1 DEF Failures
<1> QED BY <1>2, <1>3, <1>4, <1>5

\* What is played under the one is played under the other.
LEMMA WhatPlaysStillPlays ==
  ASSUME NEW src, NEW a, NEW b, Offers(a, b), Plays(src, b)
  PROVE  Plays(src, a)
<1>1. /\ a.profile.direct \in Seq(DirectPlayProfile)
      /\ b.profile.direct \in Seq(DirectPlayProfile)
  BY RequestHasParts DEF Offers
<1>2. ~Refused(src, b) /\ \E i \in DOMAIN b.profile.direct : Opens(src, b, b.profile.direct[i])
  BY <1>1, DirectEntryOpens DEF Plays
<1>3. \E j \in DOMAIN a.profile.direct : Opens(src, a, a.profile.direct[j])
  BY <1>2, LessFails DEF Offers
<1>4. ~Refused(src, a)
  <2> DEFINE names == ToSet(src.container)
  <2>1. Broken(src, a, names) \subseteq Broken(src, b, names)
    <3>1. /\ VideoOf(src, a) = VideoOf(src, b) /\ AudioOf(src, a) = AudioOf(src, b)
          /\ AudioKind(a) = AudioKind(b)
          /\ \A kind, codec, values :
               Failures(a.profile, kind, codec, names, values)
                 \subseteq Failures(b.profile, kind, codec, names, values)
      BY LessFails
    <3> HIDE DEF names
    <3> QED BY <3>1 DEF Broken
  <2>2. Cap(a) = Cap(b)
    BY LessFails
  <2>3. /\ SelectedTracks(src, a) = SelectedTracks(src, b)
        /\ \A track : Method(a.profile, track, FALSE, names, None)
                        = Method(b.profile, track, FALSE, names, None)
    BY TracksAreShownAlike
  <2>4. /\ \A t \in ToSet(SelectedTracks(src, b)) :
             Method(b.profile, t, FALSE, names, None) \in {"External", "Embed"}
        /\ Broken(src, b, names) = {} /\ WithinCap(src, Cap(b))
    BY <1>2 DEF Refused
  <2>5. /\ \A t \in ToSet(SelectedTracks(src, a)) :
             Method(a.profile, t, FALSE, names, None) \in {"External", "Embed"}
        /\ Broken(src, a, names) = {} /\ WithinCap(src, Cap(a))
    <3> HIDE DEF names
    <3> QED BY <2>1, <2>2, <2>3, <2>4
  <2> QED BY <2>5 DEF Refused
<1>5. a.direct
  BY DEF Plays, Offers
<1> QED BY <1>1, <1>3, <1>4, <1>5, DirectEntryOpens DEF Plays

\* What is copied under the one is copied under the other.
LEMMA FewerAreEncoded ==
  ASSUME NEW src, Inspected(src), NEW a, NEW b, Offers(a, b),
         NEW target \in TranscodingProfile, Producible(src, b, target)
  PROVE  WorkOf(src, a, target) <= WorkOf(src, b, target)
<1>1. /\ WellFormed(a) /\ a.profile # None /\ WellFormed(b) /\ b.profile # None
      /\ a.copyVideo = b.copyVideo /\ a.copyAudio = b.copyAudio
  BY DEF Offers
<1>2. /\ VideoOf(src, a) = VideoOf(src, b) /\ AudioOf(src, a) = AudioOf(src, b)
      /\ AudioKind(a) = AudioKind(b) /\ Cap(a) = Cap(b) /\ Producible(src, a, target)
      /\ \A kind, codec, names, values :
           Failures(a.profile, kind, codec, names, values)
             \subseteq Failures(b.profile, kind, codec, names, values)
  BY LessFails
<1> DEFINE mine == Plans(src, a, target)
           other == Plans(src, b, target)
<1>3. /\ DOMAIN mine = {"video", "audio"}
      /\ mine.video = None <=> VideoOf(src, a) = None
      /\ mine.video # None => mine.video = PlanVideo(src, a, target)
      /\ mine.audio = None <=> AudioOf(src, a) = None
      /\ mine.audio # None => mine.audio = PlanAudio(src, a, AudioOf(src, a), target)
  BY <1>1, <1>2, PlansAreTyped
<1>4. /\ DOMAIN other = {"video", "audio"}
      /\ other.video = None <=> VideoOf(src, b) = None
      /\ other.video # None => other.video = PlanVideo(src, b, target)
      /\ other.audio = None <=> AudioOf(src, b) = None
      /\ other.audio # None => other.audio = PlanAudio(src, b, AudioOf(src, b), target)
  BY <1>1, PlansAreTyped
<1>5. ASSUME mine.video # None, mine.video.does = "encode"
      PROVE  other.video # None /\ other.video.does = "encode"
  <2> DEFINE m == PlanVideo(src, a, target)
             o == PlanVideo(src, b, target)
             failures(x) == Failures(x.profile, "Video", src.video.codec, {target.container},
                                     Values(src, src.video))
  <2>1. VideoOf(src, a) # None /\ VideoOf(src, b) # None
    BY <1>2, <1>3, <1>5
  <2>2. m.does = "copy" <=>
          /\ a.copyVideo /\ src.video.codec \in ToSet(target.videoCodecs)
          /\ failures(a) = {} /\ WithinCap(src, Cap(a))
    BY <1>1, <1>2, <2>1, VideoPlan
  <2>3. /\ o \in StreamPlan(VideoProperties)
        /\ o.does = "copy" <=>
             /\ b.copyVideo /\ src.video.codec \in ToSet(target.videoCodecs)
             /\ failures(b) = {} /\ WithinCap(src, Cap(b))
    BY <1>1, <2>1, VideoPlan
  <2>4. failures(a) \subseteq failures(b)
    BY <1>2
  <2>5. o.does \in {"copy", "encode"}
    BY <2>3 DEF StreamPlan
  <2>6. m.does = "encode" /\ other.video # None /\ other.video = o
    BY <1>3, <1>4, <1>5, <2>1
  <2> HIDE DEF m, o, failures
  <2>7. o.does # "copy"
    BY <1>1, <1>2, <2>2, <2>3, <2>4, <2>6
  <2> QED BY <2>5, <2>6, <2>7
<1>6. ASSUME mine.audio # None, mine.audio.does = "encode"
      PROVE  other.audio # None /\ other.audio.does = "encode"
  <2> DEFINE stream == AudioOf(src, b)
             m == PlanAudio(src, a, AudioOf(src, a), target)
             o == PlanAudio(src, b, stream, target)
             failures(x) == Failures(x.profile, AudioKind(b), stream.codec, {target.container},
                                     Values(src, stream))
  <2>1. AudioOf(src, a) # None /\ stream # None
    BY <1>2, <1>3, <1>6
  <2>2. m.does = "copy" <=>
          /\ a.copyAudio /\ AudioOf(src, a).codec \in ToSet(target.audioCodecs)
          /\ Failures(a.profile, AudioKind(a), AudioOf(src, a).codec, {target.container},
                      Values(src, AudioOf(src, a))) = {}
    BY <1>1, <1>2, <2>1, AudioPlan
  <2>3. m.does = "copy" <=>
          a.copyAudio /\ stream.codec \in ToSet(target.audioCodecs) /\ failures(a) = {}
    BY <1>2, <2>2
  <2>4. /\ o \in StreamPlan(AudioProperties)
        /\ o.does = "copy" <=>
             b.copyAudio /\ stream.codec \in ToSet(target.audioCodecs) /\ failures(b) = {}
    BY <1>1, <2>1, AudioPlan
  <2>5. failures(a) \subseteq failures(b)
    BY <1>2
  <2>6. o.does \in {"copy", "encode"}
    BY <2>4 DEF StreamPlan
  <2>7. m.does = "encode" /\ other.audio # None /\ other.audio = o
    BY <1>3, <1>4, <1>6, <2>1
  <2> HIDE DEF m, o, failures
  <2>8. o.does # "copy"
    BY <1>1, <1>2, <2>3, <2>4, <2>5, <2>7
  <2> QED BY <2>6, <2>7, <2>8
<1> HIDE DEF mine, other
<1>7. Encoded(mine) \subseteq Encoded(other)
  BY <1>3, <1>4, <1>5, <1>6 DEF Encoded
<1> QED BY <1>7, FewerEncodesAreLessWork DEF mine, other

\* What is left of a list was in it.
LEMMA WhatIsLeftWasThere ==
  ASSUME NEW S, NEW s \in Seq(S), NEW i \in DOMAIN s
  PROVE  /\ RemoveAt(s, i) \in Seq(S)
         /\ \A k \in DOMAIN RemoveAt(s, i) : \E j \in DOMAIN s : s[j] = RemoveAt(s, i)[k]
<1> DEFINE left == SubSeq(s, 1, i - 1)
           right == SubSeq(s, i + 1, Len(s))
           n == Len(s)
<1>1. n \in Nat /\ DOMAIN s = 1..n /\ i \in 1..n /\ \A k \in 1..n : s[k] \in S
  OBVIOUS
<1>2. RemoveAt(s, i) = left \o right
  BY DEF RemoveAt
<1>3. /\ left \in Seq(S) /\ Len(left) = i - 1
      /\ \A k \in 1..(i - 1) : left[k] = s[k]
  <2>1. 1 \in Int /\ i - 1 \in Int /\ \A k \in 1..(i - 1) : s[k] \in S
    BY <1>1
  <2>2. /\ left \in Seq(S) /\ Len(left) = IF 1 <= i - 1 THEN i - 1 - 1 + 1 ELSE 0
        /\ \A k \in 1..(i - 1 - 1 + 1) : left[k] = s[1 + k - 1]
    BY <2>1, SubSeqProperties
  <2> HIDE DEF left, n
  <2>3. Len(left) = i - 1
    BY <1>1, <2>2
  <2>4. \A k \in 1..(i - 1) : left[k] = s[k]
    BY <1>1, <2>2
  <2> QED BY <2>2, <2>3, <2>4
<1>4. /\ right \in Seq(S) /\ Len(right) = n - i
      /\ \A k \in 1..(n - i) : right[k] = s[i + k]
  <2>1. i + 1 \in Int /\ n \in Int /\ \A k \in (i + 1)..n : s[k] \in S
    BY <1>1
  <2>2. /\ right \in Seq(S) /\ Len(right) = IF i + 1 <= n THEN n - (i + 1) + 1 ELSE 0
        /\ \A k \in 1..(n - (i + 1) + 1) : right[k] = s[i + 1 + k - 1]
    BY <2>1, SubSeqProperties
  <2> HIDE DEF right, n
  <2>3. Len(right) = n - i
    BY <1>1, <2>2
  <2>4. ASSUME NEW k \in 1..(n - i) PROVE right[k] = s[i + k]
    <3>1. i + 1 + k - 1 = i + k /\ k \in 1..(n - (i + 1) + 1)
      BY <1>1
    <3> QED BY <2>2, <3>1
  <2> QED BY <2>2, <2>3, <2>4
<1> HIDE DEF left, right, n
<1>5. /\ left \o right \in Seq(S) /\ Len(left \o right) = Len(left) + Len(right)
      /\ \A k \in 1..(Len(left) + Len(right)) :
           (left \o right)[k] = IF k <= Len(left) THEN left[k] ELSE right[k - Len(left)]
  BY <1>3, <1>4, ConcatProperties
<1> DEFINE rest == left \o right
<1> HIDE DEF rest
<1>6. rest \in Seq(S) /\ DOMAIN rest = 1..(n - 1)
  BY <1>1, <1>3, <1>4, <1>5 DEF rest
<1>7. ASSUME NEW k \in DOMAIN rest PROVE \E j \in DOMAIN s : s[j] = rest[k]
  <2>1. k \in Int /\ 1 <= k /\ k <= n - 1
    BY <1>1, <1>6
  <2>2. rest[k] = IF k <= i - 1 THEN left[k] ELSE right[k - (i - 1)]
    BY <1>1, <1>3, <1>4, <1>5, <2>1 DEF rest
  <2>3. CASE k <= i - 1
    <3>1. rest[k] = s[k] /\ k \in DOMAIN s
      BY <1>1, <1>3, <2>1, <2>2, <2>3
    <3> QED BY <3>1
  <2>4. CASE ~(k <= i - 1)
    <3>1. k - (i - 1) \in 1..(n - i)
      BY <1>1, <2>1, <2>4
    <3>2. rest[k] = s[i + (k - (i - 1))]
      BY <1>4, <2>2, <2>4, <3>1
    <3>3. i + (k - (i - 1)) \in DOMAIN s
      BY <1>1, <3>1
    <3> QED BY <3>2, <3>3
  <2> QED BY <2>3, <2>4
<1> QED BY <1>2, <1>6, <1>7 DEF rest

\* A request that offers as much by who may do as much is answered no dearer.
LEMMA WhoOffersMoreIsAnsweredBetter ==
  ASSUME NEW src, Inspected(src), NEW a, NEW b, Offers(a, b), NEW may, NEW can,
         MayProcess(can, b) => MayProcess(may, a)
  PROVE  Cost(Decide(src, a, may)) <= Cost(Decide(src, b, can))
<1>1. WellFormed(a) /\ a.profile # None /\ WellFormed(b) /\ b.profile # None
  BY DEF Offers
<1>2. Plays(src, b) => Plays(src, a)
  BY WhatPlaysStillPlays
<1>3. ASSUME NEW v \in 0..2, Costs(src, b, can, v)
      PROVE  \E w \in 0..2 : w <= v /\ Costs(src, a, may, w)
  <2>1. PICK i \in DOMAIN b.profile.targets :
          /\ Producible(src, b, b.profile.targets[i])
          /\ WorkOf(src, b, b.profile.targets[i]) = v
    BY <1>3 DEF Costs
  <2>2. PICK j \in DOMAIN a.profile.targets : a.profile.targets[j] = b.profile.targets[i]
    BY DEF Offers
  <2> DEFINE target == b.profile.targets[i]
             w == WorkOf(src, a, target)
  <2>3. target \in TranscodingProfile
    <3>1. b.profile.targets \in Seq(TranscodingProfile)
      BY <1>1, RequestHasParts
    <3> QED BY <3>1
  <2>4. Producible(src, b, target) /\ Producible(src, a, target)
    BY <2>1, LessFails
  <2> HIDE DEF target
  <2>5. w <= v
    BY <2>1, <2>3, <2>4, FewerAreEncoded DEF target
  <2>6. w \in 0..2
    BY WorkIsSmall
  <2>7. Costs(src, a, may, w)
    BY <1>3, <2>2, <2>4 DEF Costs, target
  <2> HIDE DEF w
  <2> QED BY <2>5, <2>6, <2>7
<1> QED BY <1>1, <1>2, <1>3, NoDearer

\* A request with another profile.
LEMMA WithProfile ==
  ASSUME NEW a, WellFormed(a), NEW profile \in DeviceProfile, IsFiniteSet(profile.codecs),
         \A e \in profile.codecs : IsFiniteSet(e.conditions)
  PROVE  LET b == [a EXCEPT !.profile = profile]
         IN /\ WellFormed(b) /\ b.profile = profile /\ b.profile # None
            /\ a.video = b.video /\ a.direct = b.direct /\ a.copyVideo = b.copyVideo
            /\ a.copyAudio = b.copyAudio /\ a.cap = b.cap /\ a.audio = b.audio
            /\ a.subtitle = b.subtitle
<1> DEFINE b == [a EXCEPT !.profile = profile]
<1>1. a \in Request
  BY DEF WellFormed
<1>2. /\ b \in Request /\ b.profile = profile
      /\ a.video = b.video /\ a.direct = b.direct /\ a.copyVideo = b.copyVideo
      /\ a.copyAudio = b.copyAudio /\ a.cap = b.cap /\ a.audio = b.audio
      /\ a.subtitle = b.subtitle
  BY <1>1 DEF Request
<1> HIDE DEF b
<1>3. b.profile # None /\ WellFormed(b)
  BY <1>2, NoneAssumption DEF WellFormed
<1> QED BY <1>2, <1>3 DEF b

\* Who is left a target or an entry for direct play less is offered no more.
LEMMA LessIsOffered ==
  ASSUME NEW a, WellFormed(a), a.profile # None
  PROVE  /\ \A i \in DOMAIN a.profile.targets :
              Offers(a, [a EXCEPT !.profile =
                           [a.profile EXCEPT !.targets = RemoveAt(@, i)]])
         /\ \A i \in DOMAIN a.profile.direct :
              Offers(a, [a EXCEPT !.profile =
                           [a.profile EXCEPT !.direct = RemoveAt(@, i)]])
<1>1. /\ a.profile \in DeviceProfile /\ Finite(a.profile)
      /\ a.profile.targets \in Seq(TranscodingProfile)
      /\ a.profile.direct \in Seq(DirectPlayProfile)
  BY RequestHasParts
<1>2. ASSUME NEW i \in DOMAIN a.profile.targets
      PROVE  Offers(a, [a EXCEPT !.profile = [a.profile EXCEPT !.targets = RemoveAt(@, i)]])
  <2> DEFINE rest == RemoveAt(a.profile.targets, i)
             profile == [a.profile EXCEPT !.targets = rest]
             b == [a EXCEPT !.profile = profile]
  <2>1. /\ rest \in Seq(TranscodingProfile)
        /\ \A k \in DOMAIN rest : \E j \in DOMAIN a.profile.targets :
             a.profile.targets[j] = rest[k]
    BY <1>1, WhatIsLeftWasThere
  <2> HIDE DEF rest
  <2>2. /\ profile \in DeviceProfile /\ profile.targets = rest
        /\ profile.codecs = a.profile.codecs /\ profile.direct = a.profile.direct
        /\ profile.cap = a.profile.cap /\ profile.subtitles = a.profile.subtitles
    BY <1>1, <2>1 DEF DeviceProfile
  <2> HIDE DEF profile
  <2>3. /\ WellFormed(b) /\ b.profile = profile /\ b.profile # None
        /\ a.video = b.video /\ a.direct = b.direct /\ a.copyVideo = b.copyVideo
        /\ a.copyAudio = b.copyAudio /\ a.cap = b.cap /\ a.audio = b.audio
        /\ a.subtitle = b.subtitle
    BY <1>1, <2>2, WithProfile DEF Finite
  <2> HIDE DEF b
  <2>4. Offers(a, b)
    BY <2>1, <2>2, <2>3 DEF Offers
  <2> QED BY <2>4 DEF b, profile, rest
<1>3. ASSUME NEW i \in DOMAIN a.profile.direct
      PROVE  Offers(a, [a EXCEPT !.profile = [a.profile EXCEPT !.direct = RemoveAt(@, i)]])
  <2> DEFINE rest == RemoveAt(a.profile.direct, i)
             profile == [a.profile EXCEPT !.direct = rest]
             b == [a EXCEPT !.profile = profile]
  <2>1. /\ rest \in Seq(DirectPlayProfile)
        /\ \A k \in DOMAIN rest : \E j \in DOMAIN a.profile.direct :
             a.profile.direct[j] = rest[k]
    BY <1>1, WhatIsLeftWasThere
  <2> HIDE DEF rest
  <2>2. /\ profile \in DeviceProfile /\ profile.direct = rest
        /\ profile.codecs = a.profile.codecs /\ profile.targets = a.profile.targets
        /\ profile.cap = a.profile.cap /\ profile.subtitles = a.profile.subtitles
    BY <1>1, <2>1 DEF DeviceProfile
  <2> HIDE DEF profile
  <2>3. /\ WellFormed(b) /\ b.profile = profile /\ b.profile # None
        /\ a.video = b.video /\ a.direct = b.direct /\ a.copyVideo = b.copyVideo
        /\ a.copyAudio = b.copyAudio /\ a.cap = b.cap /\ a.audio = b.audio
        /\ a.subtitle = b.subtitle
    BY <1>1, <2>2, WithProfile DEF Finite
  <2> HIDE DEF b
  <2>4. Offers(a, b)
    BY <2>1, <2>2, <2>3 DEF Offers
  <2> QED BY <2>4 DEF b, profile, rest
<1> QED BY <1>2, <1>3

\* Who says less of what cannot be taken offers more.
LEMMA MoreIsOffered ==
  ASSUME NEW a, WellFormed(a), a.profile # None, NEW e \in a.profile.codecs
  PROVE  Offers([a EXCEPT !.profile = [a.profile EXCEPT !.codecs = @ \ {e}]], a)
<1> DEFINE rest == a.profile.codecs \ {e}
           profile == [a.profile EXCEPT !.codecs = rest]
           b == [a EXCEPT !.profile = profile]
<1>1. /\ a.profile \in DeviceProfile /\ Finite(a.profile)
      /\ a.profile.codecs \subseteq CodecProfile
  BY RequestHasParts
<1>2. IsFiniteSet(rest) /\ rest \subseteq a.profile.codecs
  <2>1. IsFiniteSet(a.profile.codecs) /\ rest \in SUBSET a.profile.codecs
    BY <1>1 DEF Finite
  <2> HIDE DEF rest
  <2> QED BY <2>1, FS_Subset
<1> HIDE DEF rest
<1>3. /\ profile \in DeviceProfile /\ profile.codecs = rest
      /\ profile.direct = a.profile.direct /\ profile.targets = a.profile.targets
      /\ profile.cap = a.profile.cap /\ profile.subtitles = a.profile.subtitles
  BY <1>1, <1>2 DEF DeviceProfile
<1> HIDE DEF profile
<1>4. \A f \in rest : IsFiniteSet(f.conditions)
  BY <1>1, <1>2 DEF Finite
<1>5. /\ WellFormed(b) /\ b.profile = profile /\ b.profile # None
      /\ a.video = b.video /\ a.direct = b.direct /\ a.copyVideo = b.copyVideo
      /\ a.copyAudio = b.copyAudio /\ a.cap = b.cap /\ a.audio = b.audio
      /\ a.subtitle = b.subtitle
  BY <1>2, <1>3, <1>4, WithProfile
<1> HIDE DEF b
<1>6. Offers(b, a)
  BY <1>2, <1>3, <1>5 DEF Offers
<1> QED BY <1>6 DEF b, profile, rest

\* In a settled state nobody would have gained by saying less.
LEMMA MoreIsNoWorse ==
  ASSUME Settled PROVE MoreIsNeverWorse
<1> SUFFICES ASSUME at = "negotiated", ask.profile # None, source = seen.source
             PROVE  LET profile == ask.profile
                        CostWith(changed, may) ==
                          Cost(Decide(source, [ask EXCEPT !.profile = changed], may))
                        less == {[profile EXCEPT !.targets = RemoveAt(@, i)] :
                                   i \in DOMAIN profile.targets}
                                \cup {[profile EXCEPT !.direct = RemoveAt(@, i)] :
                                        i \in DOMAIN profile.direct}
                        more == {[profile EXCEPT !.codecs = @ \ {e}] : e \in profile.codecs}
                    IN /\ \A changed \in less : CostWith(changed, seen.policy) >= Cost(decision)
                       /\ \A changed \in more : CostWith(changed, seen.policy) <= Cost(decision)
                       /\ CostWith(profile, {"video", "audio", "remux"}) <= Cost(decision)
  BY DEF MoreIsNeverWorse
<1> DEFINE profile == ask.profile
           With(changed) == [ask EXCEPT !.profile = changed]
           all == {"video", "audio", "remux"}
<1>1. /\ Inspected(source) /\ WellFormed(ask) /\ seen \in Seen
      /\ decision = Decide(source, ask, seen.policy)
  BY DEF Settled
<1>2. ASSUME NEW i \in DOMAIN profile.targets
      PROVE  Cost(decision)
               <= Cost(Decide(source, With([profile EXCEPT !.targets = RemoveAt(@, i)]),
                              seen.policy))
  <2> DEFINE b == With([profile EXCEPT !.targets = RemoveAt(@, i)])
  <2>1. Offers(ask, b)
    BY <1>1, LessIsOffered
  <2> HIDE DEF b
  <2>2. MayProcess(seen.policy, b) => MayProcess(seen.policy, ask)
    BY <2>1 DEF MayProcess, Offers
  <2>3. Cost(Decide(source, ask, seen.policy)) <= Cost(Decide(source, b, seen.policy))
    BY <1>1, <2>1, <2>2, WhoOffersMoreIsAnsweredBetter
  <2> QED BY <1>1, <2>3 DEF b
<1>3. ASSUME NEW i \in DOMAIN profile.direct
      PROVE  Cost(decision)
               <= Cost(Decide(source, With([profile EXCEPT !.direct = RemoveAt(@, i)]),
                              seen.policy))
  <2> DEFINE b == With([profile EXCEPT !.direct = RemoveAt(@, i)])
  <2>1. Offers(ask, b)
    BY <1>1, LessIsOffered
  <2> HIDE DEF b
  <2>2. MayProcess(seen.policy, b) => MayProcess(seen.policy, ask)
    BY <2>1 DEF MayProcess, Offers
  <2>3. Cost(Decide(source, ask, seen.policy)) <= Cost(Decide(source, b, seen.policy))
    BY <1>1, <2>1, <2>2, WhoOffersMoreIsAnsweredBetter
  <2> QED BY <1>1, <2>3 DEF b
<1>4. ASSUME NEW e \in profile.codecs
      PROVE  Cost(Decide(source, With([profile EXCEPT !.codecs = @ \ {e}]), seen.policy))
               <= Cost(decision)
  <2> DEFINE b == With([profile EXCEPT !.codecs = @ \ {e}])
  <2>1. Offers(b, ask)
    BY <1>1, MoreIsOffered
  <2> HIDE DEF b
  <2>2. MayProcess(seen.policy, ask) => MayProcess(seen.policy, b)
    BY <2>1 DEF MayProcess, Offers
  <2>3. Cost(Decide(source, b, seen.policy)) <= Cost(Decide(source, ask, seen.policy))
    BY <1>1, <2>1, <2>2, WhoOffersMoreIsAnsweredBetter
  <2> QED BY <1>1, <2>3 DEF b
<1>5. Cost(Decide(source, With(profile), all)) <= Cost(decision)
  <2>1. With(profile) = ask
    BY <1>1 DEF WellFormed, Request
  <2>2. Offers(ask, ask)
    BY <1>1 DEF Offers
  <2>3. MayProcess(seen.policy, ask) => MayProcess(all, ask)
    BY DEF MayProcess
  <2> HIDE DEF all
  <2>4. Cost(Decide(source, ask, all)) <= Cost(Decide(source, ask, seen.policy))
    BY <1>1, <2>2, <2>3, WhoOffersMoreIsAnsweredBetter
  <2> HIDE DEF With
  <2> QED BY <1>1, <2>1, <2>4
<1> QED BY <1>2, <1>3, <1>4, <1>5

\* A profile that says less of what the client can take, or more of what it cannot, is never
\* answered better, nor is an account that may do less (`_choose_target`).
THEOREM NobodyGainsByLess == Spec => []MoreIsNeverWorse
<1>1. Settled => MoreIsNeverWorse
  BY MoreIsNoWorse
<1> QED BY <1>1, NegotiationIsSettled, PTL

----------------------------------------------------------------------------
(* The promise beside a direct play.                                       *)
\* Asking without direct play changes neither what can be held nor what is permitted.
LEMMA SwitchDecidesNothing ==
  ASSUME NEW src, NEW a, WellFormed(a), a.profile # None, NEW may, NEW b,
         b = [a EXCEPT !.direct = FALSE]
  PROVE  /\ WellFormed(b) /\ b.profile = a.profile /\ b.direct = FALSE
         /\ MayProcess(may, b) <=> MayProcess(may, a)
         /\ Target(src, b) # 0 <=> Target(src, a) # 0
<1>1. /\ DOMAIN b = DOMAIN a /\ b.direct = FALSE
      /\ b.video = a.video /\ b.profile = a.profile /\ b.audio = a.audio
  BY DEF WellFormed, Request
<1>2. WellFormed(b)
  BY DEF WellFormed, Request
<1>3. MayProcess(may, b) <=> MayProcess(may, a)
  BY <1>1 DEF MayProcess
<1>4. VideoOf(src, b) = VideoOf(src, a) /\ AudioOf(src, b) = AudioOf(src, a)
  BY <1>1 DEF VideoOf, AudioOf
<1>5. \A t : Producible(src, b, t) <=> Producible(src, a, t)
  BY <1>1, <1>4 DEF Producible
<1>6. Target(src, b) # 0 <=> Target(src, a) # 0
  BY <1>1, <1>2, <1>5, TargetIsTheLeastWork
<1> QED
  BY <1>1, <1>2, <1>3, <1>6

\* What a direct play claims, and what an answer without it is.
LEMMA ClaimOfADirectPlay ==
  ASSUME NEW src, NEW a, a.profile # None, NEW may,
         Decide(src, a, may).outcome = "direct"
  PROVE  Decide(src, a, may).transcodes <=> (MayProcess(may, a) /\ Target(src, a) # 0)
BY DEF Decide, Answer, PlayedDirectly, NotPlayed, Produced

\* Without direct play the answer is an address exactly if one can be given.
LEMMA AnswerWithoutDirectPlay ==
  ASSUME NEW src, NEW a, a.profile # None, NEW may, a.direct = FALSE
  PROVE  Decide(src, a, may).outcome \in {"remux", "transcode"}
           <=> (MayProcess(may, a) /\ Target(src, a) # 0)
BY DEF Decide, Answer, PlayedDirectly, NotPlayed, Produced

\* The step that asks again keeps the promise.
LEMMA AskingAgainIsAnswered ==
  ASSUME Settled, AskAgain, ask' # ask, ask.profile # None, seen' = seen
  PROVE  decision.transcodes <=> decision'.outcome \in {"remux", "transcode"}
<1> DEFINE b == [ask EXCEPT !.direct = FALSE]
<1>1. at = "negotiated" /\ decision.outcome = "direct" /\ WellFormed(ask)
  BY DEF AskAgain, Settled
<1>2. decision' = Decide(source, b, policy) /\ seen' = [source |-> source, policy |-> policy]
  BY DEF AskAgain, Negotiate, Answered, vars
<1>3. decision = Decide(source, ask, policy)
  BY <1>1, <1>2 DEF Settled
<1>4. /\ b.profile = ask.profile /\ b.direct = FALSE
      /\ MayProcess(policy, b) <=> MayProcess(policy, ask)
      /\ Target(source, b) # 0 <=> Target(source, ask) # 0
  BY <1>1, SwitchDecidesNothing
<1>5. decision.transcodes <=> (MayProcess(policy, ask) /\ Target(source, ask) # 0)
  BY <1>1, <1>3, ClaimOfADirectPlay
<1>6. decision'.outcome \in {"remux", "transcode"}
        <=> (MayProcess(policy, b) /\ Target(source, b) # 0)
  <2> HIDE DEF b
  <2> QED BY <1>2, <1>4, AnswerWithoutDirectPlay
<1> QED
  BY <1>4, <1>5, <1>6

\* Who is told that a file could also be transcoded, and asks again without direct play, is
\* given an address; who is told that it could not is given none (`_can_produce`).
THEOREM ThePromiseIsKept == Spec => TranscodingClaimHolds
<1> DEFINE Kept == at = "negotiated" /\ ask' # ask /\ ask.profile # None /\ seen' = seen =>
                     (decision.transcodes <=> decision'.outcome \in {"remux", "transcode"})
<1>1. Settled /\ [Next]_vars => [Kept]_vars
  <2> SUFFICES ASSUME Settled, [Next]_vars, at = "negotiated", ask' # ask,
                      ask.profile # None, seen' = seen
               PROVE  decision.transcodes <=> decision'.outcome \in {"remux", "transcode"}
    BY DEF vars
  <2>1. AskAgain
    BY DEF Next, Ask, Negotiate, Answered, Follow, Rescan, ChangePolicy, Changes, vars
  <2> QED
    BY <2>1, AskingAgainIsAnswered
<1> QED
  BY <1>1, NegotiationIsSettled, PTL DEF Spec, TranscodingClaimHolds
=============================================================================
