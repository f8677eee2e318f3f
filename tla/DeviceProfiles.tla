--------------------------- MODULE DeviceProfiles ---------------------------
(***************************************************************************)
(* What a client says about itself and how its words are read: lists of    *)
(* names, conditions on what a stream measures, limits on what is made     *)
(* for it (src/atrium/media/decision.py).                                  *)
(*                                                                         *)
(* A profile is a record of sequences, since the client's order breaks     *)
(* ties, but for `codecs`, whose order says nothing.  A stream has values  *)
(* by property; None is a value nobody knows or a limit nobody states.     *)
(***************************************************************************)
EXTENDS Integers, FiniteSets, SequencesExt

CONSTANT None

----------------------------------------------------------------------------
(* What a client says (`DeviceProfile`).                                   *)

Value == Int \cup {None}

List == [but: BOOLEAN, names: Seq(STRING)]

Numbers == {"Height", "VideoBitDepth", "VideoBitrate", "VideoFramerate", "VideoLevel",
            "AudioChannels", "AudioBitrate", "AudioSampleRate"}

\* `_REASON_FOR` has no reason for these, so that nothing fails for them.
Silent == {"IsAvc"}

ConditionProperty == Numbers \cup Silent

Condition ==
  [property: ConditionProperty, is: {"any"}, value: SUBSET Int, required: BOOLEAN]
  \cup [property: ConditionProperty, is: {"equals", "differs", "atMost", "atLeast"},
        value: Int, required: BOOLEAN]

CodecProfile ==
  [kind: {"Video", "VideoAudio", "Audio"}, codec: List, container: List,
   when: SUBSET Condition, conditions: SUBSET Condition]

DirectPlayProfile ==
  [video: BOOLEAN, container: List, videoCodec: List, audioCodec: List]

TranscodingProfile ==
  [video: BOOLEAN, container: STRING, protocol: STRING, videoCodecs: Seq(STRING),
   audioCodecs: Seq(STRING)]

SubtitleMethod == {"Encode", "Embed", "External", "Hls", "Drop"}

SubtitleProfile == [format: STRING, method: SubtitleMethod, container: List]

DeviceProfile ==
  [direct: Seq(DirectPlayProfile), targets: Seq(TranscodingProfile),
   codecs: SUBSET CodecProfile, subtitles: Seq(SubtitleProfile), cap: Value]

----------------------------------------------------------------------------
(* Lists.                                                                  *)

\* The names a client lists, or with `but` all others; none at all admits anything.
\* What is tested may have several names, as a container has (`_csv_contains`).
Anything == [but |-> FALSE, names |-> <<>>]

Admits(list, names) ==
  IF names = {} THEN list.but
  ELSE list.names = <<>> \/ (ToSet(list.names) \cap names # {}) # list.but

\* A value that is not known or zero gives way, as under `or`.
Or(a, b) == IF a \in {None, 0} THEN b ELSE a

----------------------------------------------------------------------------
(* Conditions.                                                             *)

\* `_satisfied`: comparisons that order are for numbers only.
Holds(condition, value) ==
  IF value = None THEN ~condition.required
  ELSE \/ condition.is = "any" /\ value \in condition.value
       \/ condition.is = "equals" /\ value = condition.value
       \/ condition.is = "differs" /\ value # condition.value
       \/ /\ condition.property \in Numbers
          /\ \/ condition.is = "atMost" /\ value <= condition.value
             \/ condition.is = "atLeast" /\ value >= condition.value

Measured(values, property) == IF property \in DOMAIN values THEN values[property] ELSE None

AllHold(conditions, values) ==
  \A c \in conditions : Holds(c, Measured(values, c.property))

\* `_applies`: the entries about a codec in a container.
About(profile, kind, codec, names) ==
  {e \in profile.codecs :
     /\ e.kind = kind
     /\ Admits(e.container, names)
     /\ Admits(e.codec, {codec} \ {None})}

\* `_failures`: the conditions a stream would break, of the entries that are for it.
Failures(profile, kind, codec, names, values) ==
  {c \in UNION {e.conditions : e \in {e \in About(profile, kind, codec, names) :
                                        AllHold(e.when, values)}} :
     c.property \notin Silent /\ ~Holds(c, Measured(values, c.property))}

----------------------------------------------------------------------------
(* Limits.                                                                 *)

\* `ceiling`: the tightest upper limit, whatever the entry depends on.
Ceiling(profile, kind, codec, names, property) ==
  LET limits == {c.value : c \in {c \in UNION {e.conditions :
                                                 e \in About(profile, kind, codec, names)} :
                                    c.property = property /\ c.is \in {"atMost", "equals"}}}
  IN IF limits = {} THEN None ELSE Min(limits)

\* `_clamped`: limits are no targets.
Clamped(limit, value) ==
  IF limit = None THEN value
  ELSE IF value = None THEN limit
  ELSE IF limit < value THEN limit ELSE value

\* A limit the request states beside the profile's.
Capped(limit, cap) == IF cap = None THEN limit ELSE Clamped(Or(limit, cap), cap)
=============================================================================
