----------------------------- MODULE Productions -----------------------------
(***************************************************************************)
(* Requests that have ffmpeg produce something once: a remux in the        *)
(* scratch directory and a re-encode streamed as it is made                *)
(* (src/atrium/api/delivery.py), and a subtitle track extracted into the   *)
(* cache, one extraction for any number of requests                        *)
(* (src/atrium/media/extract.py).                                          *)
(*                                                                         *)
(* The handlers run on the event loop, so what lies between two of their   *)
(* awaits is one step.  The encoders are the environment.                  *)
(***************************************************************************)
EXTENDS Naturals, FiniteSets

CONSTANTS
  Requests,
  Mixes,     \* what the requests may be for
  Nothing

Kinds == {"remux", "stream", "extraction"}

ASSUME RequestsAssumption == IsFiniteSet(Requests)

ASSUME MixesAssumption == Mixes \subseteq [Requests -> Kinds]

ASSUME NothingAssumption == Nothing \notin Requests

VARIABLES
  kind,      \* what a request is for; those of a kind are for one and the same file
  at,        \* where the handler of a request is
  encoder,   \* its ffmpeg
  wrote,     \* what that has put into the pipe, or into a file of its own
  live,      \* ProductionLedger.live
  stored,    \* what lies under the name that is served
  locks,     \* `_locks`: the lock of an artefact, known by the request that made it
  waiting,   \* `_waiting`
  entered,   \* the lock a request has found
  holder,    \* who holds the lock a request has made
  abandoned  \* extractions given up at their timeout

productionVars ==
  <<kind, at, encoder, wrote, live, stored, locks, waiting, entered, holder,
    abandoned>>

----------------------------------------------------------------------------
Extraction(r) == kind[r] = "extraction"

ProductionTypeOK ==
  /\ kind \in Mixes
  /\ at \in [Requests -> {"new", "locking", "launching", "producing", "streaming",
                          "finishing", "judging", "answered"}]
  /\ encoder \in [Requests -> {"none", "running", "ended", "failed", "killed"}]
  /\ wrote \in [Requests -> {"nothing", "part", "whole"}]
  /\ live \subseteq Requests
  /\ stored \in [Kinds -> {"nothing", "part", "whole"}]
  /\ locks \in [Kinds -> Requests \union {Nothing}]
  /\ waiting \in [Kinds -> 0..Cardinality(Requests)]
  /\ entered \in [Requests -> Requests \union {Nothing}]
  /\ holder \in [Requests -> Requests \union {Nothing}]
  /\ abandoned \subseteq Requests

ProductionInit ==
  /\ kind \in Mixes
  /\ at = [r \in Requests |-> "new"]
  /\ encoder = [r \in Requests |-> "none"]
  /\ wrote = [r \in Requests |-> "nothing"]
  /\ live = {}
  /\ stored = [n \in Kinds |-> "nothing"]
  /\ locks = [n \in Kinds |-> Nothing]
  /\ waiting = [n \in Kinds |-> 0]
  /\ entered = [r \in Requests |-> Nothing]
  /\ holder = [r \in Requests |-> Nothing]
  /\ abandoned = {}

lockVars == <<locks, waiting, entered, holder>>
encoderVars == <<encoder, wrote>>

Goes(r, next) == at' = [at EXCEPT ![r] = next]

----------------------------------------------------------------------------
(* The lock of an artefact (`_locked`).                                    *)

\* Found or made, and counted, without an await in between.
EnterLock(r) ==
  /\ at[r] = "new" /\ Extraction(r)
  /\ LET n == kind[r]
         lock == IF locks[n] = Nothing THEN r ELSE locks[n]
     IN /\ locks' = [locks EXCEPT ![n] = lock]
        /\ waiting' = [waiting EXCEPT ![n] = @ + 1]
        /\ entered' = [entered EXCEPT ![r] = lock]
  /\ Goes(r, "locking")
  /\ UNCHANGED <<kind, encoderVars, live, stored, holder, abandoned>>

\* Mistake: the lock is forgotten with the first who leaves.
LeaveLockForgetting(r) ==
  /\ holder' = [holder EXCEPT ![entered[r]] = Nothing]
  /\ waiting' = [waiting EXCEPT ![kind[r]] = @ - 1]
  /\ locks' = [locks EXCEPT ![kind[r]] = Nothing]
  /\ entered' = [entered EXCEPT ![r] = Nothing]

\* The lock goes, and with its last caller it is forgotten.
LeaveLock(r) ==
  /\ holder' = [holder EXCEPT ![entered[r]] = Nothing]
  /\ waiting' = [waiting EXCEPT ![kind[r]] = @ - 1]
  /\ locks' = [locks EXCEPT ![kind[r]] = IF waiting[kind[r]] = 1 THEN Nothing ELSE @]
  /\ entered' = [entered EXCEPT ![r] = Nothing]

\* `_extracted`, with the lock: what is there and not empty is served.
TakeLock(r) ==
  /\ at[r] = "locking"
  /\ holder[entered[r]] = Nothing
  /\ IF stored[kind[r]] = "nothing"
     THEN /\ holder' = [holder EXCEPT ![entered[r]] = r]
          /\ Goes(r, "launching")
          /\ UNCHANGED <<kind, locks, waiting, entered>>
     ELSE LeaveLock(r) /\ Goes(r, "answered")
  /\ UNCHANGED <<kind, encoderVars, live, stored, abandoned>>

----------------------------------------------------------------------------
(* The production.                                                         *)

\* `_to_scratch` serves what an earlier request has published; `_chunked` has no file.
Begin(r) ==
  /\ at[r] = "new" /\ ~Extraction(r)
  /\ Goes(r, IF kind[r] = "remux" /\ stored[kind[r]] # "nothing" THEN "answered"
             ELSE "launching")
  /\ UNCHANGED <<kind, encoderVars, live, stored, lockVars, abandoned>>

\* `ProductionLedger.start`
Launch(r) ==
  /\ at[r] = "launching"
  /\ encoder' = [encoder EXCEPT ![r] = "running"]
  /\ live' = live \union {r}
  /\ Goes(r, "producing")
  /\ UNCHANGED <<kind, wrote, stored, lockVars, abandoned>>

Gone(r) ==
  /\ IF Extraction(r) THEN LeaveLock(r) ELSE UNCHANGED lockVars
  /\ Goes(r, "answered")

\* There is no ffmpeg, or no place to write.
LaunchFails(r) ==
  /\ at[r] = "launching"
  /\ Gone(r)
  /\ UNCHANGED <<kind, encoderVars, live, stored, abandoned>>

\* The wait for the process is over.
Exited(r) ==
  /\ at[r] = "producing" /\ kind[r] # "stream"
  /\ encoder[r] # "running"
  /\ Goes(r, "finishing")
  /\ UNCHANGED <<kind, encoderVars, live, stored, lockVars, abandoned>>

\* Mistake: the wait has no bound.
TimeOutNever(r) == FALSE /\ UNCHANGED productionVars

\* `wait_for` gives an extraction up; a remux is waited for as long as it takes.
TimeOut(r) ==
  /\ at[r] = "producing" /\ Extraction(r)
  /\ encoder[r] = "running"
  /\ abandoned' = abandoned \union {r}
  /\ Goes(r, "finishing")
  /\ UNCHANGED <<kind, encoderVars, live, stored, lockVars>>

\* `_chunked` reads the first block before it answers, or the end of the pipe.
FirstBlock(r) ==
  /\ at[r] = "producing" /\ kind[r] = "stream"
  /\ wrote[r] # "nothing" \/ encoder[r] # "running"
  /\ Goes(r, IF wrote[r] = "nothing" THEN "finishing" ELSE "streaming")
  /\ UNCHANGED <<kind, encoderVars, live, stored, lockVars, abandoned>>

\* Mistake: nothing but the end of the pipe ends the body with its encoder.
BodyEndsUnfinished(r) ==
  /\ at[r] = "streaming"
  /\ Goes(r, IF encoder[r] # "running" THEN "finishing" ELSE "answered")
  /\ UNCHANGED <<kind, encoderVars, live, stored, lockVars, abandoned>>

\* `_produced_bytes` comes to the end of the pipe, or the client leaves and the
\* framework closes the generator: its `finally` runs either way.
BodyEnds(r) ==
  /\ at[r] = "streaming"
  /\ Goes(r, "finishing")
  /\ UNCHANGED <<kind, encoderVars, live, stored, lockVars, abandoned>>

\* `ProductionLedger.finish`: forgotten and killed at once, then waited for.
Finish(r) ==
  /\ at[r] = "finishing"
  /\ live' = live \ {r}
  /\ encoder' = [encoder EXCEPT ![r] = IF @ = "running" THEN "killed" ELSE @]
  /\ Goes(r, "judging")
  /\ UNCHANGED <<kind, wrote, stored, lockVars, abandoned>>

\* Mistake: a remux too is judged by what it has left.
PublishableWritten(r) == wrote[r] # "nothing"

\* A remux counts when ffmpeg ends well, an extraction when it has written anything.
Publishable(r) ==
  /\ wrote[r] # "nothing"
  /\ kind[r] = "remux" => encoder[r] = "ended"

\* Renamed to the name that is served.
Publish(r) ==
  /\ at[r] = "judging" /\ kind[r] # "stream"
  /\ Publishable(r)
  /\ stored' = [stored EXCEPT ![kind[r]] = wrote[r]]
  /\ Gone(r)
  /\ UNCHANGED <<kind, encoderVars, live, abandoned>>

\* Refused, or an extraction whose text cannot be read; a stream has nothing to publish.
GiveUp(r) ==
  /\ at[r] = "judging"
  /\ kind[r] = "remux" => ~Publishable(r)
  /\ Gone(r)
  /\ UNCHANGED <<kind, encoderVars, live, stored, abandoned>>

----------------------------------------------------------------------------
(* ffmpeg.                                                                 *)

Writes(r) ==
  /\ encoder[r] = "running" /\ wrote[r] = "nothing"
  /\ wrote' = [wrote EXCEPT ![r] = "part"]
  /\ UNCHANGED <<kind, at, encoder, live, stored, lockVars, abandoned>>

\* It may have had nothing to do.
Ends(r) ==
  /\ encoder[r] = "running"
  /\ encoder' = [encoder EXCEPT ![r] = "ended"]
  /\ wrote' = [wrote EXCEPT ![r] = IF @ = "part" THEN "whole" ELSE @]
  /\ UNCHANGED <<kind, at, live, stored, lockVars, abandoned>>

Fails(r) ==
  /\ encoder[r] = "running"
  /\ encoder' = [encoder EXCEPT ![r] = "failed"]
  /\ UNCHANGED <<kind, at, wrote, live, stored, lockVars, abandoned>>

HandlerOf(r) ==
  \/ EnterLock(r) \/ TakeLock(r) \/ Begin(r)
  \/ Launch(r) \/ LaunchFails(r) \/ Exited(r) \/ TimeOut(r) \/ FirstBlock(r)
  \/ BodyEnds(r) \/ Finish(r) \/ Publish(r) \/ GiveUp(r)

ProductionNext ==
  \E r \in Requests : HandlerOf(r) \/ Writes(r) \/ Ends(r) \/ Fails(r)

----------------------------------------------------------------------------
(* What has to hold.                                                       *)

Producing(r) == at[r] \in {"launching", "producing", "finishing", "judging"}

\* A burst of requests for a subtitle is one extraction: while one runs nobody else
\* extracts the same artefact, and none is begun over one that is there.
OneExtractionPerArtefact ==
  \A r \in Requests : Extraction(r) /\ Producing(r) =>
    /\ stored[kind[r]] = "nothing"
    /\ \A s \in Requests \ {r} : kind[s] = kind[r] => ~Producing(s)

\* An answered request has left no encoder running or listed and no lock behind, and a
\* lock stays as long as somebody has it: what is kept is kept for a request in progress.
NothingOutlivesItsRequest ==
  /\ \A r \in Requests : at[r] \in {"new", "answered"} =>
       encoder[r] # "running" /\ r \notin live
  /\ \A n \in Kinds :
       /\ waiting[n] = Cardinality({r \in Requests : kind[r] = n /\ entered[r] # Nothing})
       /\ (locks[n] = Nothing) = (waiting[n] = 0)

\* What is served is whole, but for an extraction that failed or was given up: of that
\* whatever it had written is stored (behaviours of the reference, kept by `_produce`).
ServedWhole ==
  \A n \in Kinds : stored[n] = "part" =>
    \E r \in Requests : /\ kind[r] = n /\ Extraction(r)
                        /\ encoder[r] = "failed" \/ r \in abandoned

\* However many requests wait for a subtitle, and though ffmpeg may hang on it for ever,
\* each of them is answered.
EveryExtractionIsAnswered ==
  \A r \in Requests : Extraction(r) => (at[r] = "locking" ~> at[r] = "answered")
=============================================================================
