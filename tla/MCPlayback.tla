----------------------------- MODULE MCPlayback -----------------------------
(* Small instances of PlaybackReports for TLC. *)
EXTENDS PlaybackReports

CONSTANTS s1, s2, film, clip

\* A film and a clip too short to resume.
Lengths == [i \in Items |-> IF i = film THEN 5 ELSE 3]

Report(kind, s, i, p, paused) ==
  [kind |-> kind, s |-> s, item |-> i, position |-> p, paused |-> paused]

StopOf(s, i, p, failed) ==
  [kind |-> "stopped", s |-> s, item |-> i, position |-> p, failed |-> failed]

\* One session plays the film and stops; in the other the user marks it.
FilmRequests ==
  {Report("start", s1, film, None, FALSE),
   Report("progress", s1, film, 3, FALSE),
   StopOf(s1, film, None, FALSE),
   [kind |-> "played", s |-> s2, item |-> film, dated |-> FALSE],
   [kind |-> "unplayed", s |-> s2, item |-> film],
   [kind |-> "favorite", s |-> s2, item |-> film, on |-> TRUE]}

\* Two sessions of two items, for the passes that fail and the liveness.
PairRequests ==
  {Report("start", s1, film, 2, FALSE),
   Report("progress", s1, film, None, FALSE),
   StopOf(s1, film, 3, FALSE),
   StopOf(s1, film, 0, TRUE),
   Report("progress", s2, clip, 2, TRUE)}
============================================================================
