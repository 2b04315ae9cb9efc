---------------------------- MODULE PodcastGate ----------------------------
(***************************************************************************)
(* Whether a new episode may be published by itself: _quality_gate of      *)
(* app/services/podcasts/generator.py.  What was found out about the       *)
(* script and its sources is a record ev; the settings podcast_min_sources_*)
(* for_publish, podcast_min_publish_quality_score and podcast_sensitive_   *)
(* topics_require_official_source are a record of settings.                *)
(***************************************************************************)
EXTENDS Integers, FiniteSets

(* told is not looked at: the script is what an episode must be. *)
EpisodeEvidence == [sources : Nat, official : BOOLEAN, sensitive : BOOLEAN,
                    script : BOOLEAN, risky : BOOLEAN,
                    told : BOOLEAN]
GateSettings == [minSources : Nat, minScore : Nat, requireOfficial : BOOLEAN]

MissingSignals(ev, st) ==
  {m \in {"sourceCount", "script", "officialSource"} :
     \/ m = "sourceCount" /\ ev.sources < st.minSources
     \/ m = "script" /\ ~ev.script
     \/ m = "officialSource" /\ st.requireOfficial /\ ev.sensitive /\ ~ev.official}

Shortfall(ev, st) ==
  IF ev.sources < st.minSources THEN st.minSources - ev.sources ELSE 0

(* Nothing adds to the 100 points, so only the lower bound can bite. *)
GateScore(ev, st) ==
  LET points == 100 - 30 * Shortfall(ev, st)
                    - 20 * Cardinality(MissingSignals(ev, st))
                    - (IF ev.risky THEN 8 ELSE 0)
  IN IF points < 0 THEN 0 ELSE points

Gate(ev, st) ==
  IF MissingSignals(ev, st) = {} /\ GateScore(ev, st) >= st.minScore
    THEN "publishable" ELSE "blocked"
=============================================================================
