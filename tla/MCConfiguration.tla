-------------------------- MODULE MCConfiguration --------------------------
(***************************************************************************)
(* Configuration for TLC: an .env and an environment with a few settings,  *)
(* each at and beyond the edges of its range.                              *)
(***************************************************************************)
EXTENDS Configuration

CONSTANTS KeyA, KeyB, Url,  \* two keys, and an endpoint of no provider's form
          MaxOverlays       \* how many settings .env has beyond the base

ASSUME MaxOverlays \in 0..2

\* The texts a key may have, at and beyond each edge of its range.
Numbers == {Empty, Bad, 0, 1, MaxNumber, MaxNumber + 1}
Durations == {Empty, Bad, NaN, 0, 1, Resolution, MaxSeconds, MaxSeconds + 1}
Texts ==
  [k \in Settings |->
     CASE k = "SECRET_KEY" -> {Absent, Empty, KeyB}
       [] k = "ERROR_TRACKING_PROVIDER" -> {Absent, Empty, "none", "other"}
       [] k = "SENTRY_DSN" -> {Empty, Url, SentryUrl}
       [] k = "OTLP_ENDPOINT" -> {Empty, Url}
       [] k \in {"OBSERVABILITY_TIMEOUT_SECONDS",
                 "OBSERVABILITY_BATCH_DELAY_SECONDS"} -> Durations
       [] k = "OBSERVABILITY_RETRY_MAX_ATTEMPTS" -> Numbers \cup {10, 11}
       [] OTHER -> Numbers]

Base(provider) ==
  [k \in Settings |-> CASE k = "SECRET_KEY" -> KeyA
                    [] k = "ERROR_TRACKING_PROVIDER" -> provider
                    [] OTHER -> Absent]

Overlays(f) == UNION {{[f EXCEPT ![k] = t] : t \in Texts[k]} : k \in Settings}

RECURSIVE Overlaid(_, _)
Overlaid(fs, n) ==
  IF n = 0 THEN fs ELSE Overlaid(fs \cup UNION {Overlays(f) : f \in fs}, n - 1)

MCFiles == Overlaid({Base("otlp"), Base("sentry")}, MaxOverlays)

Bare == [k \in Settings |-> Absent]
MCEnvironments == {Bare} \cup Overlays(Bare)
=============================================================================
