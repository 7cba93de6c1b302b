-------------------------- MODULE LimitedPipeline --------------------------
(***************************************************************************)
(* The limiter in front of the pipeline, as runServer() registers them: a  *)
(* request that counts against the limit asks allow() in the sync advice,  *)
(* and what becomes of it afterwards is HttpPipeline's.  Each request has  *)
(* a thread of its own, so that any of them may wait for the limiter while *)
(* others are handled; between the advices a request may wait as well.     *)
(***************************************************************************)
EXTENDS RateLimiter, TLC

CONSTANTS Own  \* the requests that come with an X-Request-ID

VARIABLES
  passed,  \* the requests that allow() let in, before the pre-routing advice
  kind, stage, id, logged, header, status, counted, responses, errors, shown, before

pipelineVars == <<kind, stage, id, logged, header, status,
                  counted, responses, errors, shown, before>>

P == INSTANCE HttpPipeline WITH Requests <- Threads, requests <- counted

ServerInit == Init /\ P!Init /\ passed = {}

Asks(r, k) ==
  /\ kind[r] = "api" /\ stage[r] = "new" /\ r \notin passed
  /\ Arrive(r, k)
  /\ UNCHANGED <<passed, pipelineVars>>

LetIn(r) ==
  /\ Admit(r)
  /\ passed' = passed \cup {r}
  /\ UNCHANGED pipelineVars

TurnAway(r) ==
  /\ Refuse(r)
  /\ P!RateLimited(r)
  /\ UNCHANGED passed

\* Mutant: the pre-routing advice does not wait for the answer of the limiter.
BeginsUnasked(r) ==
  /\ P!PreRouting(r)
  /\ passed' = passed \ {r}
  /\ UNCHANGED vars

Begins(r) ==
  /\ kind[r] = "api" => r \in passed
  /\ P!PreRouting(r)
  /\ passed' = passed \ {r}
  /\ UNCHANGED vars

GoesOn(r) ==
  /\ P!Handler(r) \/ P!Scrape(r) \/ P!SentByItself(r) \/ P!PostHandling(r)
  /\ UNCHANGED <<passed, vars>>

ClockTicks == Tick /\ UNCHANGED <<passed, pipelineVars>>

ServerNext ==
  \/ \E r \in Threads :
       (\E k \in Key : Asks(r, k)) \/ LetIn(r) \/ TurnAway(r) \/ Begins(r) \/ GoesOn(r)
  \/ ClockTicks

ServerSpec == ServerInit /\ [][ServerNext]_<<vars, passed, pipelineVars>>

\* Requests are alike but for the header: their kinds are chosen in Init.
Symmetry == Permutations(Threads \ Own)

-----------------------------------------------------------------------------
(* What HttpPipeline says of scrapes, counters and ids (see there) holds     *)
(* with the limiter before it, and more can be said of what is counted.      *)

\* Scrapes one after the other never show less, and none shows more responses
\* than the next one shows requests (Metrics::prometheus).
ScrapesAgree == P!ScrapesAgree

\* What the limiter let in is what /metrics counts, but for the probes and the
\* scrapes, which do not ask, and the requests that are between the advices.
Admitted == UNION {{k} \X DOMAIN log[k] : k \in Key}
Unlimited == {r \in Threads : kind[r] # "api" /\ stage[r] # "new"}

OnlyAdmittedAreCounted ==
  counted + Cardinality(passed) = Cardinality(Admitted) + Cardinality(Unlimited)

\* Of what the limiter lets in: each advice records its part by itself, and yet
\* what it let in is counted as a request, what is counted as a request and not
\* under way is counted as a response or was answered by the framework alone, and
\* an answer that the advice saw has the id of the log line of its start.  A request
\* that is turned away is none of these: its 429 has no X-Request-ID and is in no
\* counter, although README.md:310, OPERATIONS.md:94 and the HELP text of
\* http_requests_total speak of every request.
AdmittedAreTraced ==
  OnlyAdmittedAreCounted /\ P!CountersAddUp /\ P!AnswersCarryTheirId

\* What makes OnlyAdmittedAreCounted inductive: who waits for the limiter or has passed it
\* counts against the limit and has not begun.
Passing ==
  /\ passed \subseteq Threads
  /\ \A r \in passed : kind[r] = "api" /\ stage[r] = "new" /\ pc[r] = "idle"
  /\ \A r \in Threads : pc[r] = "waiting" => kind[r] = "api" /\ stage[r] = "new"
  /\ IsFiniteSet(passed) /\ IsFiniteSet(Admitted) /\ IsFiniteSet(Unlimited)
  /\ OnlyAdmittedAreCounted
=============================================================================
