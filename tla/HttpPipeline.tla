---------------------------- MODULE HttpPipeline ----------------------------
(***************************************************************************)
(* What happens to a request around its handler, on several threads: the   *)
(* rate limit (a sync advice), the pre-routing advice, the filter of the   *)
(* route, the handler, and the post-handling advice; and /metrics, whose   *)
(* handler reads the counters of the advices one after the other.          *)
(*                                                                         *)
(* The framework answers by itself what has no route and what a handler    *)
(* lets out; whether such an answer, or a filter's, comes by the           *)
(* post-handling advice depends on its release, so both are possible.      *)
(* LimitedPipeline has what the limit decides, Resources what the handlers *)
(* answer.                                                                 *)
(***************************************************************************)
EXTENDS Naturals, FiniteSets

CONSTANTS Requests,  \* the requests, each of them made once
          Own        \* those that come with an X-Request-ID

VARIABLES
  kind,     \* "api" (or a page of the docs), "probe" (/health, /ready) or "metrics"
  stage,    \* how far each request is
  id,       \* its request id, an attribute of the request
  logged,   \* the id in the log line of its start
  header,   \* the id in its answer
  status,   \* the status of its answer
  requests, responses, errors,   \* the counters
  shown,    \* what a scrape has read of them
  before    \* the scrapes that had ended when a scrape started

vars == <<kind, stage, id, logged, header, status,
          requests, responses, errors, shown, before>>

Kinds == {"api", "probe", "metrics"}

Nothing == [requests |-> 0, responses |-> 0, errors |-> 0]

Init ==
  /\ kind \in [Requests -> Kinds]
  /\ stage = [r \in Requests |-> "new"]
  /\ id = [r \in Requests |-> "none"]
  /\ logged = [r \in Requests |-> "none"]
  /\ header = [r \in Requests |-> "none"]
  /\ status = [r \in Requests |-> 0]
  /\ requests = 0 /\ responses = 0 /\ errors = 0
  /\ shown = [r \in Requests |-> Nothing]
  /\ before = [r \in Requests |-> {}]

Goes(r, from, to) == stage[r] = from /\ stage' = [stage EXCEPT ![r] = to]

Answers(r, code) == status' = [status EXCEPT ![r] = code]

\* /health, /ready and /metrics do not count against the limit.
RateLimited(r) ==
  /\ kind[r] = "api"
  /\ Goes(r, "new", "answered")
  /\ Answers(r, 429)
  /\ UNCHANGED <<kind, id, logged, header, requests, responses, errors, shown, before>>

\* requestId(): the attribute if it is there, or else the header of the request,
\* or else a new one; the same for traceparent().
RequestId(r) ==
  IF id[r] # "none" THEN id[r] ELSE IF r \in Own THEN "supplied" ELSE "generated"

\* Mutant: scrapes are left out of the requests, though not of the responses.
PreRoutingOfOthers(r) ==
  /\ Goes(r, "new", "routed")
  /\ id' = [id EXCEPT ![r] = RequestId(r)]
  /\ logged' = [logged EXCEPT ![r] = RequestId(r)]
  /\ requests' = requests + (IF kind[r] = "metrics" THEN 0 ELSE 1)
  /\ before' = [before EXCEPT ![r] =
       {s \in Requests : kind[s] = "metrics" /\ stage[s] = "answered"}]
  /\ UNCHANGED <<kind, header, status, responses, errors, shown>>

PreRouting(r) ==
  /\ Goes(r, "new", "routed")
  /\ id' = [id EXCEPT ![r] = RequestId(r)]
  /\ logged' = [logged EXCEPT ![r] = RequestId(r)]
  /\ requests' = requests + 1
  /\ before' = [before EXCEPT ![r] =
       {s \in Requests : kind[s] = "metrics" /\ stage[s] = "answered"}]
  /\ UNCHANGED <<kind, header, status, responses, errors, shown>>

Unauthorized(r) == kind[r] = "api" /\ Goes(r, "routed", "by itself") /\ Answers(r, 401)

NotFound(r) == kind[r] # "metrics" /\ Goes(r, "routed", "by itself") /\ Answers(r, 404)

HandlerThrows(r) == kind[r] = "api" /\ Goes(r, "routed", "by itself") /\ Answers(r, 500)

\* "/ready" answers 503 without a database, which counts as an error.
HandlerAnswers(r) ==
  /\ Goes(r, "routed", "handled")
  /\ \/ kind[r] # "metrics" /\ Answers(r, 200)
     \/ kind[r] = "api" /\ Answers(r, 500)
     \/ kind[r] = "probe" /\ Answers(r, 503)

Handler(r) ==
  /\ Unauthorized(r) \/ NotFound(r) \/ HandlerThrows(r) \/ HandlerAnswers(r)
  /\ UNCHANGED <<kind, id, logged, header, requests, responses, errors, shown, before>>

-----------------------------------------------------------------------------
(* Metrics::prometheus() *)

LoadRequests(r) ==
  /\ kind[r] = "metrics"
  /\ Goes(r, "routed", "read requests")
  /\ shown' = [shown EXCEPT ![r].requests = requests]
  /\ UNCHANGED <<kind, id, logged, header, status, requests, responses, errors, before>>

LoadResponses(r) ==
  /\ Goes(r, "read requests", "read responses")
  /\ shown' = [shown EXCEPT ![r].responses = responses]
  /\ UNCHANGED <<kind, id, logged, header, status, requests, responses, errors, before>>

LoadErrors(r) ==
  /\ Goes(r, "read responses", "handled")
  /\ shown' = [shown EXCEPT ![r].errors = errors]
  /\ Answers(r, 200)
  /\ UNCHANGED <<kind, id, logged, header, requests, responses, errors, before>>

Scrape(r) == LoadRequests(r) \/ LoadResponses(r) \/ LoadErrors(r)

-----------------------------------------------------------------------------
\* An answer that the framework sends without the advice.
SentByItself(r) ==
  /\ Goes(r, "by itself", "answered")
  /\ UNCHANGED <<kind, id, logged, header, status, requests, responses, errors, shown, before>>

CountResponse(r) ==
  /\ Goes(r, "handled", "counted") \/ Goes(r, "by itself", "counted")
  /\ responses' = responses + 1
  /\ UNCHANGED <<kind, id, logged, header, status, requests, errors, shown, before>>

\* The rest of the post-handling advice.
CountError(r) ==
  /\ Goes(r, "counted", "answered")
  /\ errors' = errors + (IF status[r] >= 500 THEN 1 ELSE 0)
  /\ header' = [header EXCEPT ![r] = RequestId(r)]
  /\ UNCHANGED <<kind, id, logged, status, requests, responses, shown, before>>

PostHandling(r) == CountResponse(r) \/ CountError(r)

Next ==
  \E r \in Requests :
    \/ RateLimited(r) \/ PreRouting(r) \/ Handler(r)
    \/ Scrape(r) \/ SentByItself(r) \/ PostHandling(r)

Spec == Init /\ [][Next]_vars

-----------------------------------------------------------------------------
Stages == {"new", "routed", "read requests", "read responses", "handled",
           "by itself", "counted", "answered"}

TypeOK ==
  /\ kind \in [Requests -> Kinds]
  /\ stage \in [Requests -> Stages]
  /\ id \in [Requests -> {"none", "supplied", "generated"}]
  /\ logged \in [Requests -> {"none", "supplied", "generated"}]
  /\ header \in [Requests -> {"none", "supplied", "generated"}]
  /\ status \in [Requests -> {0, 200, 401, 404, 429, 500, 503}]
  /\ requests \in Nat /\ responses \in Nat /\ errors \in Nat
  /\ shown \in [Requests -> [requests : Nat, responses : Nat, errors : Nat]]
  /\ before \in [Requests -> SUBSET Requests]

Ended(s) == kind[s] = "metrics" /\ stage[s] = "answered"

\* Of two scrapes one after the other, the later one shows no less of anything;
\* and though one scrape may show more responses than requests, because it reads
\* the requests first, no scrape shows more responses (errors) than the next one
\* shows requests (responses).
ScrapesAgree ==
  \A s \in Requests : Ended(s) =>
    \A e \in before[s] :
      /\ shown[e].requests <= shown[s].requests
      /\ shown[e].responses <= shown[s].responses
      /\ shown[e].errors <= shown[s].errors
      /\ shown[e].responses <= shown[s].requests
      /\ shown[e].errors <= shown[s].responses

InStage(set) == Cardinality({r \in Requests : stage[r] \in set})

\* The requests that are counted and not answered yet, and the answers that the
\* framework sent by itself, are all that lies between the two counters: what
\* the limiter refused is in neither, and an error is always a response.
CountersAddUp ==
  /\ requests = responses + InStage(Stages \ {"new", "counted", "answered"})
                  + Cardinality({r \in Requests :
                       stage[r] = "answered" /\ header[r] = "none" /\ status[r] # 429})
  /\ errors <= responses

\* An answer that went by the advice has the id of the log line of its start,
\* and that is the one that the client sent, if it sent one.
AnswersCarryTheirId ==
  \A r \in Requests : header[r] # "none" =>
    header[r] = logged[r] /\ (r \in Own => header[r] = "supplied")

-----------------------------------------------------------------------------
(* Strengthenings, which make the three properties inductive.               *)

\* The id and the log line are made together, before anything but the limiter
\* answers; the header comes last.
IdsKept ==
  \A r \in Requests :
    /\ id[r] = logged[r]
    /\ stage[r] \notin {"new", "answered"} => id[r] # "none"
    /\ id[r] # "none" /\ r \in Own => id[r] = "supplied"
    /\ stage[r] # "answered" => header[r] = "none"
    /\ header[r] # "none" => header[r] = id[r]

\* The requests that are counted and not answered yet, and those of them that
\* the framework has answered without the advice.
UnderWay == {r \in Requests : stage[r] \in Stages \ {"new", "counted", "answered"}}
Bypassed ==
  {r \in Requests : stage[r] = "answered" /\ header[r] = "none" /\ status[r] # 429}
Counting == {r \in Requests : stage[r] = "counted"}

Tallies ==
  /\ IsFiniteSet(UnderWay) /\ IsFiniteSet(Bypassed) /\ IsFiniteSet(Counting)
  /\ requests = responses + Cardinality(UnderWay) + Cardinality(Bypassed)
  /\ errors + Cardinality(Counting) <= responses
  /\ \A r \in Requests : status[r] = 429 => stage[r] = "answered"

\* A scrape has read what its stage says, after those before it had ended.
ReadRequests == {"read requests", "read responses", "handled", "counted", "answered"}
ReadResponses == ReadRequests \ {"read requests"}
ReadErrors == ReadResponses \ {"read responses"}

ScrapesInOrder ==
  /\ \A r \in Requests :
       /\ shown[r].requests <= requests
       /\ shown[r].responses <= responses
       /\ shown[r].errors <= errors
       /\ kind[r] = "metrics" => stage[r] # "by itself"
  /\ \A s \in Requests : \A e \in before[s] :
       /\ Ended(e)
       /\ kind[s] = "metrics" =>
            /\ stage[s] \in ReadRequests =>
                 /\ shown[e].requests <= shown[s].requests
                 /\ shown[e].responses <= shown[s].requests
            /\ stage[s] \in ReadResponses =>
                 /\ shown[e].responses <= shown[s].responses
                 /\ shown[e].errors <= shown[s].responses
            /\ stage[s] \in ReadErrors => shown[e].errors <= shown[s].errors
=============================================================================
