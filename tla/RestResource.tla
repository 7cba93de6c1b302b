---------------------------- MODULE RestResource ----------------------------
(***************************************************************************)
(* What the handlers of one resource (users, roles) promise: a request     *)
(* takes effect at most once, in one step between its arrival and its      *)
(* answer, and the answer says whether it did.  An update of a row that is *)
(* not there succeeds without effect.                                      *)
(***************************************************************************)
CONSTANTS Threads, Ids

VARIABLES
  rows,     \* the content of each row: "gone", or whose it is
  request,  \* the request of each thread, [op, id], or Idle
  effect,   \* what became of it
  answered  \* what its answer said: "yes", "no", or "" for none yet

Idle == [op |-> "idle", id |-> "none"]

Init ==
  /\ rows \in [Ids -> {"gone", "first"}]
  /\ request = [t \in Threads |-> Idle]
  /\ effect = [t \in Threads |-> "pending"]
  /\ answered = [t \in Threads |-> ""]

Ask(t) ==
  /\ request[t] = Idle \/ answered[t] # ""
  /\ \E op \in {"list", "get", "create", "update", "delete"}, id \in Ids :
       request' = [request EXCEPT ![t] = [op |-> op, id |-> id]]
  /\ effect' = [effect EXCEPT ![t] = "pending"]
  /\ answered' = [answered EXCEPT ![t] = ""]
  /\ UNCHANGED rows

\* What a request makes of the row with its id, with `mine` for its content.
Change(op, row, mine) ==
  CASE op = "create" -> mine
    [] op = "update" -> IF row = "gone" THEN "gone" ELSE mine
    [] op = "delete" -> "gone"
    [] OTHER         -> row

Finds(t) == request[t].op \in {"list", "create"} \/ rows[request[t].id] # "gone"

Effect(t) ==
  /\ request[t] # Idle /\ answered[t] = "" /\ effect[t] = "pending"
  /\ request[t].op = "create" => rows[request[t].id] = "gone"
  /\ rows' = [rows EXCEPT ![request[t].id] = Change(request[t].op, @, t)]
  /\ \/ effect' = [effect EXCEPT ![t] = IF Finds(t) THEN "done" ELSE "missing"]
     \/ effect' = [effect EXCEPT ![t] = "unknown"]
  /\ UNCHANGED <<request, answered>>

Fail(t) ==
  /\ request[t] # Idle /\ answered[t] = "" /\ effect[t] = "pending"
  /\ effect' = [effect EXCEPT ![t] = "failed"]
  /\ UNCHANGED <<rows, request, answered>>

Says(t) ==
  IF effect[t] = "done" \/ (effect[t] = "missing" /\ request[t].op = "update")
  THEN "yes" ELSE "no"

Answer(t) ==
  /\ request[t] # Idle /\ answered[t] = "" /\ effect[t] # "pending"
  /\ answered' = [answered EXCEPT ![t] = Says(t)]
  /\ UNCHANGED <<rows, request, effect>>

Next == \E t \in Threads : Ask(t) \/ Effect(t) \/ Fail(t) \/ Answer(t)

Spec == Init /\ [][Next]_<<rows, request, effect, answered>>
=============================================================================
