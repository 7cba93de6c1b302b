----------------------------- MODULE Resources -----------------------------
(***************************************************************************)
(* The handlers of one controller, which the HTTP threads call at the same *)
(* time: connect(), the checks of the body, the one statement each handler *)
(* gives to PostgreSQL, and its answer.  UserController and RoleController *)
(* are the same but for names and two statuses; the cache in front of the  *)
(* lists is in ListCache, what a body may hold in Records.                 *)
(***************************************************************************)
EXTENDS FiniteSets

CONSTANTS
  Threads,    \* the HTTP threads, one request at a time each
  Ids         \* the ids of rows

VARIABLES
  resource,   \* whose controller it is: "user" or "role"
  configured, \* whether there is a database client to get: the server runs
              \* without one when loadConfigJson() throws
  alive,    \* FALSE once a data race has ended the process
  client,   \* the controller's member: TRUE once it is not null
  writing,  \* the threads in the middle of assigning it
  early,    \* the threads whose request came before it was assigned
  rows,     \* the content of each row: "gone", or the thread that wrote it
  req,      \* the request of each thread
  pc,       \* where its handler is
  effect,   \* what became of its statement
  status    \* the status of its answer, 0 before it

vars == <<resource, configured, alive, client, writing, early, rows, req, pc, effect, status>>

Idle == [op |-> "idle", id |-> "none"]

Ops == {"list", "get", "create", "update", "delete"}

Init ==
  /\ resource \in {"user", "role"}
  /\ configured \in BOOLEAN
  /\ alive = TRUE
  /\ client = FALSE
  /\ writing = {}
  /\ early = {}
  /\ rows \in [Ids -> {"gone", "first"}]
  /\ req = [t \in Threads |-> Idle]
  /\ pc = [t \in Threads |-> "idle"]
  /\ effect = [t \in Threads |-> "pending"]
  /\ status = [t \in Threads |-> 0]

At(t, here) == alive /\ pc[t] = here

Goes(t, there) == pc' = [pc EXCEPT ![t] = there]

\* The handler of the route, by method.  A create has the id that the table is
\* going to give its row.
Arrive(t) ==
  /\ At(t, "idle")
  /\ \E op \in Ops, id \in Ids : req' = [req EXCEPT ![t] = [op |-> op, id |-> id]]
  /\ Goes(t, "check")
  /\ early' = IF client THEN early \ {t} ELSE early \cup {t}
  /\ effect' = [effect EXCEPT ![t] = "pending"]
  /\ status' = [status EXCEPT ![t] = 0]
  /\ UNCHANGED <<resource, configured, alive, client, writing, rows>>

-----------------------------------------------------------------------------
(* connect(): `client` is a shared_ptr that nothing protects. *)

\* Mutant: every request gets a client.
CheckNot(t) ==
  /\ At(t, "check")
  /\ Goes(t, "assign")
  /\ UNCHANGED <<resource, configured, alive, client, writing, early, rows, req, effect, status>>

Check(t) ==
  /\ At(t, "check")
  /\ Goes(t, IF client THEN "use" ELSE "assign")
  /\ UNCHANGED <<resource, configured, alive, client, writing, early, rows, req, effect, status>>

AssignBegins(t) ==
  /\ At(t, "assign")
  /\ writing' = writing \cup {t}
  /\ Goes(t, "assigning")
  /\ UNCHANGED <<resource, configured, alive, client, early, rows, req, effect, status>>

AssignEnds(t) ==
  /\ At(t, "assigning")
  /\ writing' = writing \ {t}
  /\ client' = configured
  /\ Goes(t, "use")
  /\ UNCHANGED <<resource, configured, alive, early, rows, req, effect, status>>

\* One thread assigns while another assigns or reads: the count of the
\* shared_ptr and the object behind it are anybody's guess.
Race ==
  /\ alive
  /\ \E t \in writing : \E u \in Threads \ {t} : pc[u] \in {"check", "assigning", "use"}
  /\ alive' = FALSE
  /\ UNCHANGED <<resource, configured, client, writing, early, rows, req, pc, effect, status>>

-----------------------------------------------------------------------------
Ends(t, what) ==
  /\ effect' = [effect EXCEPT ![t] = what]
  /\ Goes(t, "answer")
  /\ UNCHANGED <<resource, configured, alive, client, writing, early, rows, req, status>>

\* Mutant: without a client the callback is not called.
NoClientNoAnswer(t) ==
  /\ At(t, "use") /\ ~client
  /\ UNCHANGED vars

\* `if (client)`, and the copy that the service keeps.
NoClient(t) == At(t, "use") /\ ~client /\ Ends(t, "failed")

Use(t) ==
  /\ At(t, "use")
  /\ client
  /\ Goes(t, "execute")
  /\ UNCHANGED <<resource, configured, alive, client, writing, early, rows, req, effect, status>>

\* PageRequest::from(), validateUserInput(): invalid_argument.
Invalid(t) ==
  /\ At(t, "execute")
  /\ req[t].op \in {"list", "create", "update"}
  /\ Ends(t, "invalid")

\* The statement runs, unless it throws.
Executes(t, changed, what) ==
  /\ At(t, "execute")
  /\ rows' = [rows EXCEPT ![req[t].id] = changed]
  /\ effect' = [effect EXCEPT ![t] = what]
  /\ Goes(t, "answer")
  /\ UNCHANGED <<resource, configured, alive, client, writing, early, req, status>>

List(t, what) == req[t].op = "list" /\ Executes(t, rows[req[t].id], what)

Get(t, what) ==
  req[t].op = "get" /\ rows[req[t].id] # "gone" /\ Executes(t, rows[req[t].id], what)

Create(t, what) ==
  req[t].op = "create" /\ rows[req[t].id] = "gone" /\ Executes(t, t, what)

Update(t, what) ==
  req[t].op = "update" /\ rows[req[t].id] # "gone" /\ Executes(t, t, what)

Delete(t, what) ==
  req[t].op = "delete" /\ rows[req[t].id] # "gone" /\ Executes(t, "gone", what)

Execute(t, what) ==
  \/ List(t, what) \/ Get(t, what) \/ Create(t, what)
  \/ Update(t, what) \/ Delete(t, what)

\* findByPrimaryKey() throws, update() and deleteByPrimaryKey() count 0 rows.
Missing(t) ==
  /\ At(t, "execute")
  /\ req[t].op \in {"get", "update", "delete"}
  /\ rows[req[t].id] = "gone"
  /\ Ends(t, "missing")

\* A constraint, a lost connection: the statement did not run ...
Fails(t) == At(t, "execute") /\ Ends(t, "failed")

\* ... or it did, and its result was lost.
ResultLost(t) == Execute(t, "unknown")

-----------------------------------------------------------------------------
\* Mutant: a delete answers for the row that is not there any more.
StatusOfGone(op, what) ==
  CASE what = "invalid" -> 400
    [] what # "invalid" -> IF what \in {"done", "missing"} THEN 200 ELSE 500

\* The framework answers 500 to an exception that a handler lets out: those of
\* getUserById() and deleteUserById().
StatusOf(op, what) ==
  CASE what = "invalid" -> IF resource = "role" /\ op = "list" THEN 500 ELSE 400
    [] what # "invalid" /\ op \in {"list", "get"} -> IF what = "done" THEN 200 ELSE 500
    [] what # "invalid" /\ op = "create" ->
         IF what = "done" THEN 201 ELSE IF resource = "user" THEN 400 ELSE 500
    [] what # "invalid" /\ op = "update" ->
         IF what \in {"done", "missing"} THEN 200 ELSE 500
    [] what # "invalid" /\ op = "delete" ->
         CASE what = "done" -> 204 [] what = "missing" -> 400 [] OTHER -> 500

\* Without a client every handler answers 500.
Answer(t) ==
  /\ At(t, "answer")
  /\ status' = [status EXCEPT ![t] =
       IF client THEN StatusOf(req[t].op, effect[t]) ELSE 500]
  /\ Goes(t, "idle")
  /\ early' = early \ {t}
  /\ UNCHANGED <<resource, configured, alive, client, writing, rows, req, effect>>

Handle(t) ==
  \/ Check(t) \/ AssignBegins(t) \/ AssignEnds(t)
  \/ NoClient(t) \/ Use(t) \/ Invalid(t)
  \/ Execute(t, "done") \/ Missing(t) \/ Fails(t) \/ ResultLost(t)
  \/ Answer(t)

Next == Race \/ \E t \in Threads : Arrive(t) \/ Handle(t)

\* A thread goes on with its request, and PostgreSQL answers or the driver
\* gives it up.
Spec == Init /\ [][Next]_vars /\ \A t \in Threads : WF_vars(Handle(t))

-----------------------------------------------------------------------------
TypeOK ==
  /\ resource \in {"user", "role"}
  /\ configured \in BOOLEAN /\ alive \in BOOLEAN /\ client \in BOOLEAN
  /\ client => configured
  /\ writing = {t \in Threads : pc[t] = "assigning"}
  /\ early \subseteq Threads
  /\ rows \in [Ids -> {"gone", "first"} \cup Threads]
  /\ req \in [Threads -> {Idle} \cup [op : Ops, id : Ids]]
  /\ pc \in [Threads -> {"idle", "check", "assign", "assigning", "use", "execute", "answer"}]
  /\ effect \in [Threads -> {"pending", "invalid", "done", "missing", "failed", "unknown"}]
  /\ status \in [Threads -> {0, 200, 201, 204, 400, 500}]

\* Only requests that came before the client was there assign it.  Once they are
\* answered nobody writes it again, and nothing can end the process.
WritersComeFirst ==
  configured => \A t \in Threads : pc[t] \in {"assign", "assigning"} => t \in early

Accepted(t) ==
  CASE status[t] = 0 -> "" [] status[t] \in {200, 201, 204} -> "yes" [] OTHER -> "no"

REST == INSTANCE RestResource WITH
  request  <- req,
  effect   <- [t \in Threads |-> IF effect[t] = "invalid" THEN "failed" ELSE effect[t]],
  answered <- [t \in Threads |-> Accepted(t)]

\* What a handler has to say of the rows it says as they are: what it did, did in
\* one step, and said nothing of what it did not do.  (RestResource)
ImplementsRest == REST!Spec

\* Every request is answered, unless the process ends.
Answered == \A t \in Threads : pc[t] = "check" ~> (pc[t] = "idle" \/ ~alive)
=============================================================================
