------------------------------ MODULE ToolBridge ------------------------------
(***************************************************************************)
(* The remote tool calls of one step of a run: the worker calls a tool,    *)
(* the bridge looks in the execution ledger, sends the call to the client  *)
(* as an event and waits; the client performs it and posts the result,     *)
(* which is recorded in the ledger and wakes the call.                     *)
(* bridge/stream_bridge.py, POST /tool-result of api/routes.py, the        *)
(* tool_executions of workflow/repository.py, and the limits a worker's    *)
(* calls pass before (middleware/worker_tool_validation.py) and around     *)
(* (middleware/retry.py) the bridge.                                       *)
(*                                                                         *)
(* A call is identified by its idempotency key: run, step, tool, arguments *)
(* and revision of the scene; tool_call_id is a hash of the key.  Every    *)
(* access to the ledger is an await.  Posts may be lost, repeated and late.*)
(***************************************************************************)
EXTENDS Integers

CONSTANTS
  Keys,      \* idempotency keys the worker may come up with
  Calls,     \* tool calls the worker has in flight at a time
  Posts,     \* requests to /tool-result in flight at a time
  None,
  MaxTries,  \* retry.tool.max_attempts
  MaxExecs   \* a bound of the model: executions of the step

ASSUME ToolAssumption ==
  /\ MaxTries \in Nat \ {0} /\ MaxExecs \in Nat \ {0}
  /\ None \notin Keys \cup Calls \cup {"ok", "bad", "timeout"}

Results == {"ok", "bad"}          \* success or not, as the client reports it
Answers == Results \cup {"timeout"}

\* A row of tool_executions.  exec is the execution_id it was created under.
Row   == [exec : Nat, result : Results \cup {None}]
NoRow == [exec |-> 0, result |-> None]
Known(row) == row.exec # 0

VARIABLES
  ledger,   \* tool_executions by key
  live,     \* the stream of the run is open and its bridge registered
  exec,     \* the execution of the step, a new execution_id each time
  used,     \* signature_counts of the execution
  done,     \* the keys of signature_results: calls that succeeded
  at,       \* where a call is
  key,      \* its idempotency key
  tries,    \* attempts of the retry middleware
  got,      \* the result of its future, or what it returns
  pending,  \* StreamBridge._pending: the call whose future a result wakes
  sent,     \* tool_args events the client has received: [key, exec]
  cache,    \* the client's successes by key: those calls it performs once
  post,     \* requests to /tool-result
  held      \* history: what a call's row has recorded since the call began

worker == <<live, exec, used, done>>
call   == <<at, key, tries, got>>
client == <<sent, cache>>
vars   == <<ledger, worker, call, pending, client, post, held>>

Idle == [at |-> "idle", key |-> None, exec |-> 0, result |-> None, seen |-> None]

Init ==
  /\ ledger = [k \in Keys |-> NoRow]
  /\ live = TRUE /\ exec = 1
  /\ used = [k \in Keys |-> 0] /\ done = {}
  /\ at = [c \in Calls |-> "idle"]
  /\ key = [c \in Calls |-> None]
  /\ tries = [c \in Calls |-> 0]
  /\ got = [c \in Calls |-> None]
  /\ pending = [k \in Keys |-> None]
  /\ sent = {} /\ cache = [k \in Keys |-> None]
  /\ post = [p \in Posts |-> Idle]
  /\ held = [c \in Calls |-> {}]

Go(c, place) == at' = [at EXCEPT ![c] = place]

-----------------------------------------------------------------------------
(* The worker *)

\* A slip: one identical call too many.
MayCallThrice(k) == used[k] <= 2 /\ k \notin done

\* The third identical call of an execution ends it, and so does a call that
\* has succeeded before; here they are not made.
MayCall(k) == used[k] < 2 /\ k \notin done

CallTool(c) ==
  /\ live /\ at[c] = "idle"
  /\ \E k \in Keys :
       /\ MayCall(k)
       /\ used' = [used EXCEPT ![k] = @ + 1]
       /\ key' = [key EXCEPT ![c] = k]
       /\ held' = [held EXCEPT ![c] = {ledger[k].result} \ {None}]
  /\ Go(c, "lookup")
  /\ tries' = [tries EXCEPT ![c] = 1]
  /\ UNCHANGED <<ledger, live, exec, done, got, pending, client, post>>

\* The worker is told; only a success is remembered.
Return(c) ==
  /\ at[c] = "return"
  /\ done' = IF got[c] = "ok" THEN done \cup {key[c]} ELSE done
  /\ Go(c, "idle")
  /\ got' = [got EXCEPT ![c] = None]
  /\ key' = [key EXCEPT ![c] = None]
  /\ tries' = [tries EXCEPT ![c] = 0]
  /\ held' = [held EXCEPT ![c] = {}]
  /\ UNCHANGED <<ledger, live, exec, used, pending, client, post>>

\* The worker has asked the user or for a prerequisite, and the step is executed
\* again later, with a fresh execution_id, context and bridge.
ExecuteAgain ==
  /\ live /\ \A c \in Calls : at[c] = "idle"
  /\ exec < MaxExecs
  /\ exec' = exec + 1
  /\ used' = [k \in Keys |-> 0] /\ done' = {}
  /\ UNCHANGED <<ledger, live, call, pending, client, post, held>>

\* The stream breaks off: the futures are cleared, the worker's task cancelled.
Close ==
  /\ live /\ live' = FALSE
  /\ at' = [c \in Calls |-> "idle"]
  /\ key' = [c \in Calls |-> None]
  /\ tries' = [c \in Calls |-> 0]
  /\ got' = [c \in Calls |-> None]
  /\ pending' = [k \in Keys |-> None]
  /\ held' = [c \in Calls |-> {}]
  /\ UNCHANGED <<ledger, exec, used, done, client, post>>

-----------------------------------------------------------------------------
(* send_tool_call *)

\* A slip: only a success is answered from the ledger.
LookupSuccess(c) ==
  /\ at[c] = "lookup"
  /\ LET result == ledger[key[c]].result IN
       IF result = "ok"
       THEN Go(c, "return") /\ got' = [got EXCEPT ![c] = result]
       ELSE Go(c, "start") /\ UNCHANGED got
  /\ UNCHANGED <<ledger, worker, key, tries, pending, client, post, held>>

\* A recorded result is answered from the ledger; the client is only shown it.
Lookup(c) ==
  /\ at[c] = "lookup"
  /\ LET result == ledger[key[c]].result IN
       IF result # None
       THEN Go(c, "return") /\ got' = [got EXCEPT ![c] = result]
       ELSE Go(c, "start") /\ UNCHANGED got
  /\ UNCHANGED <<ledger, worker, key, tries, pending, client, post, held>>

\* A slip: INSERT OR REPLACE.
StartReplaces(c) ==
  /\ at[c] = "start"
  /\ ledger' = [ledger EXCEPT ![key[c]] = [exec |-> exec, result |-> None]]
  /\ Go(c, "send")
  /\ UNCHANGED <<worker, key, tries, got, pending, client, post, held>>

\* start_tool_execution inserts the row unless there is one.
Start(c) ==
  /\ at[c] = "start"
  /\ ledger' = [ledger EXCEPT ![key[c]] =
                  IF Known(@) THEN @ ELSE [exec |-> exec, result |-> None]]
  /\ Go(c, "send")
  /\ UNCHANGED <<worker, key, tries, got, pending, client, post, held>>

\* The future is registered, then the events go out.
Send(c) ==
  /\ at[c] = "send"
  /\ pending' = [pending EXCEPT ![key[c]] = c]
  /\ sent' = sent \cup {[key |-> key[c], exec |-> exec]}
  /\ Go(c, "wait")
  /\ UNCHANGED <<ledger, worker, key, tries, got, cache, post, held>>

Woken(c) ==
  /\ at[c] = "wait" /\ got[c] # None
  /\ Go(c, "return")
  /\ UNCHANGED <<ledger, worker, key, tries, got, pending, client, post, held>>

\* A slip: the attempts are not counted.
TimeOutForgets(c) ==
  /\ at[c] = "wait" /\ got[c] = None
  /\ pending' = [pending EXCEPT ![key[c]] = None]
  /\ Go(c, "lookup")
  /\ UNCHANGED <<ledger, worker, key, tries, got, client, post, held>>

\* wait_for gives up and drops the future the key has now; the retry middleware
\* calls again, and after the last attempt tells the worker.
TimeOut(c) ==
  /\ at[c] = "wait" /\ got[c] = None
  /\ pending' = [pending EXCEPT ![key[c]] = None]
  /\ IF tries[c] < MaxTries
     THEN /\ Go(c, "lookup")
          /\ tries' = [tries EXCEPT ![c] = @ + 1]
          /\ UNCHANGED got
     ELSE /\ Go(c, "return")
          /\ got' = [got EXCEPT ![c] = "timeout"]
          /\ UNCHANGED tries
  /\ UNCHANGED <<ledger, worker, key, client, post, held>>

-----------------------------------------------------------------------------
(* The client (external) *)

\* It performs a call that it has not performed with success yet, and posts the
\* result with the ids of the event; it may do so again at any time.
PostResult(p) ==
  /\ post[p].at = "idle"
  /\ \E e \in sent, result \in Results :
       /\ cache[e.key] \in {None, result}
       /\ cache' = IF result = "ok" THEN [cache EXCEPT ![e.key] = result] ELSE cache
       /\ post' = [post EXCEPT ![p] = [at |-> "sent", key |-> e.key, exec |-> e.exec,
                                       result |-> result, seen |-> None]]
  /\ UNCHANGED <<ledger, worker, call, pending, sent, held>>

PostLost(p) ==
  /\ post[p].at = "sent"
  /\ post' = [post EXCEPT ![p] = Idle]
  /\ UNCHANGED <<ledger, worker, call, pending, client, held>>

-----------------------------------------------------------------------------
(* POST /tool-result *)

Moved(q, place, seen) ==
  [at |-> place, key |-> q.key, exec |-> q.exec, result |-> q.result, seen |-> seen]

\* The row is read; a post under another execution_id is refused with 409.
PostRead(p) ==
  /\ post[p].at = "sent"
  /\ LET row == ledger[post[p].key] IN
       post' = [post EXCEPT ![p] =
                  IF row.exec = post[p].exec
                  THEN Moved(@, "read", row.result)
                  ELSE Idle]
  /\ UNCHANGED <<ledger, worker, call, pending, client, held>>

\* A row that had a result when it was read: 409 if it is another one, and no
\* call is woken in any case.
PostKnown(p) ==
  /\ post[p].at = "read" /\ post[p].seen # None
  /\ post' = [post EXCEPT ![p] = Idle]
  /\ UNCHANGED <<ledger, worker, call, pending, client, held>>

\* complete_tool_execution writes over what another post has recorded in between.
PostWrite(p) ==
  /\ post[p].at = "read" /\ post[p].seen = None
  /\ ledger' = [ledger EXCEPT ![post[p].key] = [exec |-> @.exec, result |-> post[p].result]]
  /\ held' = [c \in Calls |->
                IF key[c] = post[p].key THEN held[c] \cup {post[p].result} ELSE held[c]]
  /\ post' = [post EXCEPT ![p] = Moved(@, "written", @.seen)]
  /\ UNCHANGED <<worker, call, pending, client>>

\* resolve_tool_result_dict, on the bridge the thread has now.
PostResolve(p) ==
  /\ post[p].at = "written"
  /\ LET c == pending[post[p].key] IN
       IF live /\ c # None
       THEN /\ got' = [got EXCEPT ![c] = IF @ = None THEN post[p].result ELSE @]
            /\ pending' = [pending EXCEPT ![post[p].key] = None]
       ELSE UNCHANGED <<got, pending>>
  /\ post' = [post EXCEPT ![p] = Idle]
  /\ UNCHANGED <<ledger, worker, at, key, tries, client, held>>

-----------------------------------------------------------------------------
Proceed(c) == Lookup(c) \/ Start(c) \/ Send(c) \/ Woken(c) \/ TimeOut(c) \/ Return(c)
Handle(p)  == PostRead(p) \/ PostKnown(p) \/ PostWrite(p) \/ PostResolve(p)

Next ==
  \/ \E c \in Calls : CallTool(c) \/ Proceed(c)
  \/ \E p \in Posts : PostResult(p) \/ PostLost(p) \/ Handle(p)
  \/ ExecuteAgain \/ Close

Spec == Init /\ [][Next]_vars

\* The event loop runs every ready task and wait_for has a time limit.  The
\* client need not answer, and the worker need not call.
FairSpec ==
  /\ Spec
  /\ \A c \in Calls : WF_vars(Proceed(c))
  /\ \A p \in Posts : WF_vars(Handle(p))

-----------------------------------------------------------------------------
(* What the bridge and the ledger promise *)

TypeOK ==
  /\ ledger \in [Keys -> Row]
  /\ live \in BOOLEAN /\ exec \in Nat
  /\ used \in [Keys -> 0..2] /\ done \in SUBSET Keys
  /\ at \in [Calls -> {"idle", "lookup", "start", "send", "wait", "return"}]
  /\ key \in [Calls -> Keys \cup {None}]
  /\ tries \in [Calls -> 0..MaxTries]
  /\ got \in [Calls -> Answers \cup {None}]
  /\ pending \in [Keys -> Calls \cup {None}]
  /\ sent \in SUBSET [key : Keys, exec : Nat]
  /\ cache \in [Keys -> {"ok", None}]
  /\ post \in [Posts -> [at : {"idle", "sent", "read", "written"}, key : Keys \cup {None},
                         exec : Nat, result : Results \cup {None},
                         seen : Results \cup {None}]]
  /\ held \in [Calls -> SUBSET Results]

Promise == INSTANCE ToolPromise WITH
  recorded <- [k \in Keys |-> ledger[k].result],
  under    <- key,
  held     <- held,
  reply    <- got

\* Retries, duplicate calls, and answers that are lost, late, repeated or different
\* from one another leave the ledger one register: what a call returns was recorded
\* while it ran, and no result disappears.  (Of two different results posted at the
\* same time the one written last stays, and neither is refused.)
KeepsPromise == Promise!Spec

\* Every call comes back to the worker, whatever the client does.
Returns == \A c \in Calls : (at[c] # "idle") ~> (at[c] = "idle")

\* A call that can still try again when a result is recorded comes back with a
\* result, also if nothing woke it.
LateAnswerIsFound ==
  \A c \in Calls :
    (at[c] = "wait" /\ tries[c] < MaxTries /\ ledger[key[c]].result # None)
      ~> (~live \/ (at[c] = "return" /\ got[c] \in Results))

-----------------------------------------------------------------------------
(* What the repository says, and the code does not do *)

\* The client is to perform and answer every tool_args event that is not marked
\* as a replay: such an answer belongs to the row of its call.
AnswerBelongs ==
  \A p \in Posts : post[p].at = "sent" => post[p].exec = ledger[post[p].key].exec
=============================================================================
