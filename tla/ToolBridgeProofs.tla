-------------------------- MODULE ToolBridgeProofs --------------------------
(***************************************************************************)
(* The bridge and the ledger keep ToolPromise, for any number of keys,     *)
(* calls and posts in flight.                                              *)
(***************************************************************************)
EXTENDS ToolBridge, TLAPS

\* What a call has come back with, while it is where it is.
CallOK(c) ==
  /\ at[c] = "idle" => key[c] = None /\ got[c] = None /\ held[c] = {}
  /\ at[c] # "idle" => key[c] \in Keys
  /\ at[c] \in {"lookup", "start", "send"} => got[c] = None
  /\ at[c] = "return" => got[c] # None

\* What its row has now, the call has seen it hold.
SeesRow(c) ==
  key[c] \in Keys /\ ledger[key[c]].result # None => ledger[key[c]].result \in held[c]

\* A future belongs to a call that still waits for its answer.
FutureOK(k) ==
  pending[k] # None =>
    /\ pending[k] \in Calls
    /\ at[pending[k]] = "wait" /\ key[pending[k]] = k /\ got[pending[k]] = None

RowOK(k) == ledger[k].result # None => Known(ledger[k])

\* A post names a call that was sent; once accepted, its row exists.
PostOK(p) ==
  /\ post[p].at # "idle" =>
       post[p].key \in Keys /\ post[p].result \in Results /\ post[p].exec # 0
  /\ post[p].at \in {"read", "written"} => Known(ledger[post[p].key])
  /\ post[p].at = "written" => ledger[post[p].key].result # None

\* A call that went past the ledger began before the result of an accepted post was
\* written, so it has seen it: the post may wake it.
MayWake(p, c) ==
  post[p].at = "written" /\ key[c] = post[p].key /\ at[c] \in {"start", "send", "wait"} =>
    post[p].result \in held[c]

RowsOK ==
  /\ exec # 0 /\ \A e \in sent : e.exec # 0
  /\ \A k \in Keys : RowOK(k)
  /\ \A p \in Posts : PostOK(p)

CallsOK ==
  /\ \A c \in Calls : CallOK(c) /\ SeesRow(c)
  /\ \A k \in Keys : FutureOK(k)
  /\ \A p \in Posts, c \in Calls : MayWake(p, c)

BInv == TypeOK /\ RowsOK /\ CallsOK

-----------------------------------------------------------------------------
(* Every step keeps the invariant *)

LEMMA BridgeInit == Init => BInv
<1> SUFFICES ASSUME Init PROVE BInv
  OBVIOUS
<1>1. TypeOK
  BY ToolAssumption DEF Init, TypeOK, Row, NoRow, Idle, Results, Answers
<1>2. RowsOK
  BY DEF Init, RowsOK, RowOK, PostOK, NoRow, Idle
<1>3. CallsOK
  BY ToolAssumption DEF Init, CallsOK, CallOK, SeesRow, FutureOK, MayWake, Idle
<1> QED BY <1>1, <1>2, <1>3 DEF BInv

\* Steps that leave the ledger, the posts and what the client has received alone.
LEMMA RowsKept ==
  ASSUME RowsOK, UNCHANGED <<ledger, exec, sent, post>>
  PROVE  RowsOK'
BY DEF RowsOK, RowOK, PostOK, Known

LEMMA CallToolKeeps ==
  ASSUME BInv, NEW c \in Calls, CallTool(c)
  PROVE  BInv'
<1>1. PICK k \in Keys :
        /\ MayCall(k) /\ used' = [used EXCEPT ![k] = @ + 1]
        /\ key' = [key EXCEPT ![c] = k]
        /\ held' = [held EXCEPT ![c] = {ledger[k].result} \ {None}]
  BY DEF CallTool
<1>2. /\ at[c] = "idle" /\ at' = [at EXCEPT ![c] = "lookup"]
      /\ tries' = [tries EXCEPT ![c] = 1]
      /\ UNCHANGED <<ledger, live, exec, done, got, pending, sent, cache, post>>
  BY DEF CallTool, Go, client
<1>3. TypeOK'
  <2>1. used[k] \in 0..2 /\ used[k] < 2 /\ ledger[k].result \in Results \cup {None}
    BY <1>1 DEF BInv, TypeOK, MayCall, Row
  <2>2. used[k] + 1 \in 0..2 /\ 1 \in 0..MaxTries /\ {ledger[k].result} \ {None} \in SUBSET Results
    BY <2>1, ToolAssumption
  <2> QED BY <1>1, <1>2, <2>2 DEF BInv, TypeOK
<1>4. RowsOK'
  BY <1>2, RowsKept DEF BInv
<1>5. CallsOK'
  BY <1>1, <1>2, ToolAssumption DEF BInv, CallsOK, CallOK, SeesRow, FutureOK, MayWake, TypeOK
<1> QED BY <1>3, <1>4, <1>5 DEF BInv

LEMMA ReturnKeeps ==
  ASSUME BInv, NEW c \in Calls, Return(c)
  PROVE  BInv'
<1>1. /\ at[c] = "return" /\ at' = [at EXCEPT ![c] = "idle"]
      /\ got' = [got EXCEPT ![c] = None] /\ key' = [key EXCEPT ![c] = None]
      /\ tries' = [tries EXCEPT ![c] = 0] /\ held' = [held EXCEPT ![c] = {}]
      /\ done' = IF got[c] = "ok" THEN done \cup {key[c]} ELSE done
      /\ UNCHANGED <<ledger, live, exec, used, pending, sent, cache, post>>
  BY DEF Return, Go, client
<1>2. key[c] \in Keys
  BY <1>1 DEF BInv, CallsOK, CallOK
<1>3. TypeOK'
  <2>1. done' \in SUBSET Keys /\ 0 \in 0..MaxTries
    BY <1>1, <1>2, ToolAssumption DEF BInv, TypeOK
  <2> QED BY <1>1, <2>1 DEF BInv, TypeOK
<1>4. RowsOK'
  BY <1>1, RowsKept DEF BInv
<1>5. CallsOK'
  BY <1>1, ToolAssumption DEF BInv, CallsOK, CallOK, SeesRow, FutureOK, MayWake, TypeOK
<1> QED BY <1>3, <1>4, <1>5 DEF BInv

LEMMA ExecuteAgainKeeps == BInv /\ ExecuteAgain => BInv'
<1> SUFFICES ASSUME BInv, ExecuteAgain PROVE BInv'
  OBVIOUS
<1>1. /\ exec' = exec + 1 /\ used' = [k \in Keys |-> 0] /\ done' = {}
      /\ UNCHANGED <<ledger, live, at, key, tries, got, pending, sent, cache, post, held>>
  BY DEF ExecuteAgain, call, client
<1>2. exec \in Nat
  BY DEF BInv, TypeOK
<1>3. TypeOK'
  BY <1>1, <1>2 DEF BInv, TypeOK
<1>4. RowsOK'
  <2>1. exec' # 0
    BY <1>1, <1>2
  <2> QED BY <1>1, <2>1 DEF BInv, RowsOK, RowOK, PostOK, Known
<1>5. CallsOK'
  BY <1>1 DEF BInv, CallsOK, CallOK, SeesRow, FutureOK, MayWake
<1> QED BY <1>3, <1>4, <1>5 DEF BInv

LEMMA CloseKeeps == BInv /\ Close => BInv'
<1> SUFFICES ASSUME BInv, Close PROVE BInv'
  OBVIOUS
<1>1. /\ at' = [c \in Calls |-> "idle"] /\ key' = [c \in Calls |-> None]
      /\ tries' = [c \in Calls |-> 0] /\ got' = [c \in Calls |-> None]
      /\ pending' = [k \in Keys |-> None] /\ held' = [c \in Calls |-> {}] /\ live' = FALSE
      /\ UNCHANGED <<ledger, exec, used, done, sent, cache, post>>
  BY DEF Close, client
<1>2. TypeOK'
  <2>1. 0 \in 0..MaxTries
    BY ToolAssumption
  <2> QED BY <1>1, <2>1 DEF BInv, TypeOK
<1>3. RowsOK'
  BY <1>1, RowsKept DEF BInv
<1>4. CallsOK'
  BY <1>1, ToolAssumption DEF CallsOK, CallOK, SeesRow, FutureOK, MayWake
<1> QED BY <1>2, <1>3, <1>4 DEF BInv

LEMMA LookupKeeps ==
  ASSUME BInv, NEW c \in Calls, Lookup(c)
  PROVE  BInv'
<1>1. /\ at[c] = "lookup" /\ got[c] = None /\ key[c] \in Keys
      /\ UNCHANGED <<ledger, live, exec, used, done, key, tries, pending, sent, cache, post, held>>
  BY DEF Lookup, worker, client, BInv, CallsOK, CallOK
<1>2. \/ /\ ledger[key[c]].result # None
         /\ at' = [at EXCEPT ![c] = "return"] /\ got' = [got EXCEPT ![c] = ledger[key[c]].result]
      \/ /\ ledger[key[c]].result = None
         /\ at' = [at EXCEPT ![c] = "start"] /\ got' = got
  BY DEF Lookup, Go
<1>3. ledger[key[c]].result \in Results \cup {None}
  BY <1>1 DEF BInv, TypeOK, Row
<1>4. TypeOK'
  BY <1>1, <1>2, <1>3 DEF BInv, TypeOK, Answers
<1>5. RowsOK'
  BY <1>1, RowsKept DEF BInv
<1>6. CallsOK'
  BY <1>1, <1>2 DEF BInv, CallsOK, CallOK, SeesRow, FutureOK, MayWake, TypeOK, RowsOK, PostOK
<1> QED BY <1>4, <1>5, <1>6 DEF BInv

LEMMA StartKeeps ==
  ASSUME BInv, NEW c \in Calls, Start(c)
  PROVE  BInv'
<1>1. /\ at[c] = "start" /\ key[c] \in Keys /\ at' = [at EXCEPT ![c] = "send"]
      /\ ledger' = [ledger EXCEPT ![key[c]] =
                      IF Known(@) THEN @ ELSE [exec |-> exec, result |-> None]]
      /\ UNCHANGED <<live, exec, used, done, key, tries, got, pending, sent, cache, post, held>>
  BY DEF Start, Go, worker, client, BInv, CallsOK, CallOK
<1>2. /\ ledger \in [Keys -> Row] /\ [exec |-> exec, result |-> None] \in Row
      /\ RowOK(key[c]) /\ exec # 0
  BY <1>1 DEF BInv, TypeOK, Row, RowsOK
<1>3. TypeOK'
  BY <1>1, <1>2 DEF BInv, TypeOK
<1>4. \A k \in Keys :
        /\ ledger'[k].result = ledger[k].result
        /\ Known(ledger[k]) => Known(ledger'[k])
  BY <1>1, <1>2 DEF RowOK
<1>5. RowsOK'
  BY <1>1, <1>4 DEF BInv, RowsOK, RowOK, PostOK
<1>6. CallsOK'
  BY <1>1, <1>4 DEF BInv, CallsOK, CallOK, SeesRow, FutureOK, MayWake, TypeOK
<1> QED BY <1>3, <1>5, <1>6 DEF BInv

LEMMA SendKeeps ==
  ASSUME BInv, NEW c \in Calls, Send(c)
  PROVE  BInv'
<1>1. /\ at[c] = "send" /\ key[c] \in Keys /\ got[c] = None
      /\ at' = [at EXCEPT ![c] = "wait"] /\ pending' = [pending EXCEPT ![key[c]] = c]
      /\ sent' = sent \cup {[key |-> key[c], exec |-> exec]}
      /\ UNCHANGED <<ledger, live, exec, used, done, key, tries, got, cache, post, held>>
  BY DEF Send, Go, worker, BInv, CallsOK, CallOK
<1>2. TypeOK'
  BY <1>1 DEF BInv, TypeOK
<1>3. RowsOK'
  BY <1>1 DEF BInv, RowsOK, RowOK, PostOK, Known
<1>4. CallsOK'
  BY <1>1 DEF BInv, CallsOK, CallOK, SeesRow, FutureOK, MayWake, TypeOK
<1> QED BY <1>2, <1>3, <1>4 DEF BInv

LEMMA WokenKeeps ==
  ASSUME BInv, NEW c \in Calls, Woken(c)
  PROVE  BInv'
<1>1. /\ at[c] = "wait" /\ got[c] # None /\ at' = [at EXCEPT ![c] = "return"]
      /\ UNCHANGED <<ledger, live, exec, used, done, key, tries, got, pending, sent, cache, post,
                     held>>
  BY DEF Woken, Go, worker, client
<1>2. TypeOK'
  BY <1>1 DEF BInv, TypeOK
<1>3. RowsOK'
  BY <1>1, RowsKept DEF BInv
<1>4. CallsOK'
  BY <1>1 DEF BInv, CallsOK, CallOK, SeesRow, FutureOK, MayWake, TypeOK
<1> QED BY <1>2, <1>3, <1>4 DEF BInv

LEMMA TimeOutKeeps ==
  ASSUME BInv, NEW c \in Calls, TimeOut(c)
  PROVE  BInv'
<1>1. /\ at[c] = "wait" /\ got[c] = None /\ key[c] \in Keys
      /\ pending' = [pending EXCEPT ![key[c]] = None]
      /\ UNCHANGED <<ledger, live, exec, used, done, key, sent, cache, post, held>>
  BY DEF TimeOut, worker, client, BInv, CallsOK, CallOK
<1>2. \/ /\ tries[c] < MaxTries /\ at' = [at EXCEPT ![c] = "lookup"]
         /\ tries' = [tries EXCEPT ![c] = @ + 1] /\ got' = got
      \/ /\ at' = [at EXCEPT ![c] = "return"] /\ got' = [got EXCEPT ![c] = "timeout"]
         /\ tries' = tries
  BY DEF TimeOut, Go
<1>3. TypeOK'
  <2>1. tries' \in [Calls -> 0..MaxTries]
    <3>1. tries[c] \in 0..MaxTries /\ (tries[c] < MaxTries => tries[c] + 1 \in 0..MaxTries)
      BY ToolAssumption DEF BInv, TypeOK
    <3> QED BY <1>2, <3>1 DEF BInv, TypeOK
  <2>2. at' \in [Calls -> {"idle", "lookup", "start", "send", "wait", "return"}]
        /\ got' \in [Calls -> Answers \cup {None}]
    BY <1>2 DEF BInv, TypeOK, Answers
  <2> QED BY <1>1, <2>1, <2>2 DEF BInv, TypeOK
<1>4. RowsOK'
  BY <1>1, RowsKept DEF BInv
<1>5. CallsOK'
  BY <1>1, <1>2, ToolAssumption DEF BInv, CallsOK, CallOK, SeesRow, FutureOK, MayWake, TypeOK
<1> QED BY <1>3, <1>4, <1>5 DEF BInv

\* Steps of a post that neither write nor wake, and end with a post that is all right.
LEMMA PostStepKeeps ==
  ASSUME BInv, NEW p \in Posts, NEW q, post' = [post EXCEPT ![p] = q],
         q.at # "written", PostOK(p)', TypeOK',
         UNCHANGED <<ledger, live, exec, at, key, got, pending, sent, held>>
  PROVE  BInv'
<1>1. RowsOK'
  <2>1. ASSUME NEW r \in Posts PROVE PostOK(r)'
    <3>1. r # p => post'[r] = post[r]
      BY DEF BInv, TypeOK
    <3> QED BY <3>1 DEF BInv, RowsOK, PostOK
  <2> QED BY <2>1 DEF BInv, RowsOK, RowOK
<1>2. CallsOK'
  BY DEF BInv, CallsOK, CallOK, SeesRow, FutureOK, MayWake, TypeOK
<1> QED BY <1>1, <1>2 DEF BInv

LEMMA IdleTyped ==
  Idle \in [at : {"idle", "sent", "read", "written"}, key : Keys \cup {None},
            exec : Nat, result : Results \cup {None}, seen : Results \cup {None}]
BY DEF Idle

LEMMA PostResultKeeps ==
  ASSUME BInv, NEW p \in Posts, PostResult(p)
  PROVE  BInv'
<1>1. PICK e \in sent, result \in Results :
        /\ cache' = IF result = "ok" THEN [cache EXCEPT ![e.key] = result] ELSE cache
        /\ post' = [post EXCEPT ![p] = [at |-> "sent", key |-> e.key, exec |-> e.exec,
                                        result |-> result, seen |-> None]]
  BY DEF PostResult
<1>2. UNCHANGED <<ledger, live, exec, used, done, at, key, tries, got, pending, sent, held>>
  BY DEF PostResult, worker, call
<1>3. e.key \in Keys /\ e.exec \in Nat /\ e.exec # 0
  BY DEF BInv, TypeOK, RowsOK
<1> DEFINE q == [at |-> "sent", key |-> e.key, exec |-> e.exec, result |-> result, seen |-> None]
<1>4. q \in [at : {"idle", "sent", "read", "written"}, key : Keys \cup {None}, exec : Nat,
             result : Results \cup {None}, seen : Results \cup {None}]
  BY <1>3
<1>5. /\ q.at = "sent" /\ q.key = e.key /\ q.exec = e.exec /\ q.result = result
      /\ post' = [post EXCEPT ![p] = q]
  BY <1>1
<1> HIDE DEF q
<1>6. TypeOK'
  BY <1>1, <1>2, <1>3, <1>4, <1>5 DEF BInv, TypeOK
<1>7. PostOK(p)'
  <2>1. post'[p] = q
    BY <1>5 DEF BInv, TypeOK
  <2> QED BY <1>3, <1>5, <2>1 DEF PostOK
<1> QED BY <1>2, <1>5, <1>6, <1>7, PostStepKeeps

\* A post that is lost, refused or of no use leaves nothing behind.
LEMMA PostGoneKeeps ==
  ASSUME BInv, NEW p \in Posts, post' = [post EXCEPT ![p] = Idle],
         UNCHANGED <<ledger, worker, call, pending, client, held>>
  PROVE  BInv'
<1>1. UNCHANGED <<ledger, live, exec, used, done, at, key, tries, got, pending, sent, cache, held>>
  BY DEF worker, call, client
<1>2. TypeOK'
  BY <1>1, IdleTyped DEF BInv, TypeOK
<1>3. PostOK(p)'
  <2>1. post'[p] = Idle
    BY DEF BInv, TypeOK
  <2> QED BY <2>1 DEF PostOK, Idle
<1>4. Idle.at # "written"
  BY DEF Idle
<1> QED BY <1>1, <1>2, <1>3, <1>4, PostStepKeeps

LEMMA PostReadKeeps ==
  ASSUME BInv, NEW p \in Posts, PostRead(p)
  PROVE  BInv'
<1>1. /\ post[p].at = "sent" /\ UNCHANGED <<ledger, worker, call, pending, client, held>>
      /\ post' = [post EXCEPT ![p] =
                    IF ledger[post[p].key].exec = post[p].exec
                    THEN Moved(@, "read", ledger[post[p].key].result)
                    ELSE Idle]
  BY DEF PostRead
<1>2. UNCHANGED <<ledger, live, exec, used, done, at, key, tries, got, pending, sent, cache, held>>
  BY <1>1 DEF worker, call, client
<1>3. CASE ledger[post[p].key].exec = post[p].exec
  <2> DEFINE q == Moved(post[p], "read", ledger[post[p].key].result)
  <2>1. /\ post[p] \in [at : {"idle", "sent", "read", "written"}, key : Keys \cup {None},
                        exec : Nat, result : Results \cup {None}, seen : Results \cup {None}]
        /\ post[p].key \in Keys /\ post[p].exec # 0 /\ post[p].result \in Results
        /\ ledger[post[p].key] \in Row
    BY <1>1 DEF BInv, TypeOK, RowsOK, PostOK
  <2>2. q \in [at : {"idle", "sent", "read", "written"}, key : Keys \cup {None},
               exec : Nat, result : Results \cup {None}, seen : Results \cup {None}]
    BY <2>1 DEF Moved, Row
  <2>3. /\ q.at = "read" /\ q.key = post[p].key /\ q.exec = post[p].exec
        /\ q.result = post[p].result
    BY DEF Moved
  <2>4. post' = [post EXCEPT ![p] = q]
    BY <1>1, <1>3
  <2> HIDE DEF q
  <2>5. TypeOK'
    BY <1>2, <2>2, <2>4 DEF BInv, TypeOK
  <2>6. PostOK(p)'
    <3>1. post'[p] = q
      BY <2>4 DEF BInv, TypeOK
    <3> QED BY <1>2, <1>3, <2>1, <2>3, <3>1 DEF PostOK, Known
  <2> QED BY <1>2, <2>3, <2>4, <2>5, <2>6, PostStepKeeps
<1>4. CASE ledger[post[p].key].exec # post[p].exec
  <2>1. post' = [post EXCEPT ![p] = Idle]
    BY <1>1, <1>4
  <2> QED BY <1>1, <2>1, PostGoneKeeps
<1> QED BY <1>3, <1>4

LEMMA PostWriteKeeps ==
  ASSUME BInv, NEW p \in Posts, PostWrite(p)
  PROVE  BInv'
<1> DEFINE k == post[p].key
           r == post[p].result
           q == Moved(post[p], "written", post[p].seen)
           new == [exec |-> ledger[k].exec, result |-> r]
<1>1. /\ post[p].at = "read"
      /\ ledger' = [ledger EXCEPT ![k] = new]
      /\ held' = [c \in Calls |-> IF key[c] = k THEN held[c] \cup {r} ELSE held[c]]
      /\ post' = [post EXCEPT ![p] = q]
      /\ UNCHANGED <<live, exec, used, done, at, key, tries, got, pending, sent, cache>>
  BY DEF PostWrite, worker, call, client
<1>2. /\ post[p] \in [at : {"idle", "sent", "read", "written"}, key : Keys \cup {None},
                      exec : Nat, result : Results \cup {None}, seen : Results \cup {None}]
      /\ k \in Keys /\ r \in Results /\ post[p].exec # 0
      /\ ledger[k] \in Row /\ Known(ledger[k])
  BY <1>1 DEF BInv, TypeOK, RowsOK, PostOK
<1>3. /\ q \in [at : {"idle", "sent", "read", "written"}, key : Keys \cup {None},
                exec : Nat, result : Results \cup {None}, seen : Results \cup {None}]
      /\ q.at = "written" /\ q.key = k /\ q.result = r /\ q.exec = post[p].exec
  BY <1>2 DEF Moved
<1>4. new \in Row /\ Known(new) /\ new.result = r /\ r # None
  BY <1>2, ToolAssumption DEF Row, Known, Results
<1> HIDE DEF k, r, q, new
<1>5. TypeOK'
  <2>1. held' \in [Calls -> SUBSET Results]
    BY <1>1, <1>2 DEF BInv, TypeOK
  <2> QED BY <1>1, <1>3, <1>4, <2>1 DEF BInv, TypeOK
<1>6. /\ ledger'[k] = new /\ \A j \in Keys : j # k => ledger'[j] = ledger[j]
      /\ post'[p] = q /\ \A o \in Posts : o # p => post'[o] = post[o]
      /\ \A c \in Calls : held[c] \subseteq held'[c] /\ (key[c] = k => r \in held'[c])
  BY <1>1, <1>2 DEF BInv, TypeOK
<1>7. RowsOK'
  <2>1. \A j \in Keys : RowOK(j)'
    BY <1>4, <1>6 DEF BInv, RowsOK, RowOK
  <2>2. ASSUME NEW o \in Posts PROVE PostOK(o)'
    <3>1. CASE o = p
      BY <1>2, <1>3, <1>4, <1>6, <3>1 DEF PostOK
    <3>2. CASE o # p
      BY <1>4, <1>6, <3>2 DEF BInv, RowsOK, PostOK
    <3> QED BY <3>1, <3>2
  <2> QED BY <1>1, <2>1, <2>2 DEF BInv, RowsOK
<1>8. CallsOK'
  <2>1. ASSUME NEW c \in Calls PROVE CallOK(c)' /\ SeesRow(c)'
    <3>1. at[c] = "idle" => key[c] # k
      BY <1>2, ToolAssumption DEF BInv, CallsOK, CallOK
    <3>2. CallOK(c)'
      BY <1>1, <3>1 DEF BInv, CallsOK, CallOK
    <3>3. SeesRow(c)'
      BY <1>1, <1>4, <1>6 DEF BInv, CallsOK, SeesRow
    <3> QED BY <3>2, <3>3
  <2>2. \A j \in Keys : FutureOK(j)'
    BY <1>1 DEF BInv, CallsOK, FutureOK
  <2>3. ASSUME NEW o \in Posts, NEW c \in Calls PROVE MayWake(o, c)'
    <3>1. CASE o = p
      BY <1>1, <1>3, <1>6, <3>1 DEF MayWake
    <3>2. CASE o # p
      BY <1>1, <1>6, <3>2 DEF BInv, CallsOK, MayWake
    <3> QED BY <3>1, <3>2
  <2> QED BY <2>1, <2>2, <2>3 DEF CallsOK
<1> QED BY <1>5, <1>7, <1>8 DEF BInv

LEMMA PostResolveKeeps ==
  ASSUME BInv, NEW p \in Posts, PostResolve(p)
  PROVE  BInv'
<1> DEFINE k == post[p].key
           c == pending[k]
<1>1. /\ post[p].at = "written" /\ post' = [post EXCEPT ![p] = Idle]
      /\ UNCHANGED <<ledger, live, exec, used, done, at, key, tries, sent, cache, held>>
  BY DEF PostResolve, worker, client
<1>2. k \in Keys /\ post[p].result \in Results
  BY <1>1 DEF BInv, RowsOK, PostOK
<1>3. CASE live /\ c # None
  <2>1. c \in Calls /\ at[c] = "wait" /\ key[c] = k /\ got[c] = None
    BY <1>2, <1>3 DEF BInv, CallsOK, FutureOK
  <2>2. /\ got' = [got EXCEPT ![c] = post[p].result]
        /\ pending' = [pending EXCEPT ![k] = None]
    BY <1>3, <2>1 DEF PostResolve
  <2>3. TypeOK'
    BY <1>1, <1>2, <2>1, <2>2, IdleTyped DEF BInv, TypeOK, Answers
  <2>4. post'[p] = Idle /\ \A o \in Posts : o # p => post'[o] = post[o]
    BY <1>1 DEF BInv, TypeOK
  <2>5. RowsOK'
    BY <1>1, <2>4 DEF BInv, RowsOK, RowOK, PostOK, Idle
  <2>6. /\ \A d \in Calls : d # c => got'[d] = got[d]
        /\ pending'[k] = None /\ \A j \in Keys : j # k => pending'[j] = pending[j]
    BY <1>2, <2>1, <2>2 DEF BInv, TypeOK
  <2>7. CallsOK'
    <3>1. \A d \in Calls : CallOK(d)' /\ SeesRow(d)'
      BY <1>1, <2>1, <2>6 DEF BInv, CallsOK, CallOK, SeesRow
    <3>2. ASSUME NEW j \in Keys PROVE FutureOK(j)'
      <4>1. CASE j = k
        BY <2>6, <4>1 DEF FutureOK
      <4>2. CASE j # k
        <5>1. pending[j] # c \/ pending[j] = None
          BY <2>1, <4>2 DEF BInv, CallsOK, FutureOK
        <5> QED BY <1>1, <2>6, <4>2, <5>1 DEF BInv, CallsOK, FutureOK
      <4> QED BY <4>1, <4>2
    <3>3. \A o \in Posts, d \in Calls : MayWake(o, d)'
      BY <1>1, <2>4 DEF BInv, CallsOK, MayWake, Idle
    <3> QED BY <3>1, <3>2, <3>3 DEF CallsOK
  <2> QED BY <2>3, <2>5, <2>7 DEF BInv
<1>4. CASE ~(live /\ c # None)
  <2>1. got' = got /\ pending' = pending
    BY <1>4 DEF PostResolve
  <2> QED BY <1>1, <2>1, PostGoneKeeps DEF worker, call, client
<1> QED BY <1>3, <1>4

LEMMA BridgeStep == BInv /\ [Next]_vars => BInv'
<1> SUFFICES ASSUME BInv, [Next]_vars PROVE BInv'
  OBVIOUS
<1>1. ASSUME NEW c \in Calls, CallTool(c) \/ Proceed(c) PROVE BInv'
  BY <1>1, CallToolKeeps, LookupKeeps, StartKeeps, SendKeeps, WokenKeeps, TimeOutKeeps,
     ReturnKeeps DEF Proceed
<1>2. ASSUME NEW p \in Posts, PostResult(p) \/ PostLost(p) \/ Handle(p) PROVE BInv'
  <2>1. CASE PostLost(p) \/ PostKnown(p)
    BY <2>1, PostGoneKeeps DEF PostLost, PostKnown
  <2> QED BY <1>2, <2>1, PostResultKeeps, PostReadKeeps, PostWriteKeeps, PostResolveKeeps
       DEF Handle
<1>3. CASE UNCHANGED vars
  BY <1>3 DEF vars, worker, call, client, BInv, TypeOK, RowsOK, RowOK, PostOK, Known,
     CallsOK, CallOK, SeesRow, FutureOK, MayWake
<1> QED BY <1>1, <1>2, <1>3, ExecuteAgainKeeps, CloseKeeps DEF Next

-----------------------------------------------------------------------------
(* Every step is a step of the promise, or none *)

LEMMA PromiseHolds == Init => Promise!Init
BY DEF Init, Promise!Init, NoRow

LEMMA CallKeepsPromise ==
  ASSUME BInv, NEW c \in Calls, CallTool(c) \/ Proceed(c)
  PROVE  [Promise!Next]_(Promise!vars)
<1>1. CASE CallTool(c)
  <2>1. PICK k \in Keys : key' = [key EXCEPT ![c] = k]
                          /\ held' = [held EXCEPT ![c] = {ledger[k].result} \ {None}]
    BY <1>1 DEF CallTool
  <2>2. key[c] = None /\ UNCHANGED <<ledger, got>>
    BY <1>1 DEF CallTool, BInv, CallsOK, CallOK
  <2>3. Promise!Invoke(c, k)
    BY <2>1, <2>2 DEF Promise!Invoke
  <2> QED BY <2>3 DEF Promise!Next
<1>2. CASE Return(c)
  <2>1. /\ key' = [key EXCEPT ![c] = None] /\ got' = [got EXCEPT ![c] = None]
        /\ held' = [held EXCEPT ![c] = {}] /\ UNCHANGED ledger
    BY <1>2 DEF Return
  <2>2. Promise!Forget({c})
    BY <2>1 DEF Promise!Forget, BInv, TypeOK
  <2> QED BY <2>2 DEF Promise!Next
<1>3. CASE Start(c)
  <2>1. /\ key[c] \in Keys
        /\ ledger' = [ledger EXCEPT ![key[c]] =
                        IF Known(@) THEN @ ELSE [exec |-> exec, result |-> None]]
        /\ UNCHANGED <<key, held, got>>
    BY <1>3 DEF Start, call, BInv, CallsOK, CallOK
  <2>2. \A k \in Keys : ledger'[k].result = ledger[k].result
    BY <2>1 DEF BInv, TypeOK, RowsOK, RowOK
  <2> QED BY <2>1, <2>2 DEF Promise!vars
<1>4. CASE Lookup(c) \/ TimeOut(c)
  <2>1. key[c] \in Keys /\ got[c] = None /\ key[c] # None
    BY <1>4, ToolAssumption DEF Lookup, TimeOut, BInv, CallsOK, CallOK
  <2>2. UNCHANGED <<ledger, key, held>>
    BY <1>4 DEF Lookup, TimeOut
  <2>3. \/ got' = got
        \/ \E r \in held[c] \cup {"timeout"} : got' = [got EXCEPT ![c] = r]
    BY <1>4, <2>1 DEF Lookup, TimeOut, BInv, CallsOK, SeesRow
  <2>4. CASE got' = got
    BY <2>2, <2>4 DEF Promise!vars
  <2>5. CASE \E r \in held[c] \cup {"timeout"} : got' = [got EXCEPT ![c] = r]
    <3>1. PICK r \in held[c] \cup {"timeout"} : got' = [got EXCEPT ![c] = r]
      BY <2>5
    <3>2. Promise!Reply(c, r)
      BY <2>1, <2>2, <3>1 DEF Promise!Reply
    <3>3. r \in Results \cup {"timeout"}
      BY DEF BInv, TypeOK
    <3> QED BY <3>2, <3>3 DEF Promise!Next
  <2> QED BY <2>3, <2>4, <2>5
<1>5. CASE Send(c) \/ Woken(c)
  <2>1. UNCHANGED <<ledger, key, held, got>>
    BY <1>5 DEF Send, Woken
  <2> QED BY <2>1 DEF Promise!vars
<1> QED BY <1>1, <1>2, <1>3, <1>4, <1>5 DEF Proceed

LEMMA PostKeepsPromise ==
  ASSUME BInv, NEW p \in Posts, PostResult(p) \/ PostLost(p) \/ Handle(p)
  PROVE  [Promise!Next]_(Promise!vars)
<1>1. CASE PostResult(p) \/ PostLost(p) \/ PostRead(p) \/ PostKnown(p)
  <2>1. UNCHANGED <<ledger, key, held, got>>
    BY <1>1 DEF PostResult, PostLost, PostRead, PostKnown, call
  <2> QED BY <2>1 DEF Promise!vars
<1>2. CASE PostWrite(p)
  <2>1. PICK k \in Keys, r \in Results : k = post[p].key /\ r = post[p].result
    BY <1>2 DEF PostWrite, BInv, RowsOK, PostOK
  <2>2. /\ ledger' = [ledger EXCEPT ![k] = [exec |-> @.exec, result |-> r]]
        /\ held' = [c \in Calls |-> IF key[c] = k THEN held[c] \cup {r} ELSE held[c]]
        /\ UNCHANGED <<key, got>>
    BY <1>2, <2>1 DEF PostWrite, call
  <2>3. [j \in Keys |-> ledger'[j].result] = [[j \in Keys |-> ledger[j].result] EXCEPT ![k] = r]
    <3>1. ledger'[k].result = r /\ \A j \in Keys : j # k => ledger'[j] = ledger[j]
      BY <2>2 DEF BInv, TypeOK
    <3> QED BY <3>1
  <2>4. Promise!Record(k, r)
    BY <2>2, <2>3 DEF Promise!Record
  <2> QED BY <2>4 DEF Promise!Next
<1>3. CASE PostResolve(p)
  <2> DEFINE c == pending[post[p].key]
  <2>1. UNCHANGED <<ledger, key, held>> /\ post[p].at = "written"
    BY <1>3 DEF PostResolve
  <2>2. CASE live /\ c # None
    <3>1. /\ c \in Calls /\ got[c] = None /\ key[c] = post[p].key /\ at[c] = "wait"
          /\ key[c] # None
      BY <2>1, <2>2, ToolAssumption DEF BInv, RowsOK, PostOK, CallsOK, FutureOK
    <3>2. post[p].result \in held[c] /\ post[p].result \in Results
      BY <2>1, <3>1 DEF BInv, RowsOK, PostOK, CallsOK, MayWake
    <3>3. got' = [got EXCEPT ![c] = post[p].result]
      BY <1>3, <2>2, <3>1 DEF PostResolve
    <3>4. Promise!Reply(c, post[p].result)
      BY <2>1, <3>1, <3>2, <3>3 DEF Promise!Reply
    <3> QED BY <3>1, <3>2, <3>4 DEF Promise!Next
  <2>3. CASE ~(live /\ c # None)
    <3>1. got' = got
      BY <1>3, <2>3 DEF PostResolve
    <3> QED BY <2>1, <3>1 DEF Promise!vars
  <2> QED BY <2>2, <2>3
<1> QED BY <1>1, <1>2, <1>3 DEF Handle

LEMMA BridgeKeepsPromise == BInv /\ [Next]_vars => [Promise!Next]_(Promise!vars)
<1> SUFFICES ASSUME BInv, [Next]_vars PROVE [Promise!Next]_(Promise!vars)
  OBVIOUS
<1>1. CASE ExecuteAgain \/ UNCHANGED vars
  <2>1. UNCHANGED <<ledger, key, held, got>>
    BY <1>1 DEF ExecuteAgain, vars, call
  <2> QED BY <2>1 DEF Promise!vars
<1>2. CASE Close
  <2>1. Promise!Forget(Calls)
    BY <1>2 DEF Close, Promise!Forget
  <2> QED BY <2>1 DEF Promise!Next
<1> QED BY <1>1, <1>2, CallKeepsPromise, PostKeepsPromise DEF Next

-----------------------------------------------------------------------------

\* The invariant of the bridge and the ledger.
THEOREM BridgeInvariance == Spec => []BInv
<1>1. BInv /\ [Next]_vars => BInv'
  BY BridgeStep
<1> QED BY <1>1, BridgeInit, PTL DEF Spec

\* Calls, futures, posts and rows keep their types.
THEOREM BridgeTypes == Spec => []TypeOK
<1>1. BInv => TypeOK
  BY DEF BInv
<1> QED BY <1>1, BridgeInvariance, PTL

\* However calls, retries, posts and executions overlap, the ledger behaves like one
\* register for each key, and a call returns what its register held while it ran.
THEOREM LedgerKeepsPromise == Spec => KeepsPromise
<1>1. Init => Promise!Init
  BY PromiseHolds
<1>2. BInv /\ [Next]_vars => [Promise!Next]_(Promise!vars)
  BY BridgeKeepsPromise
<1>3. Spec => Promise!Init /\ [][Promise!Next]_(Promise!vars)
  BY <1>1, <1>2, BridgeInvariance, PTL DEF Spec
<1> QED BY <1>3 DEF KeepsPromise, Promise!Spec
=============================================================================
