-------------------------- MODULE EventStreamProofs --------------------------
(***************************************************************************)
(* The client of a run is told the truth, and in order: the invariant of   *)
(* EventStream, and its proof.                                             *)
(***************************************************************************)
EXTENDS EventStream, TLAPS

\* The ends of a stream that tell of the run; an error tells of the request.
Verdicts == {"paused", "done"}
Verdict  == IF CanResume THEN "paused" ELSE "done"

\* The calls of a worker speak while it works, and the graph has this to say.
GraphOut ==
  CASE pc \in {"opening", "work", "finish", "failed", "abandoned"} ->
         {<<>>, <<"update">>, <<"update", "update">>}
    [] pc = "error" -> {<<>>, <<"error">>}
    [] pc = "last"  -> {<<"interrupt", Verdict>>, <<Verdict>>, <<>>}
    [] OTHER        -> {<<>>}

CallOut == {<<>>, <<"tool">>, <<"tool", "tool">>, <<"tool", "tool", "tool">>,
            <<"tool", "tool", "tool", "tool">>}

Voices ==
  /\ co[Graph].out \in GraphOut /\ ~co[Graph].asks
  /\ \A c \in Calls : co[c].out \in CallOut /\ (pc # "work" => co[c] = Silent)
  /\ \A c \in Coroutines : co[c].out = <<>> => co[c].num = 0

\* Between two streams nothing is left of the one before.
Idle ==
  /\ gen = "none" <=> pc = "over"
  /\ pc \in {"over", "create", "resume"} => queue = <<>>
  /\ pc \in {"create", "resume"} => client.last = "none"
  /\ pc = "create" => bridge.rev = 0

\* Where the request is says how far the run is.
Progressed ==
  /\ pc = "abandoned" => run.status = "cancelled" /\ run.rev >= 1
  /\ pc = "failed" => run.status = "over"
  /\ pc = "finish" => run.status \in {"waiting", "over"}
  /\ pc = "last"   => run.status # "running"
  /\ run.status = "none" => run.rev = 0 /\ pc \in {"over", "create"}
  /\ pc = "create" => run.status = "none"

\* A bridge that does not know the repository sends one frame at most, the error of a
\* resume, and the run has sent frames before.
Uncounted ==
  /\ ~bridge.counted =>
       /\ pc \in {"over", "create", "resume", "error"}
       /\ pc \in {"create", "resume"} => bridge.seq = 0
       /\ co[Graph].out # <<>> => bridge.seq = 0 /\ queue = <<>>
       /\ co[Graph].num = 0
       /\ pc = "error" => seq >= 1
       /\ Len(queue) <= 1
  /\ pc \in {"resume", "work"} \/ run.status = "waiting" => seq >= 1
  /\ pc = "opening" /\ co[Graph].out = <<>> => seq >= 1
  /\ \A i \in DOMAIN queue : queue[i].counted = bridge.counted

\* The number that is not yet put is the last one.
Given == \E c \in Coroutines : co[c].num # 0

Numbers ==
  /\ \A c \in Coroutines : co[c].num \in {0, seq}
  /\ \A c, d \in Coroutines : co[c].num # 0 /\ co[d].num # 0 => c = d
  /\ \A i \in DOMAIN queue :
       queue[i].seq \in 1..seq /\ (Given => queue[i].seq < seq)
  /\ \A n \in client.seen : n <= seq /\ (Given => n < seq)

\* Nothing follows a verdict, and it is what the run deserves.
Quiet == pc = "last" /\ co[Graph].out = <<>>

Closed ==
  /\ \A i \in DOMAIN queue : queue[i].kind \in Verdicts =>
       i = Len(queue) /\ Quiet /\ queue[i].kind = Verdict
  /\ client.last \in Verdicts /\ gen # "none" =>
       queue = <<>> /\ Quiet /\ client.last = Verdict

\* What the client shows once it has read the queue.
Shows(r, q, rev) ==
  \/ \E j \in DOMAIN q : /\ q[j].kind = "update" /\ q[j].rev = rev
                         /\ \A k \in DOMAIN q : k > j => q[k].kind # "update"
  \/ r = rev /\ \A k \in DOMAIN q : q[k].kind # "update"

Shown ==
  /\ pc \in {"opening", "work", "finish", "failed"} => bridge.rev = run.rev
  /\ pc \in {"opening", "work", "finish", "failed"} /\ co[Graph].out = <<>> =>
       Shows(client.rev, queue, run.rev)
  /\ pc = "last" => run.status = "cancelled" \/ Shows(client.rev, queue, run.rev)

IInv ==
  /\ TypeOK
  /\ Voices /\ Idle /\ Progressed /\ Uncounted /\ Numbers /\ Closed /\ Shown
  /\ FramesInOrder /\ LastFrameIsTrue /\ ClientIsUpToDate

-----------------------------------------------------------------------------
(* The frames of a queue, and what a coroutine has to say *)

Voice == [out : Seq(Kind), num : Nat, asks : BOOLEAN]

\* What can be said is a sequence of kinds of events.
LEMMA Sayable ==
  /\ GraphOut \subseteq Seq(Kind) /\ CallOut \subseteq Seq(Kind)
  /\ Updates \subseteq Seq(Kind)
<1> DEFINE K == Kind
<1>1. {"update", "tool", "interrupt", "paused", "done", "error"} \subseteq K  BY DEF Kind, Ends
<1> HIDE DEF K
<1>2. /\ <<>> \in Seq(K) /\ <<"update">> \in Seq(K) /\ <<"update", "update">> \in Seq(K)
      /\ <<"error">> \in Seq(K)
      /\ <<"interrupt", "paused">> \in Seq(K) /\ <<"interrupt", "done">> \in Seq(K)
      /\ <<"paused">> \in Seq(K) /\ <<"done">> \in Seq(K)
  BY <1>1
<1>3. /\ <<"tool">> \in Seq(K) /\ <<"tool", "tool">> \in Seq(K)
      /\ <<"tool", "tool", "tool">> \in Seq(K)
      /\ <<"tool", "tool", "tool", "tool">> \in Seq(K)
  BY <1>1
<1> QED  BY <1>2, <1>3 DEF GraphOut, CallOut, Updates, Verdict, K

LEMMA UpdatesSpeak == \A kinds \in Updates : kinds # <<>>
<1>1. Len(<<>>) = 0 /\ Len(<<"update">>) = 1 /\ Len(<<"update", "update">>) = 2  OBVIOUS
<1> QED  BY <1>1 DEF Updates

\* Says changes what one coroutine has to say.
LEMMA Spoken ==
  ASSUME TypeOK, NEW c \in Coroutines, NEW kinds \in Seq(Kind), Says(c, kinds)
  PROVE  /\ co' \in [Coroutines -> [out : Seq(Kind), num : 0..seq, asks : BOOLEAN]]
         /\ co'[c].out = kinds /\ co'[c].num = co[c].num /\ co'[c].asks = co[c].asks
         /\ \A d \in Coroutines : d # c => co'[d] = co[d]
  BY DEF TypeOK, Says

\* A frame is appended to the queue.
LEMMA Appended ==
  ASSUME NEW q \in Seq(Frame), NEW f \in Frame
  PROVE  /\ Append(q, f) \in Seq(Frame)
         /\ Len(Append(q, f)) = Len(q) + 1
         /\ DOMAIN Append(q, f) = 1..(Len(q) + 1) /\ DOMAIN q = 1..Len(q)
         /\ \A i \in DOMAIN q : Append(q, f)[i] = q[i]
         /\ Append(q, f)[Len(q) + 1] = f
  OBVIOUS

\* A frame is taken from it.
LEMMA Taken ==
  ASSUME NEW q \in Seq(Frame), q # <<>>
  PROVE  /\ Tail(q) \in Seq(Frame) /\ Head(q) = q[1] /\ q[1] \in Frame
         /\ Len(q) \in Nat /\ Len(q) >= 1 /\ Len(Tail(q)) = Len(q) - 1
         /\ DOMAIN q = 1..Len(q) /\ DOMAIN Tail(q) = 1..(Len(q) - 1)
         /\ \A i \in DOMAIN Tail(q) : Tail(q)[i] = q[i + 1] /\ i + 1 \in DOMAIN q
  OBVIOUS

\* A new update is what is shown; another frame changes nothing.
LEMMA ShowsAppended ==
  ASSUME NEW q \in Seq(Frame), NEW f \in Frame, NEW r, NEW rev
  PROVE  /\ f.kind = "update" /\ f.rev = rev => Shows(r, Append(q, f), rev)
         /\ f.kind # "update" /\ Shows(r, q, rev) => Shows(r, Append(q, f), rev)
<1> DEFINE a == Append(q, f)
<1>1. /\ Len(q) \in Nat /\ DOMAIN a = 1..(Len(q) + 1) /\ DOMAIN q = 1..Len(q)
      /\ \A i \in DOMAIN q : a[i] = q[i]
      /\ a[Len(q) + 1] = f
  BY Appended
<1> HIDE DEF a
<1>2. ASSUME f.kind = "update", f.rev = rev  PROVE Shows(r, a, rev)
  <2>1. Len(q) + 1 \in DOMAIN a /\ \A k \in DOMAIN a : ~(k > Len(q) + 1)  BY <1>1
  <2> QED  BY <1>1, <1>2, <2>1 DEF Shows
<1>3. ASSUME f.kind # "update", Shows(r, q, rev)  PROVE Shows(r, a, rev)
  <2>1. \A k \in DOMAIN a : k \in DOMAIN q \/ k = Len(q) + 1  BY <1>1
  <2>2. \A k \in DOMAIN q : k \in DOMAIN a  BY <1>1
  <2> QED  BY <1>1, <1>3, <2>1, <2>2 DEF Shows
<1> QED  BY <1>2, <1>3 DEF a

\* Reading a frame does not change what the queue comes to.
LEMMA ShowsTaken ==
  ASSUME NEW q \in Seq(Frame), q # <<>>, NEW r, NEW rev, Shows(r, q, rev)
  PROVE  Shows(IF q[1].kind = "update" THEN q[1].rev ELSE r, Tail(q), rev)
<1> DEFINE t == Tail(q)
           s == IF q[1].kind = "update" THEN q[1].rev ELSE r
<1>1. /\ Len(q) \in Nat /\ Len(q) >= 1
      /\ DOMAIN q = 1..Len(q) /\ DOMAIN t = 1..(Len(q) - 1)
      /\ \A i \in DOMAIN t : t[i] = q[i + 1] /\ i + 1 \in DOMAIN q
  BY Taken
<1> HIDE DEF t
<1>2. \A k \in DOMAIN q : k # 1 => k - 1 \in DOMAIN t /\ t[k - 1] = q[k]  BY <1>1
<1>3. ASSUME \E j \in DOMAIN q : /\ q[j].kind = "update" /\ q[j].rev = rev
                                 /\ \A k \in DOMAIN q : k > j => q[k].kind # "update"
      PROVE  Shows(s, t, rev)
  <2>1. PICK j \in DOMAIN q : /\ q[j].kind = "update" /\ q[j].rev = rev
                              /\ \A k \in DOMAIN q : k > j => q[k].kind # "update"
    BY <1>3
  <2>2. CASE j = 1
    <3>1. \A k \in DOMAIN t : t[k].kind # "update"
      <4> TAKE k \in DOMAIN t
      <4>1. k + 1 \in DOMAIN q /\ k + 1 > j /\ t[k] = q[k + 1]  BY <1>1, <2>2
      <4> QED  BY <2>1, <4>1
    <3> QED  BY <2>1, <2>2, <3>1 DEF Shows
  <2>3. CASE j # 1
    <3>1. PICK m \in DOMAIN t : m = j - 1 /\ t[m] = q[j]  BY <1>2, <2>3
    <3>2. \A k \in DOMAIN t : k > m => t[k].kind # "update"
      <4> SUFFICES ASSUME NEW k \in DOMAIN t, k > m  PROVE t[k].kind # "update"
        OBVIOUS
      <4>1. k + 1 \in DOMAIN q /\ k + 1 > j /\ t[k] = q[k + 1]  BY <1>1, <3>1
      <4> QED  BY <2>1, <4>1
    <3> QED  BY <2>1, <3>1, <3>2 DEF Shows
  <2> QED  BY <2>2, <2>3
<1>4. ASSUME r = rev, \A k \in DOMAIN q : q[k].kind # "update"
      PROVE  Shows(s, t, rev)
  <2>1. 1 \in DOMAIN q  BY <1>1
  <2>2. \A k \in DOMAIN t : t[k].kind # "update"  BY <1>1, <1>4
  <2> QED  BY <1>4, <2>1, <2>2 DEF Shows
<1> QED  BY <1>3, <1>4 DEF Shows, t


-----------------------------------------------------------------------------
(* Who may speak *)

\* Nobody has anything to say.
AllSilent == \A c \in Coroutines : co[c].out = <<>> /\ co[c].num = 0 /\ ~co[c].asks

LEMMA SilentOne == Silent.out = <<>> /\ Silent.num = 0 /\ ~Silent.asks
  BY DEF Silent

LEMMA StillSilent ==
  ASSUME IInv, \A c \in Coroutines : co[c].out = <<>> /\ ~co[c].asks
  PROVE  AllSilent
  BY DEF IInv, Voices, AllSilent

\* Only a worker at work has calls that speak.
LEMMA GraphAlone ==
  ASSUME IInv, pc # "work", co[Graph].out = <<>>
  PROVE  AllSilent
  BY EventAssumption, SilentOne DEF IInv, Voices, AllSilent, Coroutines

\* The graph alone has something to say, kinds.
SpeaksAlone(kinds) ==
  /\ co' \in [Coroutines -> [out : Seq(Kind), num : 0..seq, asks : BOOLEAN]]
  /\ co'[Graph].out = kinds /\ co'[Graph].num = 0 /\ ~co'[Graph].asks
  /\ \A c \in Calls : co'[c] = Silent

LEMMA GraphSpeaks ==
  ASSUME IInv, AllSilent, NEW kinds \in Seq(Kind), Says(Graph, kinds)
  PROVE  SpeaksAlone(kinds)
<1>1. Graph \in Coroutines /\ \A c \in Calls : c \in Coroutines /\ c # Graph
  BY EventAssumption DEF Coroutines
<1>2. /\ co' \in [Coroutines -> [out : Seq(Kind), num : 0..seq, asks : BOOLEAN]]
      /\ co'[Graph].out = kinds /\ co'[Graph].num = co[Graph].num
      /\ co'[Graph].asks = co[Graph].asks
      /\ \A d \in Coroutines : d # Graph => co'[d] = co[d]
  BY <1>1, Spoken DEF IInv
<1>3. ASSUME NEW c \in Calls  PROVE co'[c] = Silent
  <2>1. co[c] \in [out : Seq(Kind), num : 0..seq, asks : BOOLEAN]
    BY <1>1 DEF IInv, TypeOK
  <2>2. co[c].out = <<>> /\ co[c].num = 0 /\ co[c].asks = FALSE
    BY <1>1, <2>1 DEF AllSilent
  <2> QED  BY <1>1, <1>2, <2>1, <2>2 DEF Silent
<1> QED  BY <1>1, <1>2, <1>3 DEF SpeaksAlone, AllSilent

\* Then no number is given, and the calls are as they may be.
LEMMA AloneVoices ==
  ASSUME EventAssumption, NEW kinds, SpeaksAlone(kinds), kinds \in GraphOut'
  PROVE  Voices' /\ ~Given' /\ \A c \in Coroutines : co'[c].num = 0
<1>1. \A c \in Calls : co'[c].out = <<>> /\ co'[c].num = 0 /\ ~co'[c].asks
  BY SilentOne DEF SpeaksAlone
<1>2. \A c \in Coroutines : co'[c].num = 0
  BY <1>1 DEF SpeaksAlone, Coroutines
<1> QED  BY <1>1, <1>2 DEF SpeaksAlone, Voices, Given, CallOut

-----------------------------------------------------------------------------
(* The engine saves the run and tells of it *)

LEMMA TellInv ==
  ASSUME IInv, AllSilent,
         NEW new \in [status : Status, asked : BOOLEAN, open : BOOLEAN, rev : Nat],
         NEW kinds \in Updates, NEW place, SaveAndTell(new, kinds, place),
         new.rev = run.rev, new.status # "none",
         \/ pc = "resume" /\ place = "opening"
         \/ pc = "resume" /\ place = "abandoned" /\ new.status = "cancelled"
         \/ pc \in {"opening", "work"} /\ place = "work"
         \/ pc \in {"opening", "work"} /\ place = "finish" /\ new.status \in {"waiting", "over"}
         \/ pc = "failing" /\ place = "failed" /\ new.status = "over",
         new.status = "waiting" => pc # "failing"
  PROVE  IInv'
<1> USE EventAssumption
<1> DEFINE rev == run.rev + 1
<1>1. /\ run' = [new EXCEPT !.rev = @ + 1] /\ pc' = place
      /\ bridge' = [bridge EXCEPT !.counted = TRUE, !.rev = new.rev + 1]
      /\ Says(Graph, kinds)
      /\ UNCHANGED <<seq, queue, gen, client>>
  BY DEF SaveAndTell
<1>2. SpeaksAlone(kinds)  BY <1>1, GraphSpeaks, Sayable
<1> run.rev \in Nat  BY DEF IInv, TypeOK
<1>3. /\ run' \in [status : Status, asked : BOOLEAN, open : BOOLEAN, rev : Nat]
      /\ run'.status = new.status /\ run'.rev = rev
  BY <1>1
<1>4. /\ bridge' \in [counted : BOOLEAN, seq : Nat, rev : Nat]
      /\ bridge'.counted /\ bridge'.rev = rev
  BY <1>1, <1>3 DEF IInv, TypeOK
<1>5. pc' \in {"opening", "abandoned", "work", "finish", "failed"} /\ kinds \in GraphOut'
  BY <1>1 DEF GraphOut, Updates
<1>6. Voices' /\ ~Given' /\ \A c \in Coroutines : co'[c].num = 0
  BY <1>2, <1>5, AloneVoices
<1>7. TypeOK'
  BY <1>1, <1>2, <1>3, <1>4, <1>5 DEF IInv, TypeOK, SpeaksAlone
<1>8. Idle' /\ Progressed'
  BY <1>1, <1>3 DEF IInv, Idle, Progressed
<1>9. \A i \in DOMAIN queue : queue[i].counted = TRUE
  BY <1>1 DEF IInv, Uncounted, Idle
<1>10. Uncounted'
  <2>1. pc \in {"resume", "work", "opening"} => seq >= 1
    BY DEF IInv, Uncounted, AllSilent, Coroutines
  <2>2. co'[Graph].out # <<>>  BY <1>2, UpdatesSpeak DEF SpeaksAlone
  <2>3. pc' = "work" \/ run'.status = "waiting" => pc \in {"resume", "work", "opening"}
    BY <1>1, <1>3
  <2>4. \A i \in DOMAIN queue' : queue'[i].counted = bridge'.counted
    BY <1>1, <1>4, <1>9
  <2> QED  BY <1>1, <1>4, <1>5, <2>1, <2>2, <2>3, <2>4 DEF Uncounted
<1>11. Numbers'
  BY <1>1, <1>6 DEF IInv, Numbers
<1>12. Closed'
  BY <1>1, <1>5 DEF IInv, Idle, Closed, Quiet
<1>13. Shown'
  <2>1. co'[Graph].out # <<>>  BY <1>2, UpdatesSpeak DEF SpeaksAlone
  <2> QED  BY <1>3, <1>4, <1>5, <2>1 DEF Shown
<1>14. FramesInOrder'
  BY <1>1 DEF IInv, FramesInOrder
<1>15. LastFrameIsTrue' /\ ClientIsUpToDate'
  BY <1>1 DEF IInv, Idle, LastFrameIsTrue, ClientIsUpToDate
<1> QED  BY <1>6, <1>7, <1>8, <1>10, <1>11, <1>12, <1>13, <1>14, <1>15 DEF IInv

\* ResumeRun: the question gets its answer, or is abandoned with the run.
LEMMA ResumeRunInv ==
  ASSUME IInv, ResumeRun
  PROVE  IInv'
<1>1. AllSilent
  BY GraphAlone DEF IInv, Voices, GraphOut, ResumeRun
<1>2. run \in [status : Status, asked : BOOLEAN, open : BOOLEAN, rev : Nat]
  BY DEF IInv, TypeOK
<1>3. <<"update">> \in Updates  BY DEF Updates
<1>4. CASE SaveAndTell([run EXCEPT !.status = "running", !.asked = FALSE, !.open = FALSE],
                       <<"update">>, "opening")
  <2> DEFINE new == [run EXCEPT !.status = "running", !.asked = FALSE, !.open = FALSE]
  <2>1. /\ new \in [status : Status, asked : BOOLEAN, open : BOOLEAN, rev : Nat]
        /\ new.rev = run.rev /\ new.status = "running"
    BY <1>2 DEF Status
  <2>2. SaveAndTell(new, <<"update">>, "opening")  BY <1>4
  <2> HIDE DEF new
  <2> QED  BY <1>1, <1>3, <2>1, <2>2, TellInv DEF ResumeRun
<1>5. CASE SaveAndTell([run EXCEPT !.status = "cancelled", !.asked = FALSE],
                       <<"update">>, "abandoned")
  <2> DEFINE new == [run EXCEPT !.status = "cancelled", !.asked = FALSE]
  <2>1. /\ new \in [status : Status, asked : BOOLEAN, open : BOOLEAN, rev : Nat]
        /\ new.rev = run.rev /\ new.status = "cancelled"
    BY <1>2 DEF Status
  <2>2. SaveAndTell(new, <<"update">>, "abandoned")  BY <1>5
  <2> HIDE DEF new
  <2> QED  BY <1>1, <1>3, <2>1, <2>2, TellInv DEF ResumeRun
<1> QED  BY <1>4, <1>5 DEF ResumeRun

LEMMA AtNodeSilent ==
  ASSUME IInv, AtNode
  PROVE  AllSilent /\ pc \in {"opening", "work"}
  BY StillSilent DEF AtNode, Still

LEMMA WorksInv ==
  ASSUME IInv, Works
  PROVE  IInv'
<1> DEFINE new == [run EXCEPT !.status = "running", !.asked = FALSE]
<1>1. PICK kinds \in Updates : SaveAndTell(new, kinds, "work")  BY DEF Works
<1>2. /\ new \in [status : Status, asked : BOOLEAN, open : BOOLEAN, rev : Nat]
      /\ new.rev = run.rev /\ new.status = "running"
  BY DEF IInv, TypeOK, Status
<1> HIDE DEF new
<1> QED  BY <1>1, <1>2, AtNodeSilent, TellInv DEF Works

LEMMA AsksInv ==
  ASSUME IInv, Asks
  PROVE  IInv'
<1> DEFINE new == [run EXCEPT !.status = "waiting", !.asked = TRUE, !.open = TRUE]
<1>1. SaveAndTell(new, <<"update">>, "work") /\ <<"update">> \in Updates
  BY DEF Asks, Updates
<1>2. /\ new \in [status : Status, asked : BOOLEAN, open : BOOLEAN, rev : Nat]
      /\ new.rev = run.rev /\ new.status = "waiting"
  BY DEF IInv, TypeOK, Status
<1> HIDE DEF new
<1> QED  BY <1>1, <1>2, AtNodeSilent, TellInv DEF Asks

LEMMA PausesInv ==
  ASSUME IInv, Pauses
  PROVE  IInv'
<1> DEFINE new == [run EXCEPT !.status = "waiting"]
<1>1. SaveAndTell(new, <<"update">>, "finish") /\ <<"update">> \in Updates
  BY DEF Pauses, Updates
<1>2. /\ new \in [status : Status, asked : BOOLEAN, open : BOOLEAN, rev : Nat]
      /\ new.rev = run.rev /\ new.status = "waiting"
  BY DEF IInv, TypeOK, Status
<1> HIDE DEF new
<1> QED  BY <1>1, <1>2, AtNodeSilent, TellInv DEF Pauses

LEMMA FinalizesInv ==
  ASSUME IInv, Finalizes
  PROVE  IInv'
<1> DEFINE new == [run EXCEPT !.status = "over", !.asked = FALSE]
<1>1. SaveAndTell(new, <<"update">>, "finish") /\ <<"update">> \in Updates
  BY DEF Finalizes, Updates
<1>2. /\ new \in [status : Status, asked : BOOLEAN, open : BOOLEAN, rev : Nat]
      /\ new.rev = run.rev /\ new.status = "over"
  BY DEF IInv, TypeOK, Status
<1> HIDE DEF new
<1> QED  BY <1>1, <1>2, AtNodeSilent, TellInv DEF Finalizes

LEMMA FailRunInv ==
  ASSUME IInv, FailRun
  PROVE  IInv'
<1> DEFINE new == [run EXCEPT !.status = "over", !.asked = FALSE]
<1>1. SaveAndTell(new, <<"update">>, "failed") /\ <<"update">> \in Updates /\ pc = "failing"
  BY DEF FailRun, Updates
<1>2. /\ new \in [status : Status, asked : BOOLEAN, open : BOOLEAN, rev : Nat]
      /\ new.rev = run.rev /\ new.status = "over"
  BY DEF IInv, TypeOK, Status
<1>3. AllSilent  BY <1>1, GraphAlone DEF IInv, Voices, GraphOut
<1> HIDE DEF new
<1> QED  BY <1>1, <1>2, <1>3, TellInv

-----------------------------------------------------------------------------
(* The requests, and what goes wrong *)

LEMMA StartInv ==
  ASSUME IInv, Start
  PROVE  IInv'
<1> USE EventAssumption
<1>1. /\ pc = "over" /\ queue = <<>> /\ AllSilent /\ pc' \in {"create", "resume"}
      /\ gen' = "open" /\ client' = [client EXCEPT !.last = "none"]
      /\ bridge' = [counted |-> FALSE, seq |-> 0, rev |-> 0]
      /\ pc' = "create" <=> run.status = "none"
      /\ pc' = "resume" => run.status = "waiting"
      /\ UNCHANGED <<run, seq, queue, co>>
  BY GraphAlone DEF Start, IInv, Idle, Voices, GraphOut
<1>2. TypeOK'  BY <1>1 DEF IInv, TypeOK
<1>3. Voices'
  BY <1>1 DEF IInv, Voices, GraphOut, CallOut, AllSilent, Coroutines
<1>4. Idle' /\ Progressed' /\ Closed' /\ Shown'
  BY <1>1 DEF IInv, Idle, TypeOK, Progressed, Closed, Shown, Verdicts
<1>5. Uncounted'
  BY <1>1 DEF IInv, Uncounted, AllSilent, Coroutines
<1>6. Numbers' /\ FramesInOrder' /\ LastFrameIsTrue' /\ ClientIsUpToDate'
  BY <1>1 DEF IInv, TypeOK, Numbers, Given, FramesInOrder, LastFrameIsTrue, ClientIsUpToDate
<1> QED  BY <1>2, <1>3, <1>4, <1>5, <1>6 DEF IInv

LEMMA CancelInv ==
  ASSUME IInv, Cancel
  PROVE  IInv'
<1>1. /\ pc \in {"over", "resume"} /\ run.status \in {"running", "waiting"}
      /\ run' = [run EXCEPT !.status = "cancelled", !.asked = FALSE, !.rev = @ + 1]
      /\ UNCHANGED <<seq, bridge, queue, co, pc, gen, client>>
  BY DEF Cancel, IInv, Idle
<1>2. /\ run' \in [status : Status, asked : BOOLEAN, open : BOOLEAN, rev : Nat]
      /\ run'.status = "cancelled" /\ ~run'.asked
  <2>1. run \in [status : Status, asked : BOOLEAN, open : BOOLEAN, rev : Nat]
    BY DEF IInv, TypeOK
  <2>2. "cancelled" \in Status /\ run.rev \in Nat /\ run.rev + 1 \in Nat  BY <2>1 DEF Status
  <2>3. run' = [run EXCEPT !.status = "cancelled", !.asked = FALSE, !.rev = run.rev + 1]
    BY <1>1
  <2> QED  BY <2>1, <2>2, <2>3
<1>3. TypeOK'  BY <1>1, <1>2 DEF IInv, TypeOK
<1>4. Voices' /\ Idle' /\ Progressed' /\ Closed' /\ Shown'
  BY <1>1, <1>2 DEF IInv, Voices, GraphOut, Idle, Progressed, Closed, Shown, Verdicts
<1>5. Uncounted' /\ Numbers' /\ FramesInOrder'
  BY <1>1, <1>2 DEF IInv, Uncounted, Numbers, Given, FramesInOrder
<1>6. LastFrameIsTrue' /\ ClientIsUpToDate'
  BY <1>1, <1>2 DEF LastFrameIsTrue, ClientIsUpToDate, CanResume
<1> QED  BY <1>3, <1>4, <1>5, <1>6 DEF IInv

LEMMA CreateRunInv ==
  ASSUME IInv, CreateRun
  PROVE  IInv'
<1> USE EventAssumption
<1> DEFINE kinds == <<"update">>
<1>1. /\ pc = "create" /\ pc' = "opening" /\ Says(Graph, kinds)
      /\ run' = [run EXCEPT !.status = "running"]
      /\ bridge' = [bridge EXCEPT !.counted = TRUE]
      /\ UNCHANGED <<seq, queue, gen, client>>
  BY DEF CreateRun
<1>2. AllSilent  BY <1>1, GraphAlone DEF IInv, Voices, GraphOut
<1>3. kinds \in Updates /\ kinds \in GraphOut'  BY <1>1 DEF Updates, GraphOut
<1>4. kinds \in Seq(Kind)  BY <1>3, Sayable
<1> HIDE DEF kinds
<1>5. SpeaksAlone(kinds)  BY <1>1, <1>2, <1>4, GraphSpeaks
<1>6. Voices' /\ ~Given' /\ \A c \in Coroutines : co'[c].num = 0
  BY <1>3, <1>5, AloneVoices
<1>7. /\ run' \in [status : Status, asked : BOOLEAN, open : BOOLEAN, rev : Nat]
      /\ run'.status = "running" /\ run'.rev = 0
  BY <1>1 DEF IInv, TypeOK, Progressed, Status
<1>8. /\ bridge' \in [counted : BOOLEAN, seq : Nat, rev : Nat]
      /\ bridge'.counted /\ bridge'.rev = 0
  BY <1>1 DEF IInv, TypeOK, Idle
<1>9. co'[Graph].out # <<>>  BY <1>3, <1>5, UpdatesSpeak DEF SpeaksAlone
<1>10. TypeOK'
  BY <1>1, <1>5, <1>7, <1>8 DEF IInv, TypeOK, SpeaksAlone
<1>11. queue = <<>>  BY <1>1 DEF IInv, Idle
<1>12. Idle' /\ Progressed' /\ Closed'
  BY <1>1, <1>7, <1>11 DEF IInv, Idle, Progressed, Closed, Verdicts
<1>13. Uncounted' /\ Shown'
  BY <1>1, <1>7, <1>8, <1>9, <1>11 DEF Uncounted, Shown
<1>14. Numbers' /\ FramesInOrder'
  BY <1>1, <1>6, <1>11 DEF IInv, Numbers, FramesInOrder
<1>15. LastFrameIsTrue' /\ ClientIsUpToDate'
  BY <1>1 DEF IInv, Idle, LastFrameIsTrue, ClientIsUpToDate
<1> QED  BY <1>6, <1>10, <1>12, <1>13, <1>14, <1>15 DEF IInv

\* What raises outside the graph becomes an error event.
LEMMA ErrsInv ==
  ASSUME IInv, AllSilent, Errs, pc \in {"resume", "failing", "finish"},
         bridge' \in [counted : BOOLEAN, seq : Nat, rev : Nat],
         bridge'.seq = bridge.seq, bridge.counted => bridge'.counted,
         UNCHANGED <<run, seq, queue, gen, client>>
  PROVE  IInv'
<1> USE EventAssumption
<1> DEFINE kinds == <<"error">>
<1>1. pc' = "error" /\ Says(Graph, kinds)  BY DEF Errs
<1>2. kinds \in GraphOut'  BY <1>1 DEF GraphOut
<1>3. kinds \in Seq(Kind)
  <2>1. "error" \in Kind  BY DEF Kind, Ends
  <2> QED  BY <2>1
<1> HIDE DEF kinds
<1>4. SpeaksAlone(kinds)  BY <1>1, <1>3, GraphSpeaks
<1>5. Voices' /\ ~Given' /\ \A c \in Coroutines : co'[c].num = 0
  BY <1>2, <1>4, AloneVoices
<1>6. TypeOK'  BY <1>1, <1>4 DEF IInv, TypeOK, SpeaksAlone
<1>7. Idle' /\ Progressed' /\ Closed' /\ Shown'
  BY <1>1 DEF IInv, Idle, Progressed, Closed, Quiet, Shown
<1>8. Uncounted'
  <2>1. CASE pc = "resume"
    <3>1. queue = <<>> /\ seq >= 1 /\ (~bridge.counted => bridge.seq = 0)
      BY <2>1 DEF IInv, Idle, Uncounted
    <3>2. co'[Graph].num = 0  BY <1>4 DEF SpeaksAlone
    <3>3. Len(queue) <= 1 /\ queue' = <<>>  BY <3>1
    <3> QED  BY <1>1, <3>1, <3>2, <3>3 DEF Uncounted
  <2>2. CASE pc # "resume"
    <3>1. bridge'.counted /\ bridge.counted  BY <2>2 DEF IInv, Uncounted, TypeOK
    <3> QED  BY <1>1, <3>1 DEF IInv, Uncounted
  <2> QED  BY <2>1, <2>2
<1>9. Numbers' /\ FramesInOrder'
  BY <1>5 DEF IInv, Numbers, FramesInOrder
<1>10. LastFrameIsTrue' /\ ClientIsUpToDate'
  BY DEF IInv, Idle, LastFrameIsTrue, ClientIsUpToDate
<1> QED  BY <1>5, <1>6, <1>7, <1>8, <1>9, <1>10 DEF IInv

LEMMA ResumeRefusedInv ==
  ASSUME IInv, ResumeRefused
  PROVE  IInv'
<1>1. AllSilent  BY GraphAlone DEF IInv, Voices, GraphOut, ResumeRefused
<1> QED  BY <1>1, ErrsInv DEF ResumeRefused, IInv, TypeOK

\* A run that cannot be created leaves nothing but the error.
LEMMA CreateFailsInv ==
  ASSUME IInv, AllSilent, Errs, pc = "create",
         run' = [run EXCEPT !.status = "absent"],
         bridge' = [bridge EXCEPT !.counted = TRUE],
         UNCHANGED <<seq, queue, gen, client>>
  PROVE  IInv'
<1> USE EventAssumption
<1> DEFINE kinds == <<"error">>
<1>1. pc' = "error" /\ Says(Graph, kinds)  BY DEF Errs
<1>2. kinds \in GraphOut'  BY <1>1 DEF GraphOut
<1>3. kinds \in Seq(Kind)
  <2>1. "error" \in Kind  BY DEF Kind, Ends
  <2> QED  BY <2>1
<1> HIDE DEF kinds
<1>4. SpeaksAlone(kinds)  BY <1>1, <1>3, GraphSpeaks
<1>5. Voices' /\ ~Given' /\ \A c \in Coroutines : co'[c].num = 0
  BY <1>2, <1>4, AloneVoices
<1>6. /\ run' \in [status : Status, asked : BOOLEAN, open : BOOLEAN, rev : Nat]
      /\ run'.status = "absent" /\ run'.rev = 0
  BY DEF IInv, TypeOK, Progressed, Status
<1>7. /\ bridge' \in [counted : BOOLEAN, seq : Nat, rev : Nat] /\ bridge'.counted
  BY DEF IInv, TypeOK
<1>8. TypeOK'  BY <1>1, <1>4, <1>6, <1>7 DEF IInv, TypeOK, SpeaksAlone
<1>9. queue = <<>>  BY DEF IInv, Idle
<1>10. Idle' /\ Progressed' /\ Closed' /\ Shown'
  BY <1>1, <1>6, <1>9 DEF IInv, Idle, Progressed, Closed, Verdicts, Shown
<1>11. Uncounted' /\ Numbers' /\ FramesInOrder'
  BY <1>1, <1>5, <1>6, <1>7, <1>9 DEF IInv, Uncounted, Numbers, FramesInOrder
<1>12. LastFrameIsTrue' /\ ClientIsUpToDate'
  BY DEF IInv, Idle, LastFrameIsTrue, ClientIsUpToDate
<1> QED  BY <1>5, <1>8, <1>10, <1>11, <1>12 DEF IInv

LEMMA OperationRaisesInv ==
  ASSUME IInv, OperationRaises
  PROVE  IInv'
<1>1. AllSilent  BY StillSilent DEF OperationRaises, Still
<1>2. bridge \in [counted : BOOLEAN, seq : Nat, rev : Nat]  BY DEF IInv, TypeOK
<1>3. CASE pc = "create"
  <2>1. bridge' = [bridge EXCEPT !.counted = TRUE]  BY <1>2, <1>3 DEF OperationRaises
  <2> QED  BY <1>1, <1>3, <2>1, CreateFailsInv DEF OperationRaises
<1>4. CASE pc # "create"
  <2>1. /\ bridge' \in [counted : BOOLEAN, seq : Nat, rev : Nat]
        /\ bridge'.seq = bridge.seq /\ (bridge.counted => bridge'.counted)
    BY <1>2 DEF OperationRaises
  <2> QED  BY <1>1, <1>4, <2>1, ErrsInv DEF OperationRaises
<1> QED  BY <1>3, <1>4

LEMMA WaitsInv ==
  ASSUME IInv, Waits
  PROVE  IInv'
<1> USE EventAssumption
<1>1. AllSilent /\ pc \in {"opening", "work"}  BY AtNodeSilent DEF Waits
<1>2. /\ pc' = "finish" /\ run.status = "waiting"
      /\ UNCHANGED <<run, seq, bridge, queue, co, gen, client>>
  BY DEF Waits
<1>3. TypeOK' /\ Idle' /\ Progressed' /\ Closed'
  BY <1>1, <1>2 DEF IInv, TypeOK, Idle, Progressed, Closed, Quiet
<1>4. Voices'
  <2>1. \A c \in Calls : co[c] = Silent
    <3> TAKE c \in Calls
    <3>1. /\ co[c] \in [out : Seq(Kind), num : 0..seq, asks : BOOLEAN]
          /\ co[c].out = <<>> /\ co[c].num = 0 /\ co[c].asks = FALSE
      BY <1>1 DEF IInv, TypeOK, AllSilent, Coroutines
    <3> QED  BY <3>1 DEF Silent
  <2> QED  BY <1>1, <1>2, <2>1 DEF IInv, Voices, GraphOut
<1>5. Uncounted' /\ Shown'
  BY <1>1, <1>2 DEF IInv, Uncounted, Shown, AllSilent, Coroutines
<1>6. Numbers' /\ FramesInOrder' /\ LastFrameIsTrue' /\ ClientIsUpToDate'
  BY <1>1, <1>2 DEF IInv, Idle, Numbers, Given, FramesInOrder, LastFrameIsTrue, ClientIsUpToDate
<1> QED  BY <1>3, <1>4, <1>5, <1>6 DEF IInv

\* _finish_workflow_stream: the verdict is the one the run deserves.
LEMMA FinishInv ==
  ASSUME IInv, Finish
  PROVE  IInv'
<1> USE EventAssumption
<1> DEFINE kinds == IF CanResume THEN <<"interrupt", "paused">> ELSE <<"done">>
<1>1. /\ pc \in {"finish", "failed", "abandoned"} /\ pc' = "last"
      /\ Says(Graph, kinds)
      /\ bridge' = [bridge EXCEPT !.rev = IF pc = "abandoned" THEN run.rev - 1 ELSE run.rev]
      /\ UNCHANGED <<run, seq, queue, gen, client>>
  BY DEF Finish
<1>2. AllSilent  BY StillSilent DEF Finish, Still
<1>3. kinds \in GraphOut'  BY <1>1 DEF GraphOut, Verdict, CanResume
<1>4. kinds \in Seq(Kind)
  <2>1. /\ <<"interrupt", "paused">> \in Seq({"interrupt", "paused", "done"})
        /\ <<"done">> \in Seq({"interrupt", "paused", "done"})
    OBVIOUS
  <2>2. {"interrupt", "paused", "done"} \subseteq Kind  BY DEF Kind, Ends
  <2>3. /\ <<"interrupt", "paused">> \in Seq(Kind) /\ <<"done">> \in Seq(Kind)
    BY <2>2
  <2> QED  BY <2>3
<1> HIDE DEF kinds
<1>5. SpeaksAlone(kinds)  BY <1>1, <1>2, <1>4, GraphSpeaks
<1>6. Voices' /\ ~Given' /\ \A c \in Coroutines : co'[c].num = 0
  BY <1>3, <1>5, AloneVoices
<1>7. /\ bridge' \in [counted : BOOLEAN, seq : Nat, rev : Nat]
      /\ bridge'.counted = bridge.counted /\ bridge.counted
  <2>1. /\ bridge \in [counted : BOOLEAN, seq : Nat, rev : Nat]
        /\ run.rev \in Nat /\ (pc = "abandoned" => run.rev >= 1)
    BY DEF IInv, TypeOK, Progressed
  <2>2. (IF pc = "abandoned" THEN run.rev - 1 ELSE run.rev) \in Nat  BY <2>1
  <2>3. bridge.counted  BY <1>1, <2>1 DEF IInv, Uncounted
  <2> QED  BY <1>1, <2>1, <2>2, <2>3
<1>8. TypeOK'  BY <1>1, <1>5, <1>7 DEF IInv, TypeOK, SpeaksAlone
<1>9. Idle' /\ Progressed'
  BY <1>1 DEF IInv, Idle, Progressed
<1>10. Closed'  BY <1>1 DEF IInv, Idle, Closed, Quiet
<1>11. Shown'
  BY <1>1, <1>2 DEF IInv, Shown, Progressed, AllSilent, Coroutines
<1>12. Uncounted'
  BY <1>1, <1>7 DEF IInv, Uncounted
<1>13. Numbers' /\ FramesInOrder'
  BY <1>1, <1>6 DEF IInv, Numbers, FramesInOrder
<1>14. LastFrameIsTrue' /\ ClientIsUpToDate'
  BY <1>1 DEF IInv, Idle, LastFrameIsTrue, ClientIsUpToDate
<1> QED  BY <1>6, <1>8, <1>9, <1>10, <1>11, <1>12, <1>13, <1>14 DEF IInv

\* Everybody falls silent, and no verdict can have been given.
Hushed == \A c \in Coroutines : co'[c] = Silent

LEMMA HushedVoices ==
  ASSUME EventAssumption, seq' \in Nat, Hushed, co' \in [Coroutines -> {Silent}],
         "over" = pc' \/ "failing" = pc' \/ "mute" = pc'
  PROVE  /\ Voices' /\ ~Given' /\ \A c \in Coroutines : co'[c].num = 0
         /\ co' \in [Coroutines -> [out : Seq(Kind), num : 0..seq', asks : BOOLEAN]]
         /\ co'[Graph].out = <<>>
<1>1. /\ \A c \in Coroutines : co'[c].out = <<>> /\ co'[c].num = 0 /\ ~co'[c].asks
      /\ Graph \in Coroutines /\ Calls \subseteq Coroutines
  BY SilentOne DEF Hushed, Coroutines
<1>2. GraphOut' = {<<>>} /\ <<>> \in CallOut  BY DEF GraphOut, CallOut
<1>3. Voices' /\ ~Given'  BY <1>1, <1>2 DEF Hushed, Voices, Given
<1>4. Silent \in [out : Seq(Kind), num : 0..seq', asks : BOOLEAN]  BY DEF Silent
<1>5. co' \in [Coroutines -> [out : Seq(Kind), num : 0..seq', asks : BOOLEAN]]  BY <1>4
<1> QED  BY <1>1, <1>3, <1>5

LEMMA FallSilentInv ==
  ASSUME IInv, Hushed, co' \in [Coroutines -> {Silent}],
         \/ pc \in {"opening", "work", "finish"} /\ pc' = "failing"
         \/ pc = "error" /\ bridge.counted /\ pc' = "mute",
         UNCHANGED <<run, seq, bridge, queue, gen, client>>
  PROVE  IInv'
<1> seq \in Nat /\ EventAssumption  BY EventAssumption DEF IInv, TypeOK
<1>1. /\ Voices' /\ ~Given' /\ \A c \in Coroutines : co'[c].num = 0
      /\ co' \in [Coroutines -> [out : Seq(Kind), num : 0..seq', asks : BOOLEAN]]
      /\ co'[Graph].out = <<>>
  BY HushedVoices
<1>2. TypeOK'  BY <1>1 DEF IInv, TypeOK
<1>3. Idle' /\ Progressed' /\ Closed' /\ Shown'
  BY DEF IInv, Idle, Progressed, Closed, Quiet, Shown
<1>4. Uncounted'  BY <1>1 DEF IInv, Uncounted
<1>5. Numbers' /\ FramesInOrder' /\ LastFrameIsTrue' /\ ClientIsUpToDate'
  BY <1>1 DEF IInv, Idle, Numbers, FramesInOrder, LastFrameIsTrue, ClientIsUpToDate
<1> QED  BY <1>1, <1>2, <1>3, <1>4, <1>5 DEF IInv

LEMMA NodeRaisesInv ==
  ASSUME IInv, NodeRaises
  PROVE  IInv'
<1>1. Hushed /\ co' \in [Coroutines -> {Silent}]  BY DEF NodeRaises, Hushed
<1> QED  BY <1>1, FallSilentInv DEF NodeRaises

\* The database fails under an event.
LEMMA EmitFailsInv ==
  ASSUME IInv, NEW c \in Coroutines, EmitFails(c)
  PROVE  IInv'
<1> USE EventAssumption
<1>1. /\ co[c].out # <<>> /\ bridge.counted
      /\ UNCHANGED <<run, seq, bridge, queue, gen, client>>
  BY DEF EmitFails
<1>2. pc \in {"opening", "work", "finish", "failed", "abandoned", "last", "error"}
  BY <1>1, SilentOne DEF IInv, TypeOK, Voices, GraphOut, Coroutines
<1>3. CASE pc \in {"work", "finish", "error"}
  <2>1. pc' = IF pc = "error" THEN "mute" ELSE "failing"  BY <1>3 DEF EmitFails
  <2>2. Hushed /\ co' \in [Coroutines -> {Silent}]  BY <2>1 DEF EmitFails, Hushed
  <2> QED  BY <1>1, <1>3, <2>1, <2>2, FallSilentInv
<1>4. CASE pc \notin {"work", "finish", "error"}
  <2> DEFINE kinds == <<"error">>
  <2>1. pc' = "error"  BY <1>4 DEF EmitFails
  <2>2. /\ co' = [d \in Coroutines |-> IF d = Graph THEN [Silent EXCEPT !.out = kinds]
                                        ELSE Silent]
    BY <2>1 DEF EmitFails
  <2>3. kinds \in GraphOut'  BY <2>1 DEF GraphOut
  <2>4. kinds \in Seq(Kind)
    <3>1. "error" \in Kind  BY DEF Kind, Ends
    <3> QED  BY <3>1
  <2> HIDE DEF kinds
  <2>5. SpeaksAlone(kinds)
    <3>1. seq \in Nat  BY DEF IInv, TypeOK
    <3>2. /\ Silent \in [out : Seq(Kind), num : 0..seq, asks : BOOLEAN]
          /\ [Silent EXCEPT !.out = kinds] \in [out : Seq(Kind), num : 0..seq, asks : BOOLEAN]
          /\ [Silent EXCEPT !.out = kinds].out = kinds
          /\ [Silent EXCEPT !.out = kinds].num = 0 /\ ~[Silent EXCEPT !.out = kinds].asks
      <4>1. 0 \in 0..seq /\ <<>> \in Seq(Kind)  BY <3>1
      <4>2. Silent \in [out : Seq(Kind), num : 0..seq, asks : BOOLEAN]  BY <4>1 DEF Silent
      <4> QED  BY <2>4, <4>2, SilentOne
    <3> QED  BY <2>2, <3>2 DEF SpeaksAlone, Coroutines
  <2>6. Voices' /\ ~Given' /\ \A d \in Coroutines : co'[d].num = 0
    BY <2>3, <2>5, AloneVoices
  <2>7. TypeOK'  BY <1>1, <2>1, <2>5 DEF IInv, TypeOK, SpeaksAlone
  <2>8. Idle' /\ Progressed'
    BY <1>1, <1>2, <2>1 DEF IInv, Idle, Progressed
  <2>9. Closed'
    <3>1. ~Quiet
      <4>1. CASE c = Graph  BY <1>1, <4>1 DEF Quiet
      <4>2. CASE c \in Calls
        BY <1>1, <1>4, <4>2, SilentOne DEF IInv, Voices
      <4> QED  BY <4>1, <4>2 DEF Coroutines
    <3> QED  BY <1>1, <2>1, <3>1 DEF IInv, Closed
  <2>10. Shown' /\ Uncounted'
    BY <1>1, <1>2, <2>1 DEF IInv, Shown, Uncounted
  <2>11. Numbers' /\ FramesInOrder' /\ LastFrameIsTrue' /\ ClientIsUpToDate'
    BY <1>1, <1>2, <2>1, <2>6 DEF IInv, Idle, Numbers, FramesInOrder, LastFrameIsTrue,
       ClientIsUpToDate
  <2> QED  BY <2>6, <2>7, <2>8, <2>9, <2>10, <2>11 DEF IInv
<1> QED  BY <1>3, <1>4

LEMMA DisconnectInv ==
  ASSUME IInv, Disconnect
  PROVE  IInv'
<1>1. /\ gen = "open" /\ gen' = "closing"
      /\ UNCHANGED <<run, seq, bridge, queue, co, pc, client>>
  BY DEF Disconnect
<1>2. TypeOK' /\ Idle' /\ Closed' /\ LastFrameIsTrue' /\ ClientIsUpToDate'
  BY <1>1 DEF IInv, TypeOK, Idle, Closed, Quiet, Verdict, CanResume, LastFrameIsTrue,
     ClientIsUpToDate
<1>3. Voices' /\ Progressed' /\ Uncounted' /\ Numbers' /\ Shown' /\ FramesInOrder'
  BY <1>1 DEF IInv, Voices, GraphOut, Verdict, CanResume, Progressed, Uncounted, Numbers,
     Given, Shown, FramesInOrder
<1> QED  BY <1>2, <1>3 DEF IInv

\* The generator ends; what the client was told last is what the run deserves.
LEMMA CloseInv ==
  ASSUME IInv, Close
  PROVE  IInv'
<1> seq \in Nat /\ EventAssumption  BY EventAssumption DEF IInv, TypeOK
<1>1. /\ gen = "closing" /\ gen' = "none" /\ pc' = "over" /\ queue' = <<>>
      /\ UNCHANGED <<run, seq, bridge, client>>
  BY DEF Close
<1>2. Hushed /\ co' \in [Coroutines -> {Silent}]  BY DEF Close, Hushed
<1>3. /\ Voices' /\ ~Given' /\ \A c \in Coroutines : co'[c].num = 0
      /\ co' \in [Coroutines -> [out : Seq(Kind), num : 0..seq', asks : BOOLEAN]]
      /\ co'[Graph].out = <<>>
  BY <1>1, <1>2, HushedVoices
<1>4. TypeOK' /\ Idle' /\ Closed' /\ Shown'
  BY <1>1, <1>3 DEF IInv, TypeOK, Idle, Closed, Shown
<1>5. Progressed'
  BY <1>1 DEF IInv, Progressed
<1>6. Uncounted'
  <2>1. DOMAIN queue' = {} /\ Len(queue') = 0 /\ co'[Graph].num = 0
    BY <1>1, <1>3 DEF Coroutines
  <2> QED  BY <1>1, <1>3, <2>1 DEF IInv, Uncounted
<1>7. Numbers' /\ FramesInOrder'
  BY <1>1, <1>3 DEF IInv, Numbers, FramesInOrder
<1>8. client.last \in Verdicts => queue = <<>> /\ Quiet /\ client.last = Verdict
  BY <1>1 DEF IInv, Closed
<1>9. LastFrameIsTrue'
  BY <1>1, <1>8 DEF IInv, LastFrameIsTrue, Verdicts, Verdict, CanResume, Quiet, Progressed
<1>10. ClientIsUpToDate'
  <2>1. ASSUME client.last \in {"paused", "done"}
        PROVE  client.rev = run.rev \/ run.status = "cancelled"
    <3>1. queue = <<>> /\ pc = "last"  BY <1>8, <2>1 DEF Verdicts, Quiet
    <3>2. run.status = "cancelled" \/ Shows(client.rev, queue, run.rev)
      BY <3>1 DEF IInv, Shown
    <3> QED  BY <3>1, <3>2 DEF Shows
  <2> QED  BY <1>1, <2>1 DEF ClientIsUpToDate
<1> QED  BY <1>3, <1>4, <1>5, <1>6, <1>7, <1>9, <1>10 DEF IInv

-----------------------------------------------------------------------------
(* The events of the calls, and the numbers *)

\* A call of a worker at work changes what it has to say.
LEMMA CallInv ==
  ASSUME IInv, NEW c \in Calls, pc = "work", co[c].out = <<>>,
         co' \in [Coroutines -> [out : Seq(Kind), num : 0..seq, asks : BOOLEAN]],
         co'[c].out \in CallOut, co'[c].num = co[c].num,
         \A d \in Coroutines : d # c => co'[d] = co[d],
         UNCHANGED <<run, seq, bridge, queue, pc, gen, client>>
  PROVE  IInv'
<1> USE EventAssumption
<1>1. /\ c \in Coroutines /\ c # Graph /\ Graph \in Coroutines
      /\ \A d \in Calls : d \in Coroutines
  BY DEF Coroutines
<1>2. co[c].num = 0 /\ co'[Graph] = co[Graph]  BY <1>1 DEF IInv, Voices
<1>3. \A d \in Coroutines : co'[d].num = co[d].num  OBVIOUS
<1>4. Voices'
  <2>1. GraphOut' = GraphOut  BY DEF GraphOut, Verdict, CanResume
  <2>2. co'[Graph].out \in GraphOut' /\ ~co'[Graph].asks
    BY <1>2, <2>1 DEF IInv, Voices
  <2>3. \A d \in Calls : co'[d].out \in CallOut
    BY <1>1 DEF IInv, Voices
  <2>4. \A d \in Coroutines : co'[d].out = <<>> => co'[d].num = 0
    BY <1>2 DEF IInv, Voices
  <2> QED  BY <2>2, <2>3, <2>4 DEF Voices
<1>5. Given' <=> Given  BY <1>3 DEF Given
<1>6. TypeOK' /\ Idle' /\ Progressed'
  BY DEF IInv, TypeOK, Idle, Progressed
<1>7. Uncounted' /\ Shown'
  BY <1>2 DEF IInv, Uncounted, Shown
<1>8. Numbers'
  BY <1>3, <1>5 DEF IInv, Numbers
<1>9. Closed' /\ FramesInOrder' /\ LastFrameIsTrue' /\ ClientIsUpToDate'
  BY <1>2 DEF IInv, Idle, Closed, Quiet, FramesInOrder, LastFrameIsTrue, ClientIsUpToDate
<1> QED  BY <1>4, <1>6, <1>7, <1>8, <1>9 DEF IInv

LEMMA BeginsInv ==
  ASSUME IInv, NEW c \in Calls, Begins(c)
  PROVE  IInv'
<1>1. co \in [Coroutines -> [out : Seq(Kind), num : 0..seq, asks : BOOLEAN]] /\ c \in Coroutines
  BY DEF IInv, TypeOK, Coroutines
<1> DEFINE two == <<"tool", "tool">>
           four == <<"tool", "tool", "tool", "tool">>
<1>2. two \in CallOut /\ four \in CallOut  BY DEF CallOut
<1>3. two \in Seq(Kind) /\ four \in Seq(Kind)  BY <1>2, Sayable
<1>4. \/ co' = [co EXCEPT ![c].out = two, ![c].asks = TRUE]
      \/ co' = [co EXCEPT ![c].out = four]
  BY DEF Begins, Says
<1> HIDE DEF two, four
<1>5. /\ co' \in [Coroutines -> [out : Seq(Kind), num : 0..seq, asks : BOOLEAN]]
      /\ co'[c].out \in CallOut /\ co'[c].num = co[c].num
      /\ \A d \in Coroutines : d # c => co'[d] = co[d]
  <2>1. CASE co' = [co EXCEPT ![c].out = two, ![c].asks = TRUE]
    BY <1>1, <1>2, <1>3, <2>1
  <2>2. CASE co' = [co EXCEPT ![c].out = four]
    BY <1>1, <1>2, <1>3, <2>2
  <2> QED  BY <1>4, <2>1, <2>2
<1> QED  BY <1>5, CallInv DEF Begins

LEMMA AnsweredInv ==
  ASSUME IInv, NEW c \in Calls, Answered(c)
  PROVE  IInv'
<1>1. co \in [Coroutines -> [out : Seq(Kind), num : 0..seq, asks : BOOLEAN]] /\ c \in Coroutines
  BY DEF IInv, TypeOK, Coroutines
<1>2. PICK kinds \in {<<"tool", "tool">>, <<>>} :
        co' = [co EXCEPT ![c].out = kinds, ![c].asks = FALSE]
  BY DEF Answered
<1>3. kinds \in CallOut  BY DEF CallOut
<1>4. kinds \in Seq(Kind)  BY <1>3, Sayable
<1>5. /\ co' \in [Coroutines -> [out : Seq(Kind), num : 0..seq, asks : BOOLEAN]]
      /\ co'[c].out \in CallOut /\ co'[c].num = co[c].num
      /\ \A d \in Coroutines : d # c => co'[d] = co[d]
  BY <1>1, <1>2, <1>3, <1>4
<1>6. pc = "work"  BY SilentOne DEF Answered, IInv, Voices
<1> QED  BY <1>5, <1>6, CallInv DEF Answered

\* next_sequence: the number is greater than all that were sent.
LEMMA NumberInv ==
  ASSUME IInv, NEW c \in Coroutines, Number(c)
  PROVE  IInv'
<1> USE EventAssumption
<1>1. /\ co[c].out # <<>> /\ bridge.counted /\ seq' = seq + 1
      /\ \A d \in Coroutines : co[d].num = 0
      /\ co' = [co EXCEPT ![c].num = seq + 1]
      /\ UNCHANGED <<run, bridge, queue, pc, gen, client>>
  BY DEF Number
<1>2. /\ seq \in Nat
      /\ co \in [Coroutines -> [out : Seq(Kind), num : 0..seq, asks : BOOLEAN]]
      /\ client \in [seen : SUBSET (1..(seq + 1)), rev : Nat, last : Kind \cup {"none"}]
  BY DEF IInv, TypeOK
<1>3. /\ \A d \in Coroutines : co'[d].out = co[d].out /\ co'[d].asks = co[d].asks
      /\ \A d \in Coroutines : d # c => co'[d] = co[d]
      /\ co'[c].num = seq + 1
  BY <1>1, <1>2
<1>4. \A d \in Coroutines : co'[d].num = IF d = c THEN seq + 1 ELSE 0
  BY <1>1, <1>3
<1>5. Graph \in Coroutines /\ Calls \subseteq Coroutines  BY DEF Coroutines
<1>6. TypeOK'
  <2>1. co' \in [Coroutines -> [out : Seq(Kind), num : 0..(seq + 1), asks : BOOLEAN]]
    <3>1. 0..seq \subseteq 0..(seq + 1) /\ seq + 1 \in 0..(seq + 1)  BY <1>2
    <3>2. co \in [Coroutines -> [out : Seq(Kind), num : 0..(seq + 1), asks : BOOLEAN]]
      BY <1>2, <3>1
    <3> QED  BY <1>1, <3>1, <3>2
  <2>2. SUBSET (1..(seq + 1)) \subseteq SUBSET (1..(seq' + 1)) /\ seq' \in Nat  BY <1>1, <1>2
  <2>3. client' \in [seen : SUBSET (1..(seq' + 1)), rev : Nat, last : Kind \cup {"none"}]
    BY <1>1, <1>2, <2>2
  <2> QED  BY <1>1, <2>1, <2>2, <2>3 DEF IInv, TypeOK
<1>7. Voices'
  <2>1. GraphOut' = GraphOut  BY <1>1 DEF GraphOut, Verdict, CanResume
  <2>2. co'[Graph].out \in GraphOut' /\ ~co'[Graph].asks
    BY <1>3, <1>5, <2>1 DEF IInv, Voices
  <2>3. ASSUME NEW d \in Calls
        PROVE  co'[d].out \in CallOut /\ (pc' # "work" => co'[d] = Silent)
    <3>1. co[d].out \in CallOut /\ (pc # "work" => co[d] = Silent)  BY DEF IInv, Voices
    <3>2. pc # "work" => d # c  BY <1>1, <3>1, SilentOne
    <3> QED  BY <1>1, <1>3, <1>5, <3>1, <3>2
  <2>4. \A d \in Coroutines : co'[d].out = <<>> => co'[d].num = 0
    BY <1>1, <1>3, <1>4
  <2> QED  BY <2>2, <2>3, <2>4 DEF Voices
<1>8. Idle' /\ Progressed' /\ Closed' /\ Shown'
  BY <1>1, <1>3, <1>5 DEF IInv, Idle, Progressed, Closed, Quiet, Verdict, CanResume, Shown
<1>9. Uncounted'
  <2>1. seq >= 1 => seq' >= 1  BY <1>1, <1>2
  <2> QED  BY <1>1, <1>3, <1>5, <2>1 DEF IInv, Uncounted
<1>10. Numbers'
  <2>1. \A d \in Coroutines : co'[d].num \in {0, seq'}  BY <1>1, <1>4
  <2>2. \A d, e \in Coroutines : co'[d].num # 0 /\ co'[e].num # 0 => d = e  BY <1>4
  <2>3. \A i \in DOMAIN queue' : queue'[i].seq \in 1..seq' /\ queue'[i].seq < seq'
    <3> TAKE i \in DOMAIN queue'
    <3>1. queue[i].seq \in 1..seq  BY <1>1 DEF IInv, Numbers
    <3> QED  BY <1>1, <1>2, <3>1
  <2>4. \A n \in client'.seen : n <= seq' /\ n < seq'
    <3> TAKE n \in client'.seen
    <3>1. n <= seq /\ n \in Nat  BY <1>1, <1>2 DEF IInv, Numbers
    <3> QED  BY <1>1, <1>2, <3>1
  <2> QED  BY <2>1, <2>2, <2>3, <2>4 DEF Numbers
<1>11. FramesInOrder' /\ LastFrameIsTrue' /\ ClientIsUpToDate'
  BY <1>1 DEF IInv, FramesInOrder, LastFrameIsTrue, ClientIsUpToDate, CanResume
<1> QED  BY <1>6, <1>7, <1>8, <1>9, <1>10, <1>11 DEF IInv

-----------------------------------------------------------------------------
(* A frame is put into the queue, and taken out of it *)

LEMMA Words ==
  /\ \A x : Head(<<x>>) = x /\ Tail(<<x>>) = <<>>
  /\ \A x, y : Head(<<x, y>>) = x /\ Tail(<<x, y>>) = <<y>>
  /\ \A x, y, z : Head(<<x, y, z>>) = x /\ Tail(<<x, y, z>>) = <<y, z>>
  /\ \A w, x, y, z : Head(<<w, x, y, z>>) = w /\ Tail(<<w, x, y, z>>) = <<x, y, z>>
  OBVIOUS

\* What a coroutine has to say next, and after that.
LEMMA NextWords ==
  ASSUME IInv, NEW c \in Coroutines, co[c].out # <<>>
  PROVE  LET k == Head(co[c].out)
             t == Tail(co[c].out)
         IN  /\ k \in Kind /\ t \in Seq(Kind)
             /\ c # Graph => c \in Calls /\ k = "tool" /\ t \in CallOut /\ pc = "work"
             /\ c = Graph =>
                  /\ t \in GraphOut
                  /\ \/ pc \in {"opening", "work", "finish", "failed", "abandoned"} /\ k = "update"
                     \/ pc = "error" /\ k = "error" /\ t = <<>>
                     \/ pc = "last" /\ k = "interrupt"
                     \/ pc = "last" /\ k = Verdict /\ t = <<>>
<1> USE EventAssumption
<1> DEFINE k == Head(co[c].out)
           t == Tail(co[c].out)
<1>1. CASE c # Graph
  <2>1. c \in Calls /\ pc = "work" /\ co[c].out \in CallOut
    BY <1>1, SilentOne DEF IInv, Voices, Coroutines
  <2> DEFINE one == <<"tool">>
             two == <<"tool", "tool">>
             three == <<"tool", "tool", "tool">>
             four == <<"tool", "tool", "tool", "tool">>
  <2>4. /\ Head(one) = "tool" /\ Head(two) = "tool" /\ Head(three) = "tool" /\ Head(four) = "tool"
        /\ Tail(one) = <<>> /\ Tail(two) = one /\ Tail(three) = two /\ Tail(four) = three
    BY Words
  <2>5. CallOut = {<<>>, one, two, three, four}  BY DEF CallOut
  <2> HIDE DEF one, two, three, four
  <2>2. k = "tool" /\ t \in CallOut
    <3>1. co[c].out \in {one, two, three, four}  BY <2>1, <2>5
    <3> QED  BY <2>4, <2>5, <3>1, Zenon
  <2>3. k \in Kind /\ t \in Seq(Kind)  BY <2>2, Sayable DEF Kind
  <2> QED  BY <1>1, <2>1, <2>2, <2>3
<1>2. CASE c = Graph
  <2>1. co[c].out \in GraphOut  BY <1>2 DEF IInv, Voices
  <2>2. /\ t \in GraphOut
        /\ \/ pc \in {"opening", "work", "finish", "failed", "abandoned"} /\ k = "update"
           \/ pc = "error" /\ k = "error" /\ t = <<>>
           \/ pc = "last" /\ k = "interrupt"
           \/ pc = "last" /\ k = Verdict /\ t = <<>>
    <3> DEFINE u == <<"update">>
               uu == <<"update", "update">>
               e == <<"error">>
               v == <<Verdict>>
               iv == <<"interrupt", Verdict>>
    <3>1. /\ Head(u) = "update" /\ Head(uu) = "update" /\ Head(e) = "error"
          /\ Head(v) = Verdict /\ Head(iv) = "interrupt"
          /\ Tail(u) = <<>> /\ Tail(uu) = u /\ Tail(e) = <<>> /\ Tail(v) = <<>> /\ Tail(iv) = v
      BY Words
    <3>2. CASE pc \in {"opening", "work", "finish", "failed", "abandoned"}
      <4>1. GraphOut = {<<>>, u, uu}  BY <3>2 DEF GraphOut
      <4> HIDE DEF u, uu
      <4>2. co[Graph].out \in {u, uu}  BY <1>2, <2>1, <4>1
      <4>3. k = "update" /\ t \in GraphOut  BY <1>2, <3>1, <4>1, <4>2, Zenon
      <4> QED  BY <3>2, <4>3
    <3>3. CASE pc = "error"
      <4>1. GraphOut = {<<>>, e}  BY <3>3 DEF GraphOut
      <4> HIDE DEF e
      <4>2. co[Graph].out = e  BY <1>2, <2>1, <4>1
      <4>3. k = "error" /\ t = <<>> /\ t \in GraphOut  BY <1>2, <3>1, <4>1, <4>2, Zenon
      <4> QED  BY <3>3, <4>3
    <3>4. CASE pc = "last"
      <4>1. GraphOut = {iv, v, <<>>}  BY <3>4 DEF GraphOut
      <4> HIDE DEF iv, v
      <4>2. co[Graph].out \in {iv, v}  BY <1>2, <2>1, <4>1
      <4>3. /\ t \in GraphOut
            /\ k = "interrupt" \/ (k = Verdict /\ t = <<>>)
        BY <1>2, <3>1, <4>1, <4>2, Zenon
      <4> QED  BY <3>4, <4>3
    <3>5. CASE pc \notin {"opening", "work", "finish", "failed", "abandoned", "error", "last"}
      BY <1>2, <2>1, <3>5 DEF GraphOut
    <3> QED  BY <3>2, <3>3, <3>4, <3>5
  <2>3. k \in Kind /\ t \in Seq(Kind)  BY <2>2, Sayable DEF Kind, Ends, Verdict
  <2> QED  BY <1>2, <2>2, <2>3
<1> QED  BY <1>1, <1>2

\* The number of an event that is put is new, and everything sent has a smaller one.
LEMMA PutNumber ==
  ASSUME IInv, NEW c \in Coroutines, co[c].out # <<>>, bridge.counted => co[c].num # 0,
         NEW n, n = IF bridge.counted THEN co[c].num ELSE bridge.seq + 1
  PROVE  /\ n \in 1..seq
         /\ bridge.counted => /\ \A i \in DOMAIN queue : queue[i].seq < n
                              /\ \A m \in client.seen : m < n
         /\ ~bridge.counted => queue = <<>> /\ c = Graph /\ pc = "error"
         /\ \A d \in Coroutines : d # c => co[d].num = 0
<1> USE EventAssumption
<1>1. seq \in Nat /\ bridge.counted \in BOOLEAN  BY DEF IInv, TypeOK
<1>2. CASE bridge.counted
  <2>1. n = seq /\ n # 0 /\ Given  BY <1>2 DEF IInv, Numbers, Given
  <2>2. \A d \in Coroutines : d # c => co[d].num = 0  BY <1>2 DEF IInv, Numbers
  <2>3. /\ \A i \in DOMAIN queue : queue[i].seq < n
        /\ \A m \in client.seen : m < n
    BY <2>1 DEF IInv, Numbers
  <2> QED  BY <1>1, <1>2, <2>1, <2>2, <2>3
<1>3. CASE ~bridge.counted
  <2>1. pc \in {"over", "create", "resume", "error"} /\ co[Graph].num = 0
    BY <1>3 DEF IInv, Uncounted
  <2>2. c = Graph /\ pc = "error"
    BY <2>1, NextWords
  <2>3. bridge.seq = 0 /\ queue = <<>> /\ seq >= 1
    BY <1>3, <2>2 DEF IInv, Uncounted
  <2>4. \A d \in Coroutines : d # c => co[d].num = 0
    BY <2>2, SilentOne DEF IInv, Voices, Coroutines
  <2> QED  BY <1>1, <1>3, <2>2, <2>3, <2>4
<1> QED  BY <1>2, <1>3

LEMMA PutInv ==
  ASSUME IInv, NEW c \in Coroutines, Put(c)
  PROVE  IInv'
<1> USE EventAssumption
<1>1. PICK n, k, t, f :
        /\ n = IF bridge.counted THEN co[c].num ELSE bridge.seq + 1
        /\ k = Head(co[c].out) /\ t = Tail(co[c].out)
        /\ f = [kind |-> k, seq |-> n, rev |-> bridge.rev, counted |-> bridge.counted]
  OBVIOUS
<1>2. /\ co[c].out # <<>> /\ (bridge.counted => co[c].num # 0)
      /\ bridge' = [bridge EXCEPT !.seq = n]
      /\ queue' = Append(queue, f)
      /\ co' = [co EXCEPT ![c].out = t, ![c].num = 0]
      /\ UNCHANGED <<run, seq, pc, gen, client>>
  BY <1>1 DEF Put
<1>3. /\ k \in Kind /\ t \in Seq(Kind)
      /\ c # Graph => c \in Calls /\ k = "tool" /\ t \in CallOut /\ pc = "work"
      /\ c = Graph =>
           /\ t \in GraphOut
           /\ \/ pc \in {"opening", "work", "finish", "failed", "abandoned"} /\ k = "update"
              \/ pc = "error" /\ k = "error" /\ t = <<>>
              \/ pc = "last" /\ k = "interrupt"
              \/ pc = "last" /\ k = Verdict /\ t = <<>>
  BY <1>1, <1>2, NextWords
<1>4. /\ n \in 1..seq
      /\ bridge.counted => /\ \A i \in DOMAIN queue : queue[i].seq < n
                           /\ \A m \in client.seen : m < n
      /\ ~bridge.counted => queue = <<>> /\ c = Graph /\ pc = "error"
      /\ \A d \in Coroutines : d # c => co[d].num = 0
  BY <1>1, <1>2, PutNumber
<1>5. /\ seq \in Nat /\ queue \in Seq(Frame)
      /\ bridge \in [counted : BOOLEAN, seq : Nat, rev : Nat]
      /\ co \in [Coroutines -> [out : Seq(Kind), num : 0..seq, asks : BOOLEAN]]
  BY DEF IInv, TypeOK
<1>6. f \in Frame /\ f.kind = k /\ f.seq = n /\ f.rev = bridge.rev /\ f.counted = bridge.counted
  BY <1>1, <1>3, <1>4, <1>5 DEF Frame
<1>7. /\ queue' \in Seq(Frame) /\ Len(queue') = Len(queue) + 1
      /\ DOMAIN queue' = 1..(Len(queue) + 1) /\ DOMAIN queue = 1..Len(queue)
      /\ \A i \in DOMAIN queue : queue'[i] = queue[i]
      /\ queue'[Len(queue) + 1] = f /\ Len(queue) \in Nat
  BY <1>2, <1>5, <1>6, Appended
<1>8. \A i \in DOMAIN queue' :
        \/ i \in DOMAIN queue /\ queue'[i] = queue[i]
        \/ i = Len(queue') /\ queue'[i] = f
  BY <1>7
<1>9. /\ co' \in [Coroutines -> [out : Seq(Kind), num : 0..seq, asks : BOOLEAN]]
      /\ co'[c].out = t /\ co'[c].num = 0 /\ co'[c].asks = co[c].asks
      /\ \A d \in Coroutines : d # c => co'[d] = co[d]
  <2>1. 0 \in 0..seq  BY <1>5
  <2> QED  BY <1>2, <1>3, <1>5, <2>1
<1>10. \A d \in Coroutines : co'[d].num = 0  BY <1>4, <1>9
<1>11. Graph \in Coroutines /\ Calls \subseteq Coroutines  BY DEF Coroutines
<1>12. TypeOK'
  <2>1. bridge' \in [counted : BOOLEAN, seq : Nat, rev : Nat]  BY <1>2, <1>4, <1>5
  <2> QED  BY <1>2, <1>7, <1>9, <2>1 DEF IInv, TypeOK
<1>13. Voices'
  <2>1. GraphOut' = GraphOut  BY <1>2 DEF GraphOut, Verdict, CanResume
  <2>2. co'[Graph].out \in GraphOut' /\ ~co'[Graph].asks
    BY <1>3, <1>9, <1>11, <2>1 DEF IInv, Voices
  <2>3. ASSUME NEW d \in Calls
        PROVE  co'[d].out \in CallOut /\ (pc' # "work" => co'[d] = Silent)
    <3>1. co[d].out \in CallOut /\ (pc # "work" => co[d] = Silent)  BY DEF IInv, Voices
    <3>2. pc # "work" => d # c  BY <1>2, <3>1, SilentOne
    <3>3. d = c => t \in CallOut  BY <1>3
    <3> QED  BY <1>2, <1>9, <1>11, <3>1, <3>2, <3>3
  <2> QED  BY <1>10, <2>2, <2>3 DEF Voices
<1>14. Idle' /\ Progressed'
  <2>1. pc \notin {"over", "create", "resume"}  BY <1>3
  <2> QED  BY <1>2, <2>1 DEF IInv, Idle, Progressed
<1>15. bridge'.counted = bridge.counted /\ bridge'.seq = n /\ bridge'.rev = bridge.rev
  BY <1>2, <1>5
<1>16. Uncounted'
  <2>1. ~bridge.counted => Len(queue') <= 1 /\ co'[Graph].out = <<>>
    <3> SUFFICES ASSUME ~bridge.counted  PROVE Len(queue') <= 1 /\ co'[Graph].out = <<>>
      OBVIOUS
    <3>1. queue = <<>> /\ c = Graph /\ t = <<>>  BY <1>3, <1>4
    <3> QED  BY <1>7, <1>9, <3>1
  <2>2. \A i \in DOMAIN queue' : queue'[i].counted = bridge'.counted
    BY <1>6, <1>8, <1>15 DEF IInv, Uncounted
  <2>3. pc # "resume" /\ pc # "create" /\ seq >= 1  BY <1>3, <1>4, <1>5
  <2>4. ~bridge'.counted => pc' = "error"  BY <1>2, <1>4, <1>15
  <2> QED  BY <1>2, <1>10, <1>11, <1>15, <2>1, <2>2, <2>3, <2>4 DEF Uncounted
<1>17. Numbers'
  <2>1. ~Given'  BY <1>10 DEF Given
  <2>2. \A i \in DOMAIN queue' : queue'[i].seq \in 1..seq'
    BY <1>2, <1>4, <1>6, <1>8 DEF IInv, Numbers
  <2> QED  BY <1>2, <1>10, <2>1, <2>2 DEF IInv, Numbers
<1>18. ~Quiet  BY <1>2, <1>3 DEF Quiet
<1>19. Closed'
  <2>1. /\ \A i \in DOMAIN queue : queue[i].kind \notin Verdicts
        /\ ~(client.last \in Verdicts /\ gen # "none")
    BY <1>18 DEF IInv, Closed
  <2>2. k \in Verdicts => pc = "last" /\ k = Verdict /\ c = Graph /\ t = <<>>
    BY <1>3 DEF Verdicts
  <2>3. k \in Verdicts => Quiet' /\ k = Verdict'
    BY <1>2, <1>9, <2>2 DEF Quiet, Verdict, CanResume
  <2>4. ASSUME NEW i \in DOMAIN queue', queue'[i].kind \in Verdicts
        PROVE  i = Len(queue') /\ Quiet' /\ queue'[i].kind = Verdict'
    BY <1>6, <1>8, <2>1, <2>3, <2>4
  <2> QED  BY <1>2, <2>1, <2>4 DEF Closed
<1>20. Shown'
  <2>1. /\ k = "update" /\ bridge.rev = run.rev => Shows(client.rev, queue', run.rev)
        /\ k # "update" /\ Shows(client.rev, queue, run.rev) =>
             Shows(client.rev, queue', run.rev)
    BY <1>2, <1>5, <1>6, ShowsAppended
  <2>2. CASE pc \in {"opening", "work", "finish", "failed"}
    <3>1. bridge.rev = run.rev  BY <2>2 DEF IInv, Shown
    <3>2. k # "update" /\ co'[Graph].out = <<>> => Shows(client.rev, queue, run.rev)
      BY <1>3, <1>9, <1>11, <2>2 DEF IInv, Shown
    <3> QED  BY <1>2, <1>15, <2>1, <2>2, <3>1, <3>2 DEF Shown
  <2>3. CASE pc = "last"
    <3>1. k # "update"  BY <1>3, <2>3 DEF Verdict
    <3> QED  BY <1>2, <2>1, <2>3, <3>1 DEF IInv, Shown
  <2> QED  BY <1>2, <2>2, <2>3 DEF Shown
<1>21. FramesInOrder'
  <2> SUFFICES ASSUME NEW i \in DOMAIN queue', queue'[i].counted
               PROVE  /\ \A j \in DOMAIN queue' : i < j => queue'[i].seq < queue'[j].seq
                      /\ \A m \in client'.seen : m < queue'[i].seq
    BY DEF FramesInOrder
  <2>1. CASE i \in DOMAIN queue
    <3>1. /\ queue[i].counted /\ queue'[i] = queue[i] /\ bridge.counted
          /\ \A j \in DOMAIN queue : i < j => queue[i].seq < queue[j].seq
          /\ \A m \in client.seen : m < queue[i].seq
          /\ queue[i].seq < n
      BY <1>4, <1>7, <2>1 DEF IInv, FramesInOrder, Uncounted
    <3> QED  BY <1>2, <1>6, <1>8, <3>1
  <2>2. CASE i \notin DOMAIN queue
    <3>1. i = Len(queue') /\ queue'[i] = f  BY <1>8, <2>2
    <3>2. bridge.counted  BY <1>6, <3>1
    <3>3. \A j \in DOMAIN queue' : ~(i < j)  BY <1>7, <3>1
    <3> QED  BY <1>2, <1>4, <1>6, <3>1, <3>2, <3>3
  <2> QED  BY <2>1, <2>2
<1>22. LastFrameIsTrue' /\ ClientIsUpToDate'
  BY <1>2 DEF IInv, LastFrameIsTrue, ClientIsUpToDate, CanResume
<1> QED  BY <1>12, <1>13, <1>14, <1>16, <1>17, <1>19, <1>20, <1>21, <1>22 DEF IInv

\* The client reads a frame; it drops none that has a number of the run.
LEMMA DeliverInv ==
  ASSUME IInv, Deliver
  PROVE  IInv'
<1> USE EventAssumption
<1>1. PICK f : f = Head(queue)  OBVIOUS
<1>2. /\ gen = "open" /\ queue # <<>> /\ Receives(f) /\ queue' = Tail(queue)
      /\ gen' \in {"closing", "open"}
      /\ UNCHANGED <<run, seq, bridge, co, pc>>
  BY <1>1 DEF Deliver
<1>3. /\ seq \in Nat /\ queue \in Seq(Frame)
      /\ client \in [seen : SUBSET (1..(seq + 1)), rev : Nat, last : Kind \cup {"none"}]
  BY DEF IInv, TypeOK
<1>4. /\ queue' \in Seq(Frame) /\ f = queue[1] /\ f \in Frame
      /\ Len(queue) \in Nat /\ Len(queue) >= 1 /\ Len(queue') = Len(queue) - 1
      /\ DOMAIN queue = 1..Len(queue) /\ DOMAIN queue' = 1..(Len(queue) - 1)
      /\ \A i \in DOMAIN queue' : queue'[i] = queue[i + 1] /\ i + 1 \in DOMAIN queue
  BY <1>1, <1>2, <1>3, Taken
<1>5. 1 \in DOMAIN queue  BY <1>4
<1>6. f.seq \in 1..seq /\ (Given => f.seq < seq)  BY <1>4, <1>5 DEF IInv, Numbers
<1>7. /\ client' \in [seen : SUBSET (1..(seq + 1)), rev : Nat, last : Kind \cup {"none"}]
      /\ client'.seen = client.seen \cup {f.seq}
      /\ f.seq \in client.seen => client' = client
      /\ f.seq \notin client.seen =>
           /\ client'.last = f.kind
           /\ client'.rev = IF f.kind = "update" THEN f.rev ELSE client.rev
  <2>1. f.seq \in 1..(seq + 1)  BY <1>3, <1>6
  <2>2. f.kind \in Kind /\ f.rev \in Nat  BY <1>4 DEF Frame
  <2>3. CASE f.seq \in client.seen
    BY <1>2, <1>3, <2>3 DEF Receives
  <2>4. CASE f.seq \notin client.seen
    BY <1>2, <1>3, <2>1, <2>2, <2>4 DEF Receives
  <2> QED  BY <2>3, <2>4
<1>8. TypeOK'
  BY <1>2, <1>4, <1>7 DEF IInv, TypeOK
<1>9. pc \notin {"over", "create", "resume"}  BY <1>2 DEF IInv, Idle
<1>10. Voices' /\ Idle' /\ Progressed'
  BY <1>2, <1>9 DEF IInv, Voices, GraphOut, Verdict, CanResume, Idle, Progressed
<1>11. Uncounted'
  <2>1. Len(queue) <= 1 => Len(queue') <= 1  BY <1>4
  <2>2. \A i \in DOMAIN queue' : queue'[i].counted = bridge'.counted
    BY <1>2, <1>4 DEF IInv, Uncounted
  <2> QED  BY <1>2, <1>9, <2>1, <2>2 DEF IInv, Uncounted
<1>12. Given' <=> Given  BY <1>2 DEF Given
<1>13. Numbers'
  <2>1. \A i \in DOMAIN queue' : queue'[i].seq \in 1..seq /\ (Given => queue'[i].seq < seq)
    BY <1>4 DEF IInv, Numbers
  <2>2. \A m \in client'.seen : m <= seq /\ (Given => m < seq)
    BY <1>3, <1>6, <1>7 DEF IInv, Numbers
  <2> QED  BY <1>2, <1>12, <2>1, <2>2 DEF IInv, Numbers
<1>14. Quiet' <=> Quiet  BY <1>2 DEF Quiet
<1>15. Verdict' = Verdict  BY <1>2 DEF Verdict, CanResume
<1>16. ~(client.last \in Verdicts)  BY <1>2 DEF IInv, Closed
<1>17. Closed'
  <2>1. ASSUME NEW i \in DOMAIN queue', queue'[i].kind \in Verdicts
        PROVE  i = Len(queue') /\ Quiet /\ queue'[i].kind = Verdict
    <3>1. i + 1 = Len(queue) /\ Quiet /\ queue'[i].kind = Verdict
      BY <1>4, <2>1 DEF IInv, Closed
    <3> QED  BY <1>4, <3>1
  <2>2. ASSUME client'.last \in Verdicts
        PROVE  queue' = <<>> /\ Quiet /\ client'.last = Verdict
    <3>1. client'.last = f.kind  BY <1>7, <1>16, <2>2
    <3>2. 1 = Len(queue) /\ Quiet /\ f.kind = Verdict
      BY <1>4, <1>5, <2>2, <3>1 DEF IInv, Closed
    <3>3. Len(queue') = 0  BY <1>4, <3>2
    <3>4. queue' = <<>>  BY <1>4, <3>3
    <3> QED  BY <3>1, <3>2, <3>4
  <2> QED  BY <1>14, <1>15, <2>1, <2>2 DEF Closed
<1>18. f.counted => f.seq \notin client.seen
  <2>1. f.counted => \A m \in client.seen : m < f.seq
    BY <1>4, <1>5 DEF IInv, FramesInOrder
  <2> QED  BY <1>6, <2>1
<1>19. Shown'
  <2>1. pc \in {"opening", "work", "finish", "failed", "last"} => f.seq \notin client.seen
    BY <1>4, <1>5, <1>18 DEF IInv, Uncounted, TypeOK
  <2>2. pc \in {"opening", "work", "finish", "failed", "last"} /\ Shows(client.rev, queue, run.rev)
          => Shows(client'.rev, queue', run.rev)
    BY <1>2, <1>3, <1>4, <1>7, <2>1, ShowsTaken
  <2> QED  BY <1>2, <2>2 DEF IInv, Shown
<1>20. FramesInOrder'
  <2> SUFFICES ASSUME NEW i \in DOMAIN queue', queue'[i].counted
               PROVE  /\ \A j \in DOMAIN queue' : i < j => queue'[i].seq < queue'[j].seq
                      /\ \A m \in client'.seen : m < queue'[i].seq
    BY DEF FramesInOrder
  <2>1. i + 1 \in DOMAIN queue /\ queue'[i] = queue[i + 1] /\ queue[i + 1].counted  BY <1>4
  <2>2. /\ \A j \in DOMAIN queue : i + 1 < j => queue[i + 1].seq < queue[j].seq
        /\ \A m \in client.seen : m < queue[i + 1].seq
    BY <2>1 DEF IInv, FramesInOrder
  <2>3. \A j \in DOMAIN queue' : i < j => queue'[i].seq < queue'[j].seq
    BY <1>4, <2>1, <2>2
  <2>4. f.seq < queue[i + 1].seq
    <3>1. f.counted  BY <1>4, <1>5, <2>1 DEF IInv, Uncounted
    <3>2. 1 < i + 1  BY <1>4
    <3> QED  BY <1>4, <1>5, <2>1, <3>1, <3>2 DEF IInv, FramesInOrder
  <2> QED  BY <1>7, <2>1, <2>2, <2>3, <2>4
<1>21. LastFrameIsTrue' /\ ClientIsUpToDate'
  BY <1>2 DEF LastFrameIsTrue, ClientIsUpToDate
<1> QED  BY <1>8, <1>10, <1>11, <1>13, <1>17, <1>19, <1>20, <1>21 DEF IInv

-----------------------------------------------------------------------------
(* The theorems *)

LEMMA InitInv == Init => IInv
<1> SUFFICES ASSUME Init  PROVE IInv
  OBVIOUS
<1> USE EventAssumption
<1>1. /\ run = [status |-> "none", asked |-> FALSE, open |-> FALSE, rev |-> 0]
      /\ seq = 0 /\ bridge = [counted |-> FALSE, seq |-> 0, rev |-> 0] /\ queue = <<>>
      /\ co = [c \in Coroutines |-> Silent]
      /\ pc = "over" /\ gen = "none"
      /\ client = [seen |-> {}, rev |-> 0, last |-> "none"]
  BY DEF Init
<1>2. \A c \in Coroutines : co[c].out = <<>> /\ co[c].num = 0 /\ ~co[c].asks /\ co[c] = Silent
  BY <1>1, SilentOne
<1>3. Graph \in Coroutines /\ Calls \subseteq Coroutines  BY DEF Coroutines
<1>4. TypeOK
  <2>1. Silent \in [out : Seq(Kind), num : 0..seq, asks : BOOLEAN]  BY <1>1 DEF Silent
  <2>2. co \in [Coroutines -> [out : Seq(Kind), num : 0..seq, asks : BOOLEAN]]
    BY <1>1, <2>1
  <2> QED  BY <1>1, <2>2 DEF TypeOK, Status
<1>5. Voices
  BY <1>1, <1>2, <1>3 DEF Voices, GraphOut, CallOut
<1>6. DOMAIN queue = {} /\ Len(queue) = 0  BY <1>1
<1>7. Idle /\ Progressed /\ Closed /\ Shown
  BY <1>1, <1>6 DEF Idle, Progressed, Closed, Verdicts, Shown
<1>8. Uncounted /\ Numbers
  BY <1>1, <1>2, <1>3, <1>6 DEF Uncounted, Numbers
<1>9. FramesInOrder /\ LastFrameIsTrue /\ ClientIsUpToDate
  BY <1>1, <1>6 DEF FramesInOrder, LastFrameIsTrue, ClientIsUpToDate
<1> QED  BY <1>4, <1>5, <1>7, <1>8, <1>9 DEF IInv

LEMMA StutterInv ==
  ASSUME IInv, UNCHANGED vars
  PROVE  IInv'
<1> USE DEF vars
<1>1. TypeOK' /\ Voices' /\ Idle' /\ Progressed'
  BY DEF IInv, TypeOK, Voices, GraphOut, Verdict, CanResume, Idle, Progressed
<1>2. Uncounted' /\ Numbers' /\ Closed' /\ Shown'
  BY DEF IInv, Uncounted, Numbers, Given, Closed, Quiet, Verdict, CanResume, Shown
<1>3. FramesInOrder' /\ LastFrameIsTrue' /\ ClientIsUpToDate'
  BY DEF IInv, FramesInOrder, LastFrameIsTrue, ClientIsUpToDate, CanResume
<1> QED  BY <1>1, <1>2, <1>3 DEF IInv

LEMMA NextInv ==
  ASSUME IInv, [Next]_vars
  PROVE  IInv'
<1>1. CASE Start  BY <1>1, StartInv
<1>2. CASE Cancel  BY <1>2, CancelInv
<1>3. CASE GraphStep
  BY <1>3, CreateRunInv, ResumeRunInv, ResumeRefusedInv, WorksInv, AsksInv, PausesInv, WaitsInv,
     FinalizesInv, FailRunInv, FinishInv DEF GraphStep
<1>4. CASE NodeRaises \/ OperationRaises  BY <1>4, NodeRaisesInv, OperationRaisesInv
<1>5. ASSUME NEW c \in Coroutines, Emits(c) \/ EmitFails(c)  PROVE IInv'
  BY <1>5, NumberInv, PutInv, EmitFailsInv DEF Emits
<1>6. ASSUME NEW c \in Calls, Begins(c) \/ Answered(c)  PROVE IInv'
  BY <1>6, BeginsInv, AnsweredInv
<1>7. CASE Deliver \/ Disconnect \/ Close  BY <1>7, DeliverInv, DisconnectInv, CloseInv
<1>8. CASE UNCHANGED vars  BY <1>8, StutterInv
<1> QED  BY <1>1, <1>2, <1>3, <1>4, <1>5, <1>6, <1>7, <1>8 DEF Next

\* The invariant holds of every state of a conversation.
THEOREM StreamInvariance == Spec => []IInv
<1>1. IInv /\ [Next]_vars => IInv'  BY NextInv
<1> QED  BY InitInv, <1>1, PTL DEF Spec

\* The variables have their types; no number is given out that is not counted.
THEOREM StreamTypes == Spec => []TypeOK
<1>1. IInv => TypeOK  BY DEF IInv
<1> QED  BY StreamInvariance, <1>1, PTL

\* Events with a number of the run arrive in the order of their numbers, whatever
\* calls emit at the same time, and after those of the streams before.
THEOREM NumbersInOrder == Spec => []FramesInOrder
<1>1. IInv => FramesInOrder  BY DEF IInv
<1> QED  BY StreamInvariance, <1>1, PTL

\* What a stream ends with is true of the run: a pause can be resumed, and a run that
\* works on or asks is not reported as done.
THEOREM VerdictIsTrue == Spec => []LastFrameIsTrue
<1>1. IInv => LastFrameIsTrue  BY DEF IInv
<1> QED  BY StreamInvariance, <1>1, PTL

\* A client that has read a stream to its regular end shows the last revision.
THEOREM NothingWithheld == Spec => []ClientIsUpToDate
<1>1. IInv => ClientIsUpToDate  BY DEF IInv
<1> QED  BY StreamInvariance, <1>1, PTL
=============================================================================
