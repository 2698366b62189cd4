--------------------------- MODULE UbloxDriverProofs ---------------------------
(***************************************************************************)
(* What the result of a request says of its acknowledgement, for every     *)
(* list of requests, of whatever kinds, and every timeout and delay.       *)
(* Answers do not say which request they are for, so the proof follows     *)
(* each request and its answer from place to place: they stay in order, so *)
(* the own answer of the request at hand is the last one under way; and an *)
(* answer that is older is that of a request that was given up, or that    *)
(* was taken to be answered because one of its kind was given up before.   *)
(***************************************************************************)
EXTENDS UbloxDriver, SequenceTheorems, TLAPS

ReadTasks == {"doRead", "answer", "other", "error"}
Tasks     == ReadTasks \cup {"doWrite", "doClose"}
Arrival   == [request : Nat, type : {"ACK", "NACK"}, age : Nat]

TypeOK ==
  /\ pc \in {"next", "send", "load", "lock", "waiting", "done", "failed",
             "joining", "joined", "dead"}
  /\ k \in Nat \ {0} /\ results \in Seq(BOOLEAN) /\ Len(results) = k - 1
  /\ acked \subseteq 1..k /\ givenUp \subseteq 1..(k - 1)
  /\ tasks \in Seq(Tasks)
  /\ out \in Seq(Nat) /\ device \in Seq(Nat) /\ answers \in Seq(Arrival)

Waiting == pc \in {"load", "lock", "waiting"}

Has(task) == \E i \in 1..Len(tasks) : tasks[i] = task

\* One read at a time: posted, under way, ended, or being handled.
ReadInv ==
  /\ \A i, j \in 1..Len(tasks) : tasks[i] \in ReadTasks /\ tasks[j] \in ReadTasks => i = j
  /\ reading => handling = "none"
  /\ reading \/ handling # "none" => \A task \in ReadTasks : ~Has(task)
  /\ Has("answer") => arrived \in Arrival

\* The four places a request and its answer pass through.
InOut(j)     == \E i \in 1..Len(out) : out[i] = j
InDevice(j)  == \E i \in 1..Len(device) : device[i] = j
InAnswers(j) == \E i \in 1..Len(answers) : answers[i].request = j
InTasks(j)   == Has("answer") /\ arrived.request = j
UnderWay(j)  == InOut(j) \/ InDevice(j) \/ InAnswers(j) \/ InTasks(j)

Rising(s) == \A a, b \in 1..Len(s) : a < b => s[a] < s[b]

\* They stay in order within each place, and from place to place.
OrderInv ==
  /\ Rising(out) /\ Rising(device)
  /\ \A a, b \in 1..Len(answers) : a < b => answers[a].request < answers[b].request
  /\ \A i, j \in Nat :
       \/ InTasks(i) /\ (InAnswers(j) \/ InDevice(j) \/ InOut(j))
       \/ InAnswers(i) /\ (InDevice(j) \/ InOut(j))
       \/ InDevice(i) /\ InOut(j)
       => i < j

\* A request of the kind of j was given up, j itself or an earlier one.
Covered(j) == \E g \in givenUp : g <= j /\ Requests[g].kind = Requests[j].kind

\* What is under way is for the request that is waited for, or late.
FlowInv ==
  \A j \in Nat : UnderWay(j) => IF j = k THEN Waiting \/ pc = "dead" ELSE j < k /\ Covered(j)

\* What ack_ holds when it looks like the answer to the request at hand.
AckInv ==
  /\ pc = "send" /\ Answered => Late(k)
  /\ Waiting /\ Answered => k \in acked \/ Late(k) \/ (ack.type = "NACK" /\ ~UnderWay(k))
  /\ k \in acked => /\ Waiting /\ ack = [type |-> "ACK", kind |-> Requests[k].kind]
                    /\ \A j \in Nat : ~UnderWay(j)

CloseInv == Has("doClose") => pc \in {"joining", "dead"}

IInv == TypeOK /\ ReadInv /\ OrderInv /\ FlowInv /\ AckInv /\ CloseInv /\ ResultIsTheAnswer
-----------------------------------------------------------------------------
(* Lists that are put in, and taken from.                                  *)

LEMMA Posted ==
  ASSUME tasks \in Seq(Tasks), NEW task \in Tasks, tasks' = Append(tasks, task)
  PROVE  /\ tasks' \in Seq(Tasks) /\ Len(tasks') = Len(tasks) + 1
         /\ \A i \in 1..Len(tasks) : tasks'[i] = tasks[i]
         /\ tasks'[Len(tasks) + 1] = task
         /\ \A other : Has(other)' <=> (Has(other) \/ other = task)
<1>1. /\ tasks' \in Seq(Tasks) /\ Len(tasks') = Len(tasks) + 1
      /\ \A i \in 1..Len(tasks) : tasks'[i] = tasks[i]
      /\ tasks'[Len(tasks) + 1] = task
  OBVIOUS
<1>2. Len(tasks) \in Nat OBVIOUS
<1>3. ASSUME NEW other PROVE Has(other)' <=> (Has(other) \/ other = task)
  BY <1>1, <1>2 DEF Has
<1> QED BY <1>1, <1>3

LEMMA Taken ==
  ASSUME tasks \in Seq(Tasks), tasks # <<>>, tasks' = Tail(tasks)
  PROVE  /\ tasks' \in Seq(Tasks) /\ Len(tasks) = Len(tasks') + 1
         /\ \A i \in 1..Len(tasks') : tasks'[i] = tasks[i + 1]
         /\ tasks[1] = Head(tasks)
         /\ \A other : Has(other) <=> (Has(other)' \/ other = Head(tasks))
<1>1. /\ tasks' \in Seq(Tasks) /\ Len(tasks) = Len(tasks') + 1
      /\ \A i \in 1..Len(tasks') : tasks'[i] = tasks[i + 1]
      /\ tasks[1] = Head(tasks)
  OBVIOUS
<1>2. Len(tasks') \in Nat BY <1>1
<1>3. ASSUME NEW other PROVE Has(other) <=> (Has(other)' \/ other = Head(tasks))
  <2>1. ASSUME Has(other), other # Head(tasks) PROVE Has(other)'
    <3>1. PICK i \in 1..Len(tasks) : tasks[i] = other BY <2>1 DEF Has
    <3>2. i # 1 /\ i - 1 \in 1..Len(tasks') BY <3>1, <2>1, <1>1, <1>2
    <3>3. tasks'[i - 1] = tasks[(i - 1) + 1] BY <3>2, <1>1
    <3> QED BY <3>1, <3>2, <3>3 DEF Has
  <2>2. ASSUME Has(other)' PROVE Has(other)
    <3>1. PICK i \in 1..Len(tasks') : tasks'[i] = other BY <2>2 DEF Has
    <3>2. i + 1 \in 1..Len(tasks) /\ tasks[i + 1] = other BY <3>1, <1>1, <1>2
    <3> QED BY <3>2 DEF Has
  <2>3. Has(Head(tasks)) BY <1>1, <1>2 DEF Has
  <2> QED BY <2>1, <2>2, <2>3
<1> QED BY <1>1, <1>3

\* The head of a rising list is its least, and the rest still rises.
LEMMA RisingTail ==
  ASSUME NEW s \in Seq(Nat), s # <<>>, Rising(s)
  PROVE  /\ Tail(s) \in Seq(Nat) /\ Head(s) \in Nat /\ Head(s) = s[1] /\ 1 \in 1..Len(s)
         /\ Rising(Tail(s))
         /\ \A i \in 1..Len(Tail(s)) : /\ Head(s) < Tail(s)[i]
                                       /\ i + 1 \in 1..Len(s) /\ Tail(s)[i] = s[i + 1]
<1> DEFINE t == Tail(s)
<1>1. /\ t \in Seq(Nat) /\ Head(s) \in Nat /\ Head(s) = s[1] /\ Len(s) = Len(t) + 1
      /\ \A i \in 1..Len(t) : t[i] = s[i + 1]
  OBVIOUS
<1> HIDE DEF t
<1>2. Len(t) \in Nat /\ 1 \in 1..Len(s) BY <1>1
<1>3. \A i \in 1..Len(t) : i + 1 \in 1..Len(s) BY <1>1, <1>2
<1>4. Rising(t)
  <2> SUFFICES ASSUME NEW a \in 1..Len(t), NEW b \in 1..Len(t), a < b PROVE t[a] < t[b]
    BY DEF Rising
  <2>1. s[a + 1] < s[b + 1] BY <1>2, <1>3 DEF Rising
  <2> QED BY <1>1, <2>1
<1>5. ASSUME NEW i \in 1..Len(t) PROVE Head(s) < t[i]
  BY <1>1, <1>2, <1>3 DEF Rising
<1> QED BY <1>1, <1>2, <1>3, <1>4, <1>5 DEF t

LEMMA RisingAppend ==
  ASSUME NEW s \in Seq(Nat), NEW x \in Nat, Rising(s), \A i \in 1..Len(s) : s[i] < x
  PROVE  /\ Append(s, x) \in Seq(Nat) /\ Rising(Append(s, x))
         /\ Len(Append(s, x)) = Len(s) + 1 /\ Append(s, x)[Len(s) + 1] = x
         /\ \A i \in 1..Len(s) : Append(s, x)[i] = s[i]
<1> DEFINE t == Append(s, x)
<1>1. /\ t \in Seq(Nat) /\ Len(t) = Len(s) + 1 /\ t[Len(s) + 1] = x
      /\ \A i \in 1..Len(s) : t[i] = s[i]
  OBVIOUS
<1> HIDE DEF t
<1>2. Len(s) \in Nat OBVIOUS
<1>3. Rising(t)
  <2> SUFFICES ASSUME NEW a \in 1..Len(t), NEW b \in 1..Len(t), a < b PROVE t[a] < t[b]
    BY DEF Rising
  <2>1. a \in 1..Len(s) BY <1>1, <1>2
  <2>2. CASE b = Len(s) + 1 BY <1>1, <2>1, <2>2
  <2>3. CASE b # Len(s) + 1
    <3>1. b \in Nat /\ 1 <= b /\ b <= Len(s) + 1 BY <1>1, <1>2
    <3>2. b <= Len(s) BY <1>2, <2>3, <3>1
    <3>3. b \in 1..Len(s) BY <1>2, <3>1, <3>2
    <3> QED BY <1>1, <2>1, <3>3 DEF Rising
  <2> QED BY <2>2, <2>3
<1> QED BY <1>1, <1>3 DEF t

LEMMA RisingConcat ==
  ASSUME NEW s \in Seq(Nat), NEW r \in Seq(Nat), Rising(s), Rising(r),
         \A i \in 1..Len(s), j \in 1..Len(r) : s[i] < r[j]
  PROVE  /\ s \o r \in Seq(Nat) /\ Rising(s \o r)
         /\ \A x : (\E i \in 1..Len(s \o r) : (s \o r)[i] = x) <=>
                      (\E i \in 1..Len(s) : s[i] = x) \/ (\E i \in 1..Len(r) : r[i] = x)
<1> DEFINE t == s \o r
<1>1. /\ t \in Seq(Nat) /\ Len(t) = Len(s) + Len(r)
      /\ \A i \in 1..Len(t) : t[i] = IF i <= Len(s) THEN s[i] ELSE r[i - Len(s)]
  OBVIOUS
<1> HIDE DEF t
<1>2. Len(s) \in Nat /\ Len(r) \in Nat OBVIOUS
<1>3. \A i \in 1..Len(t) : IF i <= Len(s) THEN i \in 1..Len(s) /\ t[i] = s[i]
                           ELSE i - Len(s) \in 1..Len(r) /\ t[i] = r[i - Len(s)]
  BY <1>1, <1>2
<1>4. Rising(t)
  <2> SUFFICES ASSUME NEW a \in 1..Len(t), NEW b \in 1..Len(t), a < b PROVE t[a] < t[b]
    BY DEF Rising
  <2>1. CASE b <= Len(s)
    BY <1>2, <1>3, <2>1 DEF Rising
  <2>2. CASE a <= Len(s) /\ ~(b <= Len(s))
    BY <1>2, <1>3, <2>2
  <2>3. CASE ~(a <= Len(s))
    <3>1. a - Len(s) \in 1..Len(r) /\ b - Len(s) \in 1..Len(r) /\ a - Len(s) < b - Len(s)
          /\ t[a] = r[a - Len(s)] /\ t[b] = r[b - Len(s)]
      BY <1>2, <1>3, <2>3
    <3> QED BY <3>1 DEF Rising
  <2> QED BY <1>2, <2>1, <2>2, <2>3
<1>5. ASSUME NEW x
      PROVE  (\E i \in 1..Len(t) : t[i] = x) <=>
               (\E i \in 1..Len(s) : s[i] = x) \/ (\E i \in 1..Len(r) : r[i] = x)
  <2>1. ASSUME NEW i \in 1..Len(t), t[i] = x
        PROVE  (\E j \in 1..Len(s) : s[j] = x) \/ (\E j \in 1..Len(r) : r[j] = x)
    BY <1>3, <2>1
  <2>2. ASSUME NEW i \in 1..Len(s), s[i] = x PROVE \E j \in 1..Len(t) : t[j] = x
    <3>1. i \in 1..Len(t) /\ i <= Len(s) BY <1>1, <1>2
    <3> QED BY <1>3, <2>2, <3>1
  <2>3. ASSUME NEW i \in 1..Len(r), r[i] = x PROVE \E j \in 1..Len(t) : t[j] = x
    <3>1. Len(s) + i \in 1..Len(t) /\ ~(Len(s) + i <= Len(s)) /\ (Len(s) + i) - Len(s) = i
      BY <1>1, <1>2
    <3>2. t[Len(s) + i] = r[i] BY <1>3, <3>1
    <3> QED BY <2>3, <3>1, <3>2
  <2> QED BY <2>1, <2>2, <2>3
<1> QED BY <1>1, <1>4, <1>5 DEF t
-----------------------------------------------------------------------------
(* The thread that configures.                                             *)

LEMMA StartInv == Init => IInv
<1> SUFFICES ASSUME Init PROVE IInv
  OBVIOUS
<1>1. TypeOK
  BY DEF Init, TypeOK, Tasks, ReadTasks
<1>2. tasks = <<"doRead">> /\ ~Has("answer") /\ ~Has("doClose")
  BY DEF Init, Has
<1>3. ReadInv
  BY <1>2 DEF Init, ReadInv
<1>4. \A j : ~UnderWay(j)
  BY <1>2 DEF Init, UnderWay, InOut, InDevice, InAnswers, InTasks
<1>5. OrderInv
  BY <1>2 DEF Init, OrderInv, Rising, InOut, InDevice, InAnswers, InTasks
<1>6. AckInv
  BY DEF Init, AckInv, Waiting
<1>7. FlowInv /\ CloseInv /\ ResultIsTheAnswer
  BY <1>2, <1>4 DEF Init, FlowInv, CloseInv, ResultIsTheAnswer
<1> QED BY <1>1, <1>3, <1>5, <1>6, <1>7 DEF IInv

\* A step that moves nothing from place to place.
LEMMA Unmoved ==
  ASSUME UNCHANGED <<out, tasks, device, answers, arrived>>
  PROVE  /\ \A task : Has(task)' = Has(task)
         /\ \A j : UnderWay(j)' = UnderWay(j)
         /\ OrderInv' = OrderInv
<1>1. \A task : Has(task)' = Has(task) BY DEF Has
<1>2. \A j : /\ InOut(j)' = InOut(j) /\ InDevice(j)' = InDevice(j)
             /\ InAnswers(j)' = InAnswers(j) /\ InTasks(j)' = InTasks(j)
  BY <1>1 DEF InOut, InDevice, InAnswers, InTasks
<1>3. OrderInv' = OrderInv BY <1>2 DEF OrderInv, Rising
<1> QED BY <1>1, <1>2, <1>3 DEF UnderWay

LEMMA ConfigureNext == ASSUME IInv, Configure PROVE IInv'
<1>1. /\ pc = "next" /\ pc' = "send" /\ ack' = None /\ k \notin acked
      /\ UNCHANGED <<k, results, givenUp, out, tasks, device, answers, arrived, reading, handling, acked>>
  BY DEF IInv, AckInv, Configure, Waiting, workerVars
<1>2. (\A task : Has(task)' = Has(task)) /\ (\A j : UnderWay(j)' = UnderWay(j)) /\ OrderInv'
  BY <1>1, Unmoved DEF IInv
<1>3. TypeOK' BY <1>1 DEF IInv, TypeOK
<1>4. ReadInv' BY <1>1, <1>2 DEF IInv, ReadInv
<1>5. FlowInv' BY <1>1, <1>2 DEF IInv, FlowInv, Waiting, Covered
<1>6. AckInv' BY <1>1 DEF AckInv, Answered, None, Waiting
<1>7. CloseInv' /\ ResultIsTheAnswer'
  BY <1>1, <1>2 DEF IInv, CloseInv, ResultIsTheAnswer, Late
<1> QED BY <1>2, <1>3, <1>4, <1>5, <1>6, <1>7 DEF IInv

\* The request at hand goes to the end of all that is under way.
LEMMA SendNext == ASSUME IInv, Send PROVE IInv'
<1>1. /\ pc = "send" /\ pc' = "load" /\ k \in Nat /\ k \notin acked
      /\ out' = Append(out, k) /\ tasks' = Append(tasks, "doWrite")
      /\ UNCHANGED <<k, results, givenUp, ack, device, answers, arrived, reading, handling, acked>>
  BY DEF IInv, TypeOK, AckInv, Send, Waiting
<1>2. /\ tasks' \in Seq(Tasks) /\ Len(tasks') = Len(tasks) + 1
      /\ \A i \in 1..Len(tasks) : tasks'[i] = tasks[i]
      /\ tasks'[Len(tasks) + 1] = "doWrite"
      /\ \A other : Has(other)' <=> (Has(other) \/ other = "doWrite")
  BY <1>1, Posted DEF IInv, TypeOK, Tasks
<1>3. \A j \in Nat : UnderWay(j) => j < k
  BY <1>1 DEF IInv, FlowInv, Waiting
<1>4. /\ out' \in Seq(Nat) /\ Rising(out)' /\ \A j \in Nat : InOut(j)' <=> InOut(j) \/ j = k
  <2>1. out \in Seq(Nat) /\ Rising(out) BY DEF IInv, TypeOK, OrderInv
  <2>2. \A i \in 1..Len(out) : out[i] \in Nat /\ out[i] < k
    BY <1>3, <2>1 DEF UnderWay, InOut
  <2>3. /\ out' \in Seq(Nat) /\ Rising(out)' /\ Len(out') = Len(out) + 1 /\ out'[Len(out) + 1] = k
        /\ \A i \in 1..Len(out) : out'[i] = out[i]
    BY <1>1, <2>1, <2>2, RisingAppend DEF Rising
  <2>4. Len(out) \in Nat BY <2>1
  <2> QED BY <2>3, <2>4 DEF InOut
<1>5. \A j \in Nat : /\ InDevice(j)' = InDevice(j) /\ InAnswers(j)' = InAnswers(j)
                     /\ InTasks(j)' = InTasks(j)
  BY <1>1, <1>2 DEF InDevice, InAnswers, InTasks
<1>6. \A j \in Nat : UnderWay(j)' <=> UnderWay(j) \/ j = k
  BY <1>4, <1>5 DEF UnderWay
<1>7. OrderInv'
  <2>1. /\ Rising(out)' /\ Rising(device)'
        /\ \A a, b \in 1..Len(answers') : a < b => answers'[a].request < answers'[b].request
    BY <1>1, <1>4 DEF IInv, OrderInv, Rising
  <2> QED BY <1>1, <1>3, <1>4, <1>5, <2>1 DEF IInv, OrderInv, UnderWay
<1>8. TypeOK' BY <1>1, <1>2, <1>4 DEF IInv, TypeOK
<1>9. ReadInv'
  <2>1. Len(tasks) \in Nat /\ "doWrite" \notin ReadTasks BY DEF IInv, TypeOK, ReadTasks
  <2> QED BY <1>1, <1>2, <2>1 DEF IInv, ReadInv
<1>10. FlowInv'
  BY <1>1, <1>6 DEF IInv, FlowInv, Waiting, Covered
<1>11. AckInv'
  BY <1>1 DEF IInv, AckInv, Answered, Late, Waiting
<1>12. CloseInv' BY <1>1, <1>2 DEF IInv, CloseInv
<1>13. ResultIsTheAnswer' BY <1>1 DEF IInv, ResultIsTheAnswer, Late
<1> QED BY <1>7, <1>8, <1>9, <1>10, <1>11, <1>12, <1>13 DEF IInv

\* When configure() returns and its request or answer is still under way, that request is
\* covered: given up itself, or taken to be answered after one of its kind was given up.
LEMMA LoadNext == ASSUME IInv, Load PROVE IInv'
<1>1. CASE Answered \/ elapsed >= Timeout
  <2> DEFINE result == ack.type = "ACK" /\ ack.kind = Requests[k].kind
  <2>1. /\ pc = "load" /\ results' = Append(results, result) /\ k' = k + 1
        /\ pc' \in {"failed", "next"}
        /\ givenUp' = IF Answered THEN givenUp ELSE givenUp \union {k}
        /\ UNCHANGED <<ack, out, tasks, arrived, device, answers, reading, handling, acked>>
    BY <1>1 DEF Load, Return, workerVars
  <2>2. /\ results \in Seq(BOOLEAN) /\ Len(results) = k - 1 /\ k \in Nat \ {0}
        /\ acked \subseteq 1..k /\ givenUp \subseteq 1..(k - 1) /\ result \in BOOLEAN
    BY DEF IInv, TypeOK
  <2>3. result => Answered
    BY DEF Answered
  <2>4. (k \in acked => result) /\ (result => k \in acked \/ Late(k))
    BY <2>1, <2>3 DEF IInv, AckInv, Waiting
  <2>5. Answered /\ UnderWay(k) => Late(k)
    BY <2>1, <2>2 DEF IInv, AckInv, Waiting
  <2> HIDE DEF result
  <2>6. /\ results' \in Seq(BOOLEAN) /\ Len(results') = k' - 1 /\ DOMAIN results' = 1..k
        /\ DOMAIN results = 1..k - 1 /\ results'[k] = result
        /\ \A i \in 1..k - 1 : results'[i] = results[i]
    BY <2>1, <2>2
  <2>7. givenUp \subseteq givenUp' /\ (~Answered => k \in givenUp') /\ givenUp' \subseteq 1..k
    BY <2>1, <2>2
  <2>8. \A i : Late(i) => Late(i)'
    BY <2>7 DEF Late
  <2>9. ResultIsTheAnswer'
    <3> SUFFICES ASSUME NEW i \in 1..k
                 PROVE  /\ i \in acked => results'[i]
                        /\ results'[i] => i \in acked \/ Late(i)'
      BY <2>1, <2>6 DEF ResultIsTheAnswer
    <3>1. CASE i = k BY <2>4, <2>6, <2>8, <3>1
    <3>2. CASE i # k
      <4>1. i \in 1..k - 1 BY <2>2, <3>2
      <4> QED BY <2>6, <2>8, <4>1 DEF IInv, ResultIsTheAnswer
    <3> QED BY <3>1, <3>2
  <2>10. TypeOK'
    BY <2>1, <2>2, <2>6, <2>7 DEF IInv, TypeOK
  <2>11. (\A task : Has(task)' = Has(task)) /\ (\A j : UnderWay(j)' = UnderWay(j)) /\ OrderInv'
    BY <2>1, Unmoved DEF IInv
  <2>12. ReadInv' BY <2>1, <2>11 DEF IInv, ReadInv
  <2>13. FlowInv'
    <3> SUFFICES ASSUME NEW j \in Nat, UnderWay(j) PROVE j < k' /\ Covered(j)'
      BY <2>1, <2>2, <2>11 DEF FlowInv
    <3>1. CASE j = k
      <4>1. CASE Answered
        <5>1. PICK g \in givenUp : g < k /\ Requests[g].kind = Requests[k].kind
          BY <2>5, <3>1, <4>1 DEF Late
        <5> QED BY <2>1, <2>2, <2>7, <3>1, <5>1 DEF Covered
      <4>2. CASE ~Answered
        BY <2>1, <2>2, <2>7, <3>1, <4>2 DEF Covered
      <4> QED BY <4>1, <4>2
    <3>2. CASE j # k
      <4>1. j < k /\ Covered(j) BY <3>2 DEF IInv, FlowInv
      <4> QED BY <2>1, <2>2, <2>7, <4>1 DEF Covered
    <3> QED BY <3>1, <3>2
  <2>14. AckInv' BY <2>1, <2>2 DEF AckInv, Waiting
  <2>15. CloseInv' BY <2>1, <2>11 DEF IInv, CloseInv
  <2> QED BY <2>9, <2>10, <2>11, <2>12, <2>13, <2>14, <2>15 DEF IInv
<1>2. CASE ~(Answered \/ elapsed >= Timeout)
  <2>1. /\ pc' = "lock" /\ pc = "load"
        /\ UNCHANGED <<k, results, givenUp, ack, out, tasks, arrived, device, answers, reading,
                       handling, acked>>
    BY <1>2 DEF Load, workerVars
  <2>2. (\A task : Has(task)' = Has(task)) /\ (\A j : UnderWay(j)' = UnderWay(j)) /\ OrderInv'
    BY <2>1, Unmoved DEF IInv
  <2>3. TypeOK' /\ ReadInv' BY <2>1, <2>2 DEF IInv, TypeOK, ReadInv
  <2>4. FlowInv' /\ AckInv'
    BY <2>1, <2>2 DEF IInv, FlowInv, AckInv, Answered, Late, Covered, Waiting
  <2>5. CloseInv' /\ ResultIsTheAnswer'
    BY <2>1, <2>2 DEF IInv, CloseInv, ResultIsTheAnswer, Late
  <2> QED BY <2>2, <2>3, <2>4, <2>5 DEF IInv
<1> QED BY <1>1, <1>2

\* A step of that thread between its tests, or after the last request.
LEMMA MainKept ==
  ASSUME IInv,
         UNCHANGED <<k, results, givenUp, ack, out, tasks, arrived, device, answers, reading,
                     handling, acked>>,
         \/ pc \in {"lock", "waiting"} /\ pc' \in {"load", "waiting"}
         \/ pc = "next" /\ pc' = "done"
         \/ pc = "joining" /\ pc' = "joined" /\ tasks = <<>>
  PROVE  IInv'
<1>1. (\A task : Has(task)' = Has(task)) /\ (\A j : UnderWay(j)' = UnderWay(j)) /\ OrderInv'
  BY Unmoved DEF IInv
<1>2. TypeOK' /\ ReadInv' BY <1>1 DEF IInv, TypeOK, ReadInv
<1>3. pc # "dead" /\ pc' # "dead" /\ pc # "send" /\ pc' # "send" /\ Waiting' = Waiting
  BY DEF Waiting
<1>4. FlowInv' BY <1>1, <1>3 DEF IInv, FlowInv, Covered
<1>5. AckInv' BY <1>1, <1>3 DEF IInv, AckInv, Answered, Late
<1>6. CloseInv'
  BY <1>1 DEF IInv, CloseInv, Has
<1>7. ResultIsTheAnswer' BY DEF IInv, ResultIsTheAnswer, Late
<1> QED BY <1>1, <1>2, <1>4, <1>5, <1>6, <1>7 DEF IInv

LEMMA MainNext == ASSUME IInv, EnterWait \/ Wake \/ Configured \/ Join PROVE IInv'
<1>1. CASE EnterWait \/ Wake
  BY <1>1, MainKept DEF EnterWait, Wake, workerVars
<1>2. CASE Configured \/ Join
  BY <1>2, MainKept DEF Configured, Join, workerVars
<1> QED BY <1>1, <1>2

LEMMA CloseNext == ASSUME IInv, Close PROVE IInv'
<1>1. /\ pc \in {"done", "failed"} /\ pc' = "joining" /\ tasks' = Append(tasks, "doClose")
      /\ UNCHANGED <<k, results, givenUp, ack, out, arrived, device, answers, reading, handling, acked>>
  BY DEF Close
<1>2. /\ tasks' \in Seq(Tasks) /\ Len(tasks') = Len(tasks) + 1
      /\ \A i \in 1..Len(tasks) : tasks'[i] = tasks[i]
      /\ tasks'[Len(tasks) + 1] = "doClose"
      /\ \A other : Has(other)' <=> (Has(other) \/ other = "doClose")
  BY <1>1, Posted DEF IInv, TypeOK, Tasks
<1>3. \A j : /\ InOut(j)' = InOut(j) /\ InDevice(j)' = InDevice(j)
             /\ InAnswers(j)' = InAnswers(j) /\ InTasks(j)' = InTasks(j)
  BY <1>1, <1>2 DEF InOut, InDevice, InAnswers, InTasks
<1>4. \A j : UnderWay(j)' = UnderWay(j) BY <1>3 DEF UnderWay
<1>5. OrderInv' BY <1>1, <1>3 DEF IInv, OrderInv, Rising
<1>6. TypeOK' BY <1>1, <1>2 DEF IInv, TypeOK
<1>7. ReadInv'
  <2>1. Len(tasks) \in Nat /\ "doClose" \notin ReadTasks BY DEF IInv, TypeOK, ReadTasks
  <2> QED BY <1>1, <1>2, <2>1 DEF IInv, ReadInv
<1>8. FlowInv' BY <1>1, <1>4 DEF IInv, FlowInv, Covered, Waiting
<1>9. AckInv' BY <1>1 DEF IInv, AckInv, Waiting
<1>10. CloseInv' BY <1>1 DEF CloseInv
<1>11. ResultIsTheAnswer' BY <1>1 DEF IInv, ResultIsTheAnswer, Late
<1> QED BY <1>5, <1>6, <1>7, <1>8, <1>9, <1>10, <1>11 DEF IInv
-----------------------------------------------------------------------------
(* What steps of the other thread and of the cable have in common.         *)

LEMMA TakenInv ==
  ASSUME TypeOK, ReadInv, tasks # <<>>, tasks' = Tail(tasks)
  PROVE  /\ tasks' \in Seq(Tasks) /\ Has(Head(tasks))
         /\ \A other : Has(other)' => Has(other)
         /\ \A other : Has(other) => Has(other)' \/ other = Head(tasks)
         /\ \A i, j \in 1..Len(tasks') :
              tasks'[i] \in ReadTasks /\ tasks'[j] \in ReadTasks => i = j
         /\ Head(tasks) \in ReadTasks => \A task \in ReadTasks : ~Has(task)'
<1>1. /\ tasks' \in Seq(Tasks) /\ Len(tasks) = Len(tasks') + 1
      /\ \A i \in 1..Len(tasks') : tasks'[i] = tasks[i + 1]
      /\ tasks[1] = Head(tasks)
      /\ \A other : Has(other) <=> (Has(other)' \/ other = Head(tasks))
  BY Taken DEF TypeOK
<1>2. Len(tasks') \in Nat /\ 1 \in 1..Len(tasks) BY <1>1
<1>3. \A i \in 1..Len(tasks') : i + 1 \in 1..Len(tasks) BY <1>1, <1>2
<1>4. \A i, j \in 1..Len(tasks') : tasks'[i] \in ReadTasks /\ tasks'[j] \in ReadTasks => i = j
  <2> SUFFICES ASSUME NEW i \in 1..Len(tasks'), NEW j \in 1..Len(tasks'),
                      tasks'[i] \in ReadTasks, tasks'[j] \in ReadTasks
               PROVE  i = j
    OBVIOUS
  <2>1. i + 1 = j + 1 BY <1>1, <1>3 DEF ReadInv
  <2> QED BY <1>2, <2>1
<1>5. ASSUME Head(tasks) \in ReadTasks, NEW task \in ReadTasks, Has(task)' PROVE FALSE
  <2>1. PICK i \in 1..Len(tasks') : tasks'[i] = task BY <1>5 DEF Has
  <2>2. i + 1 = 1 BY <1>1, <1>2, <1>3, <1>5, <2>1 DEF ReadInv
  <2> QED BY <1>2, <2>2
<1> QED BY <1>1, <1>4, <1>5

LEMMA PostedInv ==
  ASSUME TypeOK, NEW task \in ReadTasks, \A other \in ReadTasks : ~Has(other),
         tasks' = Append(tasks, task)
  PROVE  /\ tasks' \in Seq(Tasks)
         /\ \A other : Has(other)' <=> (Has(other) \/ other = task)
         /\ \A i, j \in 1..Len(tasks') :
              tasks'[i] \in ReadTasks /\ tasks'[j] \in ReadTasks => i = j
<1>1. /\ tasks' \in Seq(Tasks) /\ Len(tasks') = Len(tasks) + 1
      /\ \A i \in 1..Len(tasks) : tasks'[i] = tasks[i]
      /\ tasks'[Len(tasks) + 1] = task
      /\ \A other : Has(other)' <=> (Has(other) \/ other = task)
  BY Posted DEF TypeOK, Tasks
<1>2. Len(tasks) \in Nat BY DEF TypeOK
<1>3. \A i \in 1..Len(tasks') : tasks'[i] \in ReadTasks => i = Len(tasks) + 1
  BY <1>1, <1>2 DEF Has
<1> QED BY <1>1, <1>3

\* Less is under way, and nothing else that the result rests on has changed.
LEMMA LessUnderWay ==
  ASSUME IInv, UNCHANGED <<pc, k, results, givenUp, ack, acked>>,
         \A j \in Nat : UnderWay(j)' => UnderWay(j)
  PROVE  FlowInv' /\ AckInv' /\ ResultIsTheAnswer'
<1>1. Waiting' = Waiting /\ Answered' = Answered /\ (\A j : Covered(j)' = Covered(j) /\ Late(j)' = Late(j))
  BY DEF Waiting, Answered, Covered, Late
<1>2. FlowInv' BY <1>1 DEF IInv, FlowInv
<1>3. AckInv' BY <1>1 DEF IInv, TypeOK, AckInv
<1>4. ResultIsTheAnswer' BY <1>1 DEF IInv, ResultIsTheAnswer
<1> QED BY <1>2, <1>3, <1>4

\* Tasks are taken or posted that carry no answer.
LEMMA Kept ==
  ASSUME IInv, tasks' \in Seq(Tasks), ReadInv',
         Has("answer")' = Has("answer"), Has("doClose")' => Has("doClose"),
         UNCHANGED <<pc, k, results, givenUp, ack, acked, out, device, answers, arrived>>
  PROVE  IInv'
<1>1. \A j : /\ InOut(j)' = InOut(j) /\ InDevice(j)' = InDevice(j)
             /\ InAnswers(j)' = InAnswers(j) /\ InTasks(j)' = InTasks(j)
  BY DEF InOut, InDevice, InAnswers, InTasks
<1>2. OrderInv' BY <1>1 DEF IInv, OrderInv, Rising
<1>3. FlowInv' /\ AckInv' /\ ResultIsTheAnswer' BY <1>1, LessUnderWay DEF UnderWay
<1>4. TypeOK' /\ CloseInv' BY DEF IInv, TypeOK, CloseInv
<1> QED BY <1>2, <1>3, <1>4 DEF IInv

\* The port goes, and with it all that was on the cable.
LEMMA Dropped ==
  ASSUME IInv, tasks' \in Seq(Tasks), ReadInv', device' = <<>>, answers' = <<>>,
         Has("answer")' = Has("answer"), Has("doClose")' => Has("doClose"),
         UNCHANGED <<pc, k, results, givenUp, ack, acked, out, arrived>>
  PROVE  IInv'
<1>1. \A j : /\ InOut(j)' = InOut(j) /\ InTasks(j)' = InTasks(j)
             /\ ~InDevice(j)' /\ ~InAnswers(j)'
  BY DEF InOut, InDevice, InAnswers, InTasks
<1>2. OrderInv' BY <1>1 DEF IInv, OrderInv, Rising
<1>3. FlowInv' /\ AckInv' /\ ResultIsTheAnswer' BY <1>1, LessUnderWay DEF UnderWay
<1>4. TypeOK' /\ CloseInv' BY DEF IInv, TypeOK, CloseInv
<1> QED BY <1>2, <1>3, <1>4 DEF IInv
-----------------------------------------------------------------------------
(* The thread of AsyncWorker.                                              *)

LEMMA doReadNext == ASSUME IInv, doRead PROVE IInv'
<1>1. /\ tasks # <<>> /\ Head(tasks) = "doRead" /\ tasks' = Tail(tasks)
      /\ handling = "none" /\ reading' = TRUE
      /\ UNCHANGED <<pc, k, results, givenUp, ack, acked, out, device, answers, arrived, handling>>
  BY DEF doRead, Begin, mainVars
<1>2. TypeOK /\ ReadInv /\ "doRead" \in ReadTasks /\ "answer" \in ReadTasks
  BY DEF IInv, ReadTasks
<1>3. /\ tasks' \in Seq(Tasks) /\ \A other : Has(other)' => Has(other)
      /\ \A i, j \in 1..Len(tasks') :
           tasks'[i] \in ReadTasks /\ tasks'[j] \in ReadTasks => i = j
      /\ \A other : Has(other) => Has(other)' \/ other = "doRead"
      /\ \A task \in ReadTasks : ~Has(task)'
  BY <1>1, <1>2, TakenInv
<1>4. ReadInv' BY <1>1, <1>2, <1>3 DEF ReadInv
<1>5. Has("answer")' = Has("answer") BY <1>3 DEF Has
<1> QED BY <1>1, <1>3, <1>4, <1>5, Kept

LEMMA doWriteNext == ASSUME IInv, doWrite PROVE IInv'
<1>1. /\ tasks # <<>> /\ Head(tasks) = "doWrite" /\ tasks' = Tail(tasks) /\ pc # "dead"
      /\ UNCHANGED <<k, results, givenUp, ack, acked, answers, arrived, reading, handling>>
  BY DEF doWrite, Begin
<1>2. TypeOK /\ ReadInv BY DEF IInv
<1>3. /\ tasks' \in Seq(Tasks) /\ \A other : Has(other)' => Has(other)
      /\ \A other : Has(other) => Has(other)' \/ other = "doWrite"
      /\ \A i, j \in 1..Len(tasks') :
           tasks'[i] \in ReadTasks /\ tasks'[j] \in ReadTasks => i = j
  BY <1>1, <1>2, TakenInv
<1>4. ReadInv' BY <1>1, <1>2, <1>3 DEF ReadInv
<1>5. Has("answer")' = Has("answer") /\ (Has("doClose")' => Has("doClose"))
  BY <1>3 DEF Has
<1>6. CASE out = <<>>
  <2>1. UNCHANGED <<pc, out, device>> BY <1>6 DEF doWrite
  <2> QED BY <1>1, <1>3, <1>4, <1>5, <2>1, Kept
<1>7. CASE out # <<>> /\ port = "open"
  <2>1. device' = device \o out /\ out' = <<>> /\ pc' = pc BY <1>7 DEF doWrite
  <2>2. out \in Seq(Nat) /\ device \in Seq(Nat) /\ Rising(out) /\ Rising(device)
    BY <1>2 DEF IInv, TypeOK, OrderInv
  <2>3. \A a \in 1..Len(device), b \in 1..Len(out) : device[a] < out[b]
    <3> SUFFICES ASSUME NEW a \in 1..Len(device), NEW b \in 1..Len(out) PROVE device[a] < out[b]
      OBVIOUS
    <3>1. device[a] \in Nat /\ out[b] \in Nat BY <2>2
    <3> QED BY <3>1 DEF IInv, OrderInv, InDevice, InOut
  <2>4. /\ device \o out \in Seq(Nat) /\ Rising(device \o out)
        /\ \A x : (\E i \in 1..Len(device \o out) : (device \o out)[i] = x) <=>
                     (\E i \in 1..Len(device) : device[i] = x) \/ (\E i \in 1..Len(out) : out[i] = x)
    BY <2>2, <2>3, RisingConcat
  <2>5. /\ device' \in Seq(Nat) /\ Rising(device)'
        /\ \A j : InDevice(j)' <=> InDevice(j) \/ InOut(j)
    BY <2>1, <2>4 DEF Rising, InDevice, InOut
  <2>6. \A j : ~InOut(j)'
    BY <2>1 DEF InOut
  <2>7. \A j : InAnswers(j)' = InAnswers(j) /\ InTasks(j)' = InTasks(j)
    BY <1>1, <1>5 DEF InAnswers, InTasks
  <2>8. OrderInv'
    <3>1. Rising(out)' BY <2>1 DEF Rising
    <3>2. \A a, b \in 1..Len(answers') : a < b => answers'[a].request < answers'[b].request
      BY <1>1 DEF IInv, OrderInv
    <3> QED BY <2>5, <2>6, <2>7, <3>1, <3>2 DEF IInv, OrderInv
  <2>9. FlowInv' /\ AckInv' /\ ResultIsTheAnswer'
    BY <1>1, <2>1, <2>5, <2>6, <2>7, LessUnderWay DEF UnderWay
  <2>10. TypeOK' BY <1>1, <1>2, <1>3, <2>1, <2>5 DEF TypeOK
  <2>11. CloseInv' BY <1>5, <2>1 DEF IInv, CloseInv
  <2> QED BY <1>4, <2>8, <2>9, <2>10, <2>11 DEF IInv
<1>8. CASE out # <<>> /\ port # "open"
  <2>1. pc' = "dead" /\ UNCHANGED <<out, device>> BY <1>8 DEF doWrite
  <2>2. \A j : /\ InOut(j)' = InOut(j) /\ InDevice(j)' = InDevice(j)
               /\ InAnswers(j)' = InAnswers(j) /\ InTasks(j)' = InTasks(j)
    BY <1>1, <1>5, <2>1 DEF InOut, InDevice, InAnswers, InTasks
  <2>3. OrderInv' BY <1>1, <2>1, <2>2 DEF IInv, OrderInv, Rising
  <2>4. \A j : UnderWay(j)' = UnderWay(j) BY <2>2 DEF UnderWay
  <2>5. FlowInv' BY <1>1, <2>1, <2>4 DEF IInv, FlowInv, Covered
  <2>6. k \notin acked
    <3>1. out[1] \in Nat /\ 1 \in 1..Len(out) BY <1>2, <1>8 DEF TypeOK
    <3>2. UnderWay(out[1]) BY <3>1 DEF UnderWay, InOut
    <3> QED BY <3>1, <3>2 DEF IInv, AckInv
  <2>7. AckInv' BY <1>1, <2>1, <2>6 DEF AckInv, Waiting
  <2>8. TypeOK' BY <1>1, <1>2, <1>3, <2>1 DEF TypeOK
  <2>9. CloseInv' /\ ResultIsTheAnswer'
    BY <1>1, <2>1 DEF IInv, CloseInv, ResultIsTheAnswer, Late
  <2> QED BY <1>4, <2>3, <2>5, <2>7, <2>8, <2>9 DEF IInv
<1> QED BY <1>6, <1>7, <1>8

LEMMA doCloseNext == ASSUME IInv, doClose PROVE IInv'
<1>1. /\ tasks # <<>> /\ Head(tasks) = "doClose" /\ tasks' = Tail(tasks)
      /\ device' = <<>> /\ answers' = <<>>
      /\ UNCHANGED <<pc, k, results, givenUp, ack, acked, out, arrived, reading, handling>>
  BY DEF doClose, Begin, mainVars
<1>2. TypeOK /\ ReadInv BY DEF IInv
<1>3. /\ tasks' \in Seq(Tasks) /\ \A other : Has(other)' => Has(other)
      /\ \A other : Has(other) => Has(other)' \/ other = "doClose"
      /\ \A i, j \in 1..Len(tasks') :
           tasks'[i] \in ReadTasks /\ tasks'[j] \in ReadTasks => i = j
  BY <1>1, <1>2, TakenInv
<1>4. ReadInv' BY <1>1, <1>2, <1>3 DEF ReadInv
<1>5. Has("answer")' = Has("answer") /\ (Has("doClose")' => Has("doClose"))
  BY <1>3 DEF Has
<1> QED BY <1>1, <1>3, <1>4, <1>5, Dropped

LEMMA ReadCompletesNext ==
  ASSUME IInv, NEW what \in {"answer", "other", "error"}, ReadCompletes(what)
  PROVE  IInv'
<1>1. /\ tasks' = Append(tasks, what) /\ reading /\ reading' = FALSE
      /\ UNCHANGED <<pc, k, results, givenUp, ack, acked, out, device, handling>>
  BY DEF ReadCompletes, mainVars
<1>2. TypeOK /\ ReadInv /\ what \in ReadTasks BY DEF IInv, ReadTasks
<1>3. handling = "none" /\ \A task \in ReadTasks : ~Has(task)
  BY <1>1, <1>2 DEF ReadInv
<1>4. /\ tasks' \in Seq(Tasks)
      /\ \A other : Has(other)' <=> (Has(other) \/ other = what)
      /\ \A i, j \in 1..Len(tasks') :
           tasks'[i] \in ReadTasks /\ tasks'[j] \in ReadTasks => i = j
  BY <1>1, <1>2, <1>3, PostedInv
<1>5. ~Has("answer") /\ (Has("doClose")' => Has("doClose"))
  BY <1>3, <1>4 DEF ReadTasks
<1>6. CASE what = "answer"
  <2>1. answers # <<>> /\ arrived' = Head(answers) /\ answers' = Tail(answers)
    BY <1>6 DEF ReadCompletes
  <2>2. answers \in Seq(Arrival) BY <1>2 DEF TypeOK
  <2>3. /\ answers' \in Seq(Arrival) /\ Len(answers) = Len(answers') + 1
        /\ \A i \in 1..Len(answers') : answers'[i] = answers[i + 1]
        /\ arrived' = answers[1] /\ arrived' \in Arrival
    BY <2>1, <2>2
  <2>4. Len(answers') \in Nat /\ 1 \in 1..Len(answers) BY <2>3
  <2>5. \A i \in 1..Len(answers') : i + 1 \in 1..Len(answers) BY <2>3, <2>4
  <2>6. ReadInv' BY <1>1, <1>3, <1>4, <2>3 DEF ReadInv
  <2>7. \A j : InOut(j)' = InOut(j) /\ InDevice(j)' = InDevice(j) /\ ~InTasks(j)
    BY <1>1, <1>5 DEF InOut, InDevice, InTasks
  <2>8. \A j : InTasks(j)' => j = answers[1].request /\ InAnswers(j)
    BY <2>3, <2>4 DEF InTasks, InAnswers
  <2>9. \A j : InAnswers(j)' => InAnswers(j) /\ answers[1].request < j
    <3> SUFFICES ASSUME NEW j, InAnswers(j)' PROVE InAnswers(j) /\ answers[1].request < j
      OBVIOUS
    <3>1. PICK i \in 1..Len(answers') : answers'[i].request = j BY DEF InAnswers
    <3>2. i + 1 \in 1..Len(answers) /\ answers[i + 1].request = j /\ 1 < i + 1
      BY <2>3, <2>4, <2>5, <3>1
    <3> QED BY <2>4, <3>2 DEF IInv, OrderInv, InAnswers
  <2>10. OrderInv'
    <3>1. Rising(out)' /\ Rising(device)' BY <1>1 DEF IInv, OrderInv, Rising
    <3>2. \A a, b \in 1..Len(answers') : a < b => answers'[a].request < answers'[b].request
      BY <2>3, <2>4, <2>5 DEF IInv, OrderInv
    <3> QED BY <2>7, <2>8, <2>9, <3>1, <3>2 DEF IInv, OrderInv
  <2>11. FlowInv' /\ AckInv' /\ ResultIsTheAnswer'
    BY <1>1, <2>7, <2>8, <2>9, LessUnderWay DEF UnderWay
  <2>12. TypeOK' BY <1>1, <1>2, <1>4, <2>3 DEF TypeOK
  <2>13. CloseInv' BY <1>1, <1>5 DEF IInv, CloseInv
  <2> QED BY <2>6, <2>10, <2>11, <2>12, <2>13 DEF IInv
<1>7. CASE what # "answer"
  <2>1. UNCHANGED <<arrived, answers>> /\ Has("answer")' = Has("answer")
    BY <1>4, <1>5, <1>7 DEF ReadCompletes, Has
  <2>2. ReadInv' BY <1>1, <1>3, <1>4, <1>5, <2>1 DEF ReadInv
  <2> QED BY <1>1, <1>4, <1>5, <2>1, <2>2, Kept
<1> QED BY <1>6, <1>7

\* The answer that is handled is that of the request that is waited for, and then nothing
\* more is under way; or it is a late one, of a request that is covered.
LEMMA readEndNext ==
  ASSUME IInv, NEW what \in {"answer", "other", "error"}, readEnd(what)
  PROVE  IInv'
<1>1. /\ tasks # <<>> /\ Head(tasks) = what /\ tasks' = Tail(tasks) /\ pc # "dead"
      /\ handling = "none"
      /\ UNCHANGED <<pc, k, results, givenUp, out, device, answers, arrived, reading>>
  BY DEF readEnd, Begin, mainVars
<1>2. TypeOK /\ ReadInv /\ what \in ReadTasks BY DEF IInv, ReadTasks
<1>3. /\ tasks' \in Seq(Tasks) /\ Has(what) /\ \A other : Has(other)' => Has(other)
      /\ \A other : Has(other) => Has(other)' \/ other = what
      /\ \A i, j \in 1..Len(tasks') :
           tasks'[i] \in ReadTasks /\ tasks'[j] \in ReadTasks => i = j
      /\ \A task \in ReadTasks : ~Has(task)'
  BY <1>1, <1>2, TakenInv
<1>4. ReadInv' /\ ~Has("answer")'
  <2>1. ~reading' BY <1>1, <1>2, <1>3 DEF ReadInv
  <2>2. ~Has("answer")' BY <1>3 DEF ReadTasks
  <2> QED BY <1>3, <2>1, <2>2 DEF ReadInv
<1>5. CASE what = "answer"
  <2> DEFINE r == arrived.request
  <2>1. arrived \in Arrival /\ r \in Nat /\ InTasks(r) /\ arrived.type \in {"ACK", "NACK"}
    BY <1>2, <1>3, <1>5 DEF ReadInv, InTasks, Arrival
  <2>2. /\ ack' = [type |-> arrived.type, kind |-> Requests[r].kind]
        /\ acked' = IF arrived.type = "ACK" /\ r = k /\ Waiting THEN acked \union {k} ELSE acked
    BY <1>5 DEF readEnd, Waiting
  <2> HIDE DEF r
  <2>3. \A j : /\ InOut(j)' = InOut(j) /\ InDevice(j)' = InDevice(j)
               /\ InAnswers(j)' = InAnswers(j) /\ ~InTasks(j)'
    BY <1>1, <1>4 DEF InOut, InDevice, InAnswers, InTasks
  <2>4. OrderInv' BY <1>1, <2>3 DEF IInv, OrderInv, Rising
  <2>5. \A j \in Nat : UnderWay(j)' => UnderWay(j) /\ r < j
    BY <2>1, <2>3 DEF IInv, OrderInv, UnderWay
  <2>6. UnderWay(r) BY <2>1 DEF UnderWay
  <2>7. k \in Nat /\ k \notin acked
    BY <1>2, <2>1, <2>6 DEF IInv, TypeOK, AckInv
  <2>8. \A j \in Nat : UnderWay(j) => j <= k
    BY <2>7 DEF IInv, FlowInv
  <2>9. Waiting' = Waiting /\ \A j : Covered(j)' = Covered(j) /\ Late(j)' = Late(j)
    BY <1>1 DEF Waiting, Covered, Late
  <2>10. FlowInv' BY <1>1, <2>5, <2>9 DEF IInv, FlowInv
  <2>11. AckInv'
    <3>1. CASE r = k
      <4>1. Waiting BY <1>1, <2>1, <2>6, <3>1 DEF IInv, FlowInv
      <4>2. \A j \in Nat : ~UnderWay(j)'
        BY <2>5, <2>7, <2>8, <3>1
      <4>3. pc' # "send" BY <1>1, <4>1 DEF Waiting
      <4>4. CASE arrived.type = "ACK"
        BY <1>1, <2>2, <2>9, <3>1, <4>1, <4>2, <4>3, <4>4 DEF AckInv
      <4>5. CASE arrived.type = "NACK"
        BY <1>1, <2>2, <2>7, <2>9, <3>1, <4>1, <4>2, <4>3, <4>5 DEF AckInv, Answered
      <4> QED BY <2>1, <4>4, <4>5
    <3>2. CASE r # k
      <4>1. r < k /\ Covered(r) BY <2>1, <2>6, <3>2 DEF IInv, FlowInv
      <4>2. givenUp \subseteq Nat BY <1>2 DEF TypeOK
      <4>3. Answered' => Late(k)'
        BY <1>1, <2>1, <2>2, <2>7, <4>1, <4>2 DEF Answered, Covered, Late
      <4>4. k' \notin acked' BY <1>1, <2>2, <2>7, <3>2
      <4> QED BY <1>1, <4>3, <4>4 DEF AckInv
    <3> QED BY <3>1, <3>2
  <2>12. DOMAIN results = 1..k - 1 BY <1>2 DEF TypeOK
  <2>13. \A i \in 1..k - 1 : i \in acked' <=> i \in acked BY <2>2, <2>7
  <2>14. ResultIsTheAnswer'
    BY <1>1, <2>9, <2>12, <2>13 DEF IInv, ResultIsTheAnswer
  <2>15. TypeOK' BY <1>1, <1>2, <1>3, <2>2 DEF TypeOK
  <2>16. CloseInv' BY <1>1, <1>3 DEF IInv, CloseInv
  <2> QED BY <1>4, <2>4, <2>10, <2>11, <2>14, <2>15, <2>16 DEF IInv
<1>6. CASE what # "answer"
  <2>1. UNCHANGED <<ack, acked>> BY <1>6 DEF readEnd
  <2>2. Has("answer")' = Has("answer") /\ (Has("doClose")' => Has("doClose"))
    BY <1>3, <1>6 DEF Has
  <2> QED BY <1>1, <1>3, <1>4, <2>1, <2>2, Kept
<1> QED BY <1>5, <1>6

LEMMA ReadEndedNext == ASSUME IInv, ReadEnded PROVE IInv'
<1>1. /\ handling # "none" /\ handling' = "none"
      /\ UNCHANGED <<pc, k, results, givenUp, ack, acked, out, device, answers, arrived, reading>>
  BY DEF ReadEnded, mainVars
<1>2. TypeOK /\ ReadInv BY DEF IInv
<1>3. ~reading /\ (\A task \in ReadTasks : ~Has(task)) /\ ~Has("answer")
  BY <1>1, <1>2 DEF ReadInv, ReadTasks
<1>4. CASE stopping
  <2>1. tasks' = tasks BY <1>4 DEF ReadEnded
  <2>2. \A task : Has(task)' = Has(task) BY <2>1 DEF Has
  <2>3. tasks' \in Seq(Tasks) /\ ReadInv'
    BY <1>1, <1>2, <1>3, <2>1, <2>2 DEF TypeOK, ReadInv
  <2> QED BY <1>1, <2>2, <2>3, Kept
<1>5. CASE ~stopping
  <2>1. tasks' = Append(tasks, "doRead") /\ "doRead" \in ReadTasks
    BY <1>5 DEF ReadEnded, ReadTasks
  <2>2. /\ tasks' \in Seq(Tasks)
        /\ \A other : Has(other)' <=> (Has(other) \/ other = "doRead")
        /\ \A i, j \in 1..Len(tasks') :
             tasks'[i] \in ReadTasks /\ tasks'[j] \in ReadTasks => i = j
    BY <1>2, <1>3, <2>1, PostedInv
  <2>3. Has("answer")' = Has("answer") /\ (Has("doClose")' => Has("doClose"))
    BY <2>2 DEF Has
  <2>4. ReadInv' BY <1>1, <1>3, <2>2, <2>3 DEF ReadInv
  <2> QED BY <1>1, <2>2, <2>3, <2>4, Kept
<1> QED BY <1>4, <1>5
-----------------------------------------------------------------------------
(* The receiver, the cable and time.                                       *)

LEMMA AnswerNext ==
  ASSUME IInv, NEW type \in {"ACK", "NACK", "lost"}, Answer(type)
  PROVE  IInv'
<1> DEFINE h == Head(device)
           new == [request |-> h, type |-> type, age |-> 0]
<1>1. /\ device # <<>> /\ device' = Tail(device)
      /\ answers' = IF type = "lost" THEN answers ELSE Append(answers, new)
      /\ UNCHANGED <<pc, k, results, givenUp, ack, acked, out, tasks, arrived, reading, handling>>
  BY DEF Answer, mainVars, workerVars
<1>2. device \in Seq(Nat) /\ answers \in Seq(Arrival) /\ Rising(device)
  BY DEF IInv, TypeOK, OrderInv
<1>3. /\ Tail(device) \in Seq(Nat) /\ h \in Nat /\ h = device[1] /\ 1 \in 1..Len(device)
      /\ Rising(Tail(device))
      /\ \A i \in 1..Len(Tail(device)) : /\ h < Tail(device)[i]
                                         /\ i + 1 \in 1..Len(device)
                                         /\ Tail(device)[i] = device[i + 1]
  BY <1>1, <1>2, RisingTail
<1>4. type # "lost" => new \in Arrival /\ new.request = h
  BY <1>3 DEF Arrival
<1> HIDE DEF h, new
<1>5. device' \in Seq(Nat) /\ Rising(device)' /\ InDevice(h)
  BY <1>1, <1>3 DEF Rising, InDevice
<1>6. \A j : InDevice(j)' => InDevice(j) /\ h < j
  BY <1>1, <1>3 DEF InDevice
<1>7. \A j : InOut(j)' = InOut(j) /\ InTasks(j)' = InTasks(j) /\ \A task : Has(task)' = Has(task)
  BY <1>1 DEF InOut, InTasks, Has
<1>8. Len(answers) \in Nat /\ \A i \in 1..Len(answers) : answers[i].request \in Nat
  <2>1. \A i \in 1..Len(answers) : answers[i] \in Arrival BY <1>2
  <2> QED BY <1>2, <2>1 DEF Arrival
<1>9. /\ answers' \in Seq(Arrival)
      /\ \A j : InAnswers(j)' => InAnswers(j) \/ j = h
      /\ \A a, b \in 1..Len(answers') : a < b => answers'[a].request < answers'[b].request
  <2>1. CASE type = "lost"
    BY <1>1, <1>2, <2>1 DEF IInv, OrderInv, InAnswers
  <2>2. CASE type # "lost"
    <3>1. /\ answers' \in Seq(Arrival) /\ Len(answers') = Len(answers) + 1
          /\ \A i \in 1..Len(answers) : answers'[i] = answers[i]
          /\ answers'[Len(answers) + 1].request = h
      BY <1>1, <1>2, <1>4, <2>2
    <3>2. \A i \in 1..Len(answers') : i \in 1..Len(answers) \/ i = Len(answers) + 1
      BY <1>8, <3>1
    <3>3. \A i \in 1..Len(answers) : answers[i].request < h
      BY <1>3, <1>5, <1>8 DEF IInv, OrderInv, InAnswers
    <3>4. \A j : InAnswers(j)' => InAnswers(j) \/ j = h
      BY <3>1, <3>2 DEF InAnswers
    <3>5. ASSUME NEW a \in 1..Len(answers'), NEW b \in 1..Len(answers'), a < b
          PROVE  answers'[a].request < answers'[b].request
      <4>1. a \in 1..Len(answers) BY <1>8, <3>1, <3>2, <3>5
      <4>2. CASE b \in 1..Len(answers)
        BY <3>1, <3>5, <4>1, <4>2 DEF IInv, OrderInv
      <4>3. CASE b = Len(answers) + 1
        BY <3>1, <3>3, <4>1, <4>3
      <4> QED BY <3>2, <4>2, <4>3
    <3> QED BY <3>1, <3>4, <3>5
  <2> QED BY <2>1, <2>2
<1>10. OrderInv'
  <2>1. Rising(out)' BY <1>1 DEF IInv, OrderInv, Rising
  <2> QED BY <1>3, <1>5, <1>6, <1>7, <1>9, <2>1 DEF IInv, OrderInv
<1>11. FlowInv' /\ AckInv' /\ ResultIsTheAnswer'
  BY <1>1, <1>5, <1>6, <1>7, <1>9, LessUnderWay DEF UnderWay
<1>12. TypeOK' BY <1>1, <1>5, <1>9 DEF IInv, TypeOK
<1>13. ReadInv' /\ CloseInv' BY <1>1, <1>7 DEF IInv, ReadInv, CloseInv
<1> QED BY <1>10, <1>11, <1>12, <1>13 DEF IInv

LEMMA UnplugNext == ASSUME IInv, Unplug PROVE IInv'
<1>1. /\ device' = <<>> /\ answers' = <<>>
      /\ UNCHANGED <<pc, k, results, givenUp, ack, acked, out, tasks, arrived, reading, handling>>
  BY DEF Unplug, mainVars, workerVars
<1>2. \A task : Has(task)' = Has(task) BY <1>1 DEF Has
<1>3. tasks' \in Seq(Tasks) /\ ReadInv'
  BY <1>1, <1>2 DEF IInv, TypeOK, ReadInv
<1> QED BY <1>1, <1>2, <1>3, Dropped

\* Time passes: answers grow older, and stay where they are.
LEMMA TickNext == ASSUME IInv, Tick PROVE IInv'
<1>1. /\ answers' = [i \in DOMAIN answers |-> [answers[i] EXCEPT !.age = @ + 1]]
      /\ UNCHANGED <<pc, k, results, givenUp, ack, acked, out, tasks, arrived, device, reading,
                     handling>>
  BY DEF Tick, workerVars
<1>2. answers \in Seq(Arrival) BY DEF IInv, TypeOK
<1>3. /\ answers' \in Seq(Arrival) /\ Len(answers') = Len(answers)
      /\ \A i \in 1..Len(answers) : answers'[i].request = answers[i].request
  <2>1. DOMAIN answers = 1..Len(answers) /\ Len(answers) \in Nat BY <1>2
  <2>2. \A i \in 1..Len(answers) :
          /\ [answers[i] EXCEPT !.age = @ + 1] \in Arrival
          /\ [answers[i] EXCEPT !.age = @ + 1].request = answers[i].request
    <3> SUFFICES ASSUME NEW i \in 1..Len(answers)
                 PROVE  /\ [answers[i] EXCEPT !.age = @ + 1] \in Arrival
                        /\ [answers[i] EXCEPT !.age = @ + 1].request = answers[i].request
      OBVIOUS
    <3>1. answers[i] \in Arrival BY <1>2, ElementOfSeq
    <3> QED BY <3>1 DEF Arrival
  <2>3. answers' \in [1..Len(answers) -> Arrival] BY <1>1, <2>1, <2>2
  <2>4. answers' \in Seq(Arrival) BY <2>1, <2>3, SeqDef
  <2>5. DOMAIN answers' = 1..Len(answers) BY <2>3
  <2>6. Len(answers') = Len(answers) BY <2>1, <2>4, <2>5, LenProperties
  <2> QED BY <1>1, <2>1, <2>2, <2>4, <2>6
<1>4. (\A task : Has(task)' = Has(task)) /\ \A j : InAnswers(j)' = InAnswers(j)
  BY <1>1, <1>3 DEF Has, InAnswers
<1>5. \A j : InOut(j)' = InOut(j) /\ InDevice(j)' = InDevice(j) /\ InTasks(j)' = InTasks(j)
  BY <1>1 DEF InOut, InDevice, InTasks, Has
<1>6. OrderInv'
  <2>1. Rising(out)' /\ Rising(device)' BY <1>1 DEF IInv, OrderInv, Rising
  <2>2. \A a, b \in 1..Len(answers') : a < b => answers'[a].request < answers'[b].request
    BY <1>3 DEF IInv, OrderInv
  <2> QED BY <1>4, <1>5, <2>1, <2>2 DEF IInv, OrderInv
<1>7. FlowInv' /\ AckInv' /\ ResultIsTheAnswer'
  BY <1>1, <1>4, <1>5, LessUnderWay DEF UnderWay
<1>8. TypeOK' BY <1>1, <1>3 DEF IInv, TypeOK
<1>9. ReadInv' /\ CloseInv' BY <1>1, <1>4 DEF IInv, ReadInv, CloseInv
<1> QED BY <1>6, <1>7, <1>8, <1>9 DEF IInv
-----------------------------------------------------------------------------
LEMMA Invariance == Spec => []IInv
<1>1. Init => IInv BY StartInv
<1>2. IInv /\ [Next]_vars => IInv'
  <2> SUFFICES ASSUME IInv, [Next]_vars PROVE IInv'
    OBVIOUS
  <2>1. CASE Main
    BY <2>1, ConfigureNext, SendNext, LoadNext, MainNext DEF Main
  <2>2. CASE Worker
    BY <2>2, doReadNext, doWriteNext, doCloseNext, readEndNext, ReadEndedNext DEF Worker
  <2>3. CASE Cable
    BY <2>3, ReadCompletesNext, AnswerNext DEF Cable
  <2>4. CASE UNCHANGED vars
    <3>1. \A task : Has(task)' = Has(task) BY <2>4 DEF vars, workerVars, Has
    <3>2. tasks' \in Seq(Tasks) /\ ReadInv'
      BY <2>4, <3>1 DEF IInv, TypeOK, ReadInv, vars, workerVars
    <3> QED BY <2>4, <3>1, <3>2, Kept DEF vars, mainVars, workerVars
  <2> QED BY <2>1, <2>2, <2>3, <2>4, CloseNext, UnplugNext, TickNext DEF Next
<1> QED BY <1>1, <1>2, PTL DEF Spec

\* configure() returns true whenever the request's own acknowledgement was handled in time,
\* and true without it only after it gave up on an earlier request of the same kind: for any
\* requests, any timeout, and answers that outlive it (gps.hpp:544-576, gps.cpp:600-619).
THEOREM OwnAnswer == Spec => []ResultIsTheAnswer
BY Invariance, PTL DEF IInv
===============================================================================
