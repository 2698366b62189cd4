------------------------------ MODULE UbloxDriver ------------------------------
(***************************************************************************)
(* How the u-blox driver configures a receiver when it starts: Gps sends   *)
(* one request after the other and waits for the acknowledgement of each,  *)
(* while the thread of AsyncWorker reads, writes and calls the handlers.   *)
(*                                                                         *)
(* The last answer is in one atomic variable; it names the kind of the     *)
(* request it answers, not the request.  The threads meet in read_mutex_,  *)
(* which the worker holds while it handles what it read, and in a          *)
(* condition variable that tells of anything read.  The receiver and the   *)
(* cable are external: they keep the order of requests and answers, and an *)
(* answer is lost or comes within MaxAnswer, which may be long after its   *)
(* request was given up.                                                   *)
(***************************************************************************)
EXTENDS Integers, Sequences

CONSTANTS
  Requests,   \* what is sent: the kind of each, and whether a failure ends the configuration
  Timeout,    \* default_timeout_, in ticks
  MaxAnswer   \* bound on the time to an answer

ASSUME DriverAssumption ==
  /\ Requests \in Seq([kind : STRING, must : BOOLEAN])
  /\ MaxAnswer \in Nat /\ Timeout \in Nat

VARIABLES
  pc,         \* "next", "send", "load", "lock", "waiting", "done", "failed",
              \* "joining", "joined" or "dead"
  k,          \* the request at hand
  results,    \* what configure() returned for each
  ack,        \* ack_
  elapsed,    \* time since waitForAcknowledge() began
  waited,     \* time since wait() began
  notified,   \* read_condition_ was notified since
  out,        \* out_
  tasks,      \* what io_service_ has to run, in order
  reading,    \* an asynchronous read is under way
  arrived,    \* the answer in the buffer of the last read that ended
  handling,   \* the task that holds read_mutex_, or "none"
  stopping,   \* stopping_
  port,       \* "open", "gone" or "closed"
  fed,        \* other data came since the last tick: the line has a rate
  device,     \* requests on their way to the receiver
  answers,    \* answers on their way to the driver
  acked,      \* requests whose own ACK was handled before configure() returned (history)
  givenUp     \* requests that timed out with nothing that looks like an answer (history)

mainVars   == <<pc, k, results, elapsed, waited, givenUp>>
workerVars == <<tasks, reading, arrived, handling, stopping>>
vars == <<mainVars, ack, notified, out, workerVars, port, fed, device, answers, acked>>

None == [type |-> "WAIT", kind |-> "none"]

Init ==
  /\ pc = "next" /\ k = 1 /\ results = <<>> /\ ack = None
  /\ elapsed = 0 /\ waited = 0 /\ notified = FALSE
  /\ out = <<>> /\ tasks = <<"doRead">> /\ reading = FALSE /\ handling = "none"
  /\ arrived = [request |-> 0, type |-> "WAIT", age |-> 0]
  /\ stopping = FALSE /\ port = "open" /\ fed = FALSE
  /\ device = <<>> /\ answers = <<>> /\ acked = {} /\ givenUp = {}

-----------------------------------------------------------------------------
(* The thread that starts the node: configure(), waitForAcknowledge(), and *)
(* the end of the worker.                                                  *)

\* Mutant: what was answered last is left in ack_.
KeepAck ==
  /\ pc = "next" /\ k <= Len(Requests)
  /\ pc' = "send"
  /\ UNCHANGED <<k, results, givenUp, elapsed, waited, ack, notified, out, workerVars, port, device,
                 answers, acked, fed>>

Configure ==
  /\ pc = "next" /\ k <= Len(Requests)
  /\ ack' = None /\ pc' = "send"
  /\ UNCHANGED <<k, results, givenUp, elapsed, waited, notified, out, workerVars, port, device, answers,
                 acked, fed>>

\* AsyncWorker::send(); out_ has room for one request at any time
Send ==
  /\ pc = "send"
  /\ out' = Append(out, k) /\ tasks' = Append(tasks, "doWrite")
  /\ pc' = "load" /\ elapsed' = 0
  /\ UNCHANGED <<k, results, givenUp, waited, ack, notified, reading, arrived, handling, stopping, port,
                 device, answers, acked, fed>>

Answered == ack.kind = Requests[k].kind /\ ack.type # "WAIT"

\* configure() returns; a failure of what must succeed is thrown and ends configureUblox()
Return ==
  LET result == ack.type = "ACK" /\ ack.kind = Requests[k].kind
  IN  /\ results' = Append(results, result)
      /\ pc' = IF ~result /\ Requests[k].must THEN "failed" ELSE "next"
      /\ k' = k + 1
      /\ givenUp' = IF Answered THEN givenUp ELSE givenUp \union {k}

\* the test of the loop, on what was just loaded
Load ==
  /\ pc = "load"
  /\ IF Answered \/ elapsed >= Timeout THEN Return
     ELSE pc' = "lock" /\ UNCHANGED <<k, results, givenUp>>
  /\ UNCHANGED <<elapsed, waited, ack, notified, out, workerVars, port, device, answers, acked,
                 fed>>

\* AsyncWorker::wait(): read_mutex_ is taken, and given back by waiting
EnterWait ==
  /\ pc = "lock" /\ handling = "none"
  /\ pc' = "waiting" /\ waited' = 0 /\ notified' = FALSE
  /\ UNCHANGED <<k, results, givenUp, elapsed, ack, out, workerVars, port, device, answers, acked, fed>>

Wakes == handling = "none" /\ (notified \/ waited >= Timeout)

Wake ==
  /\ pc = "waiting" /\ Wakes
  /\ pc' = "load"
  /\ UNCHANGED <<k, results, givenUp, elapsed, waited, ack, notified, out, workerVars, port, device,
                 answers, acked, fed>>

Configured ==
  /\ pc = "next" /\ k > Len(Requests)
  /\ pc' = "done"
  /\ UNCHANGED <<k, results, givenUp, elapsed, waited, ack, notified, out, workerVars, port, device,
                 answers, acked, fed>>

\* the destructor of AsyncWorker: doClose is posted, and the thread joined
Close ==
  /\ pc \in {"done", "failed"}
  /\ pc' = "joining" /\ tasks' = Append(tasks, "doClose")
  /\ UNCHANGED <<k, results, givenUp, elapsed, waited, ack, notified, out, reading, arrived, handling,
                 stopping, port, device, answers, acked, fed>>

\* io_service::run() returns when there is nothing left to do
Join ==
  /\ pc = "joining" /\ tasks = <<>> /\ ~reading /\ handling = "none"
  /\ pc' = "joined"
  /\ UNCHANGED <<k, results, givenUp, elapsed, waited, ack, notified, out, workerVars, port, device,
                 answers, acked, fed>>

-----------------------------------------------------------------------------
(* The thread of AsyncWorker.                                              *)

Begin(task) ==
  /\ pc \notin {"joined", "dead"} /\ handling = "none"
  /\ tasks # <<>> /\ Head(tasks) = task

doRead ==
  /\ Begin("doRead")
  /\ tasks' = Tail(tasks) /\ reading' = TRUE
  /\ UNCHANGED <<mainVars, ack, notified, out, arrived, handling, stopping, port, device,
                 answers, acked, fed>>

\* asio::write() throws when the port is gone, and nobody catches it in this thread
doWrite ==
  /\ Begin("doWrite")
  /\ tasks' = Tail(tasks)
  /\ IF out = <<>> THEN UNCHANGED <<pc, out, device>>
     ELSE IF port = "open" THEN device' = device \o out /\ out' = <<>> /\ UNCHANGED pc
     ELSE pc' = "dead" /\ UNCHANGED <<out, device>>
  /\ UNCHANGED <<k, results, givenUp, elapsed, waited, ack, notified, reading, arrived, handling,
                 stopping, port, answers, acked, fed>>

\* Mutant: the port is closed, but the worker goes on reading.
CloseOnly ==
  /\ Begin("doClose")
  /\ tasks' = Tail(tasks) /\ port' = "closed" /\ device' = <<>> /\ answers' = <<>>
  /\ UNCHANGED <<mainVars, ack, notified, out, reading, arrived, handling, stopping, acked, fed>>

\* what was still on its way is not read any more
doClose ==
  /\ Begin("doClose")
  /\ tasks' = Tail(tasks) /\ stopping' = TRUE
  /\ port' = "closed" /\ device' = <<>> /\ answers' = <<>>
  /\ UNCHANGED <<mainVars, ack, notified, out, reading, arrived, handling, acked, fed>>

\* an asynchronous read ends: with an answer, with something else, or with an error
ReadCompletes(what) ==
  /\ reading /\ pc \notin {"joined", "dead"}
  /\ what = "answer" => port = "open" /\ answers # <<>>
  /\ what = "other"  => port = "open" /\ ~fed
  /\ what = "error"  => port # "open"
  /\ reading' = FALSE /\ tasks' = Append(tasks, what)
  /\ IF what = "answer" THEN arrived' = Head(answers) /\ answers' = Tail(answers)
     ELSE UNCHANGED <<arrived, answers>>
  /\ UNCHANGED <<mainVars, ack, notified, out, handling, stopping, port, device, acked>>
  /\ fed' = (fed \/ what = "other")

\* readEnd() with the lock: processAck() or processNack() stores the answer
readEnd(what) ==
  /\ Begin(what)
  /\ tasks' = Tail(tasks) /\ handling' = what
  /\ IF what = "answer"
     THEN /\ ack' = [type |-> arrived.type, kind |-> Requests[arrived.request].kind]
          /\ acked' = IF arrived.type = "ACK" /\ arrived.request = k
                           /\ pc \in {"load", "lock", "waiting"}
                        THEN acked \union {k} ELSE acked
     ELSE UNCHANGED <<ack, acked>>
  /\ UNCHANGED <<mainVars, notified, out, reading, arrived, stopping, port, device, answers,
                 fed>>

\* the end of readEnd(): an error notifies nobody, and the next read is posted
ReadEnded ==
  /\ handling # "none"
  /\ handling' = "none"
  /\ notified' = (notified \/ handling # "error")
  /\ tasks' = IF stopping THEN tasks ELSE Append(tasks, "doRead")
  /\ UNCHANGED <<mainVars, ack, out, reading, arrived, stopping, port, device, answers, acked,
                 fed>>

-----------------------------------------------------------------------------
(* The receiver, the cable and time.                                       *)

\* the request at the head is answered, or it or its answer is lost
Answer(type) ==
  /\ device # <<>>
  /\ device' = Tail(device)
  /\ answers' = IF type = "lost" THEN answers
                ELSE Append(answers, [request |-> Head(device), type |-> type, age |-> 0])
  /\ UNCHANGED <<mainVars, ack, notified, out, workerVars, port, acked, fed>>

Unplug ==
  /\ port = "open" /\ pc \notin {"joined", "dead"}
  /\ port' = "gone" /\ device' = <<>> /\ answers' = <<>>
  /\ UNCHANGED <<mainVars, ack, notified, out, workerVars, acked, fed>>

\* threads that can run do so before time passes
Idle ==
  /\ pc \in {"waiting", "done", "failed", "joining"} /\ ~(pc = "waiting" /\ Wakes)
  /\ tasks = <<>> /\ handling = "none" /\ device = <<>>

Tick ==
  /\ Idle
  /\ \A i \in DOMAIN answers : answers[i].age < MaxAnswer
  /\ answers' = [i \in DOMAIN answers |-> [answers[i] EXCEPT !.age = @ + 1]]
  /\ elapsed' = IF elapsed < Timeout THEN elapsed + 1 ELSE Timeout
  /\ waited' = IF waited < Timeout THEN waited + 1 ELSE Timeout
  /\ UNCHANGED <<pc, k, results, givenUp, ack, notified, out, workerVars, port, device, acked>>
  /\ fed' = FALSE

-----------------------------------------------------------------------------
Main   == Configure \/ Send \/ Load \/ EnterWait \/ Wake \/ Configured \/ Join
Worker == doRead \/ doWrite \/ doClose \/ (\E what \in {"answer", "other", "error"} : readEnd(what))
            \/ ReadEnded
Cable  == (\E what \in {"answer", "other", "error"} : ReadCompletes(what))
            \/ (\E type \in {"ACK", "NACK", "lost"} : Answer(type))

Next == Main \/ Worker \/ Cable \/ Close \/ Unplug \/ Tick

Spec == Init /\ [][Next]_vars

\* two threads of the system, a mutex that a thread gets in the end although the other takes it
\* again and again (reads of a port that is gone fail at once), and an error is told to a read
FairSpec ==
  /\ Spec
  /\ WF_vars(Main) /\ SF_vars(EnterWait) /\ SF_vars(Wake) /\ WF_vars(Worker) /\ SF_vars(Tick)
  /\ WF_vars(ReadCompletes("error")) /\ WF_vars(\E type \in {"ACK", "NACK", "lost"} : Answer(type))
  /\ SF_vars(ReadCompletes("answer"))

-----------------------------------------------------------------------------
(* Properties.                                                             *)

\* An earlier request of the kind of i was given up: its answer may still be on its way.
Late(i) == \E j \in givenUp : j < i /\ Requests[j].kind = Requests[i].kind

\* configure() returns true when the acknowledgement of that very request was handled before
\* it returned: none is missed between the reset of ack_, the test and the wait, or lost under
\* another answer.  It returns true without that one only after it gave up on a request of the
\* same kind, whose late acknowledgement cannot be told from it (gps.hpp:544-576,
\* gps.cpp:600-619).
ResultIsTheAnswer ==
  \A i \in DOMAIN results :
    /\ i \in acked => results[i]
    /\ results[i] => i \in acked \/ Late(i)

\* The configuration comes to an end, with a receiver that does not answer or is unplugged too,
\* and so does the destructor that joins the thread (async_worker.hpp:166-171, 316-331).
NothingHangs ==
  /\ <>(pc \in {"done", "failed", "joining", "joined", "dead"})
  /\ (pc = "joining") ~> (pc \in {"joined", "dead"})
===============================================================================
