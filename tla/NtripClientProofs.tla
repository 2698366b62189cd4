--------------------------- MODULE NtripClientProofs ---------------------------
(***************************************************************************)
(* Theorems about the connections of the NTRIP client, for every stream,   *)
(* timeout and number of attempts.  Two facts are inductive together: a    *)
(* thread that is not inside reconnect() holds a connection the caster     *)
(* accepted, and the count of attempts is that of the reconnect() at hand, *)
(* so it is zero wherever none is.                                         *)
(***************************************************************************)
EXTENDS NtripClient, TLAPS

Callbacks == {"idle", "reading", "sending"}

\* A callback runs, or waits for its turn, only over an accepted connection.
ConnectedInv == pc \in Callbacks => connected /\ accepted /\ peer # "none"

\* The attempts counted are those of this outage.
AttemptInv ==
  /\ attempts \in Nat /\ tries \in Nat
  /\ pc = "reconnecting" => attempts = tries /\ attempts < reconnect_attempt_max
  /\ pc \in Callbacks \union {"run"} => attempts = 0

CallerInv == caller \in {"run", "timeout", "recv", "zero", "nmea"}
              /\ (pc = "reconnecting" => caller # "run")

IInv == ConnectedInv /\ AttemptInv /\ CallerInv /\ GivesUpAtTheLast

LEMMA Limits == reconnect_attempt_max \in Nat /\ reconnect_attempt_max > 0
BY ClientAssumption

\* Calling reconnect() over a connection always enters its loop.
LEMMA Calls ==
  ASSUME NEW who \in {"timeout", "recv", "zero", "nmea"}, IInv, pc \in Callbacks,
         CallReconnect(who), UNCHANGED <<connected, attempts, connVars>>
  PROVE  IInv'
BY Limits DEF IInv, ConnectedInv, AttemptInv, CallerInv, GivesUpAtTheLast, Callbacks,
              CallReconnect, connVars

\* A step of a callback that stays with its connection.
LEMMA Stays ==
  ASSUME IInv, pc \in Callbacks, pc' \in Callbacks,
         UNCHANGED <<caller, connected, attempts, tries, accepted>>, peer # "none" => peer' # "none"
  PROVE  IInv'
BY DEF IInv, ConnectedInv, AttemptInv, CallerInv, GivesUpAtTheLast, Callbacks

\* Only an answer without an error ends the loop of reconnect().
LEMMA ReconnectNext ==
  ASSUME IInv, NEW answer \in Answers, Reconnect(answer)
  PROVE  IInv'
<1> USE Limits DEF IInv, ConnectedInv, AttemptInv, CallerInv, GivesUpAtTheLast, Callbacks
<1>1. attempts = tries /\ attempts \in Nat /\ attempts < reconnect_attempt_max
  BY DEF Reconnect
<1>2. CASE ~ConnectSucceeds(answer) /\ ~GivesUp(attempts + 1)
  <2>1. /\ pc = "reconnecting" /\ UNCHANGED <<pc, caller>>
        /\ attempts' = attempts + 1 /\ tries' = tries + 1
    BY <1>2 DEF Reconnect
  <2> QED BY <1>1, <1>2, <2>1 DEF GivesUp
<1>3. CASE GivesUp(attempts + 1)
  <2>1. pc' = "raised" /\ attempts' = 0 /\ tries' = tries + 1 /\ caller' = caller
    BY <1>3 DEF Reconnect
  <2> QED BY <1>1, <1>3, <2>1 DEF GivesUp
<1>4. CASE ConnectSucceeds(answer) /\ ~GivesUp(attempts + 1)
  <2>1. Connect(answer) /\ Resume /\ pc = "reconnecting" BY <1>4 DEF Reconnect
  <2>2. connected' /\ accepted' /\ peer' # "none"
    BY <1>4, <2>1 DEF ConnectSucceeds, Connect
  <2>3. pc' \in Callbacks /\ caller' = "run" /\ attempts' = 0 /\ tries' = 0
    BY <2>1 DEF Resume
  <2> QED BY <2>2, <2>3
<1> QED BY <1>2, <1>3, <1>4

LEMMA Invariance == Spec => []IInv
<1>1. Init => IInv
  BY DEF Init, IInv, ConnectedInv, AttemptInv, CallerInv, GivesUpAtTheLast, Callbacks
<1>2. IInv /\ [Next]_vars => IInv'
  <2> SUFFICES ASSUME IInv, [Next]_vars PROVE IInv'
    OBVIOUS
  <2>1. ASSUME NEW answer \in Answers, Run(answer) PROVE IInv'
    BY <2>1 DEF Run, Connect, ConnectSucceeds, Answers, IInv, ConnectedInv, AttemptInv,
                CallerInv, GivesUpAtTheLast, Callbacks
  <2>2. ASSUME NEW answer \in Answers, Reconnect(answer) PROVE IInv'
    BY <2>2, ReconnectNext
  <2>3. CASE StopAfterException \/ Interrupt
    BY <2>3 DEF StopAfterException, Interrupt, Stop, IInv, ConnectedInv, AttemptInv,
                CallerInv, GivesUpAtTheLast, Callbacks
  <2>4. CASE RecvRtcm
    <3>1. pc = "idle" /\ connected /\ UNCHANGED <<connected, attempts, connVars>>
      BY <2>4 DEF RecvRtcm, IInv, ConnectedInv, Callbacks
    <3>2. CASE TimedOut
      <4>1. CallReconnect("timeout") BY <2>4, <3>1, <3>2 DEF RecvRtcm
      <4> QED BY <3>1, <4>1, Calls DEF Callbacks
    <3>3. CASE ~TimedOut
      <4>1. pc' = "reading" /\ UNCHANGED <<caller, tries>> BY <2>4, <3>1, <3>3 DEF RecvRtcm
      <4> QED BY <3>1, <4>1, Stays DEF Callbacks, connVars
    <3> QED BY <3>2, <3>3
  <2>5. CASE NothingToRead
    BY <2>5, Stays DEF NothingToRead, Callbacks, connVars
  <2>6. ASSUME NEW n \in read+1..sent, ReadData(n) PROVE IInv'
    BY <2>6, Stays DEF ReadData, Callbacks, connVars
  <2>7. CASE ReadNothing
    <3>1. pc = "reading" /\ UNCHANGED <<connected, attempts, connVars>>
      BY <2>7 DEF ReadNothing
    <3>2. CallReconnect("zero") \/ (pc' = "idle" /\ UNCHANGED <<caller, tries>>)
      BY <2>7 DEF ReadNothing
    <3> QED BY <3>1, <3>2, Calls, Stays DEF Callbacks, connVars
  <2>8. CASE ReadFails
    BY <2>8, Calls DEF ReadFails, Callbacks
  <2>9. CASE SendNmea \/ SendDone
    BY <2>9, Stays DEF SendNmea, SendDone, Callbacks, connVars
  <2>10. CASE SendFails
    <3>1. pc = "sending" /\ UNCHANGED <<connected, attempts, connVars>>
      BY <2>10 DEF SendFails
    <3>2. CallReconnect("nmea") \/ (pc' = "idle" /\ UNCHANGED <<caller, tries>>)
      BY <2>10 DEF SendFails
    <3> QED BY <3>1, <3>2, Calls, Stays DEF Callbacks, connVars
  <2>11. CASE CasterSends \/ Tick \/ UNCHANGED vars
    BY <2>11 DEF CasterSends, Tick, vars, connVars, IInv, ConnectedInv, AttemptInv, CallerInv,
                 GivesUpAtTheLast, Callbacks
  <2>12. ASSUME NEW how \in {"closed", "reset", "silent"}, NEW cut \in 0..PacketSize-1,
                Break(how, cut)
         PROVE  IInv'
    BY <2>12 DEF Break, IInv, ConnectedInv, AttemptInv, CallerInv, GivesUpAtTheLast, Callbacks
  <2> QED
    BY <2>1, <2>2, <2>3, <2>4, <2>5, <2>6, <2>7, <2>8, <2>9, <2>10, <2>11, <2>12
       DEF Next, Client, Environment
<1> QED BY <1>1, <1>2, PTL DEF Spec

\* However an attempt failed before, a callback finds a connection that the caster accepted.
THEOREM Accepted == Spec => []IdleIsAccepted
<1>1. IInv => IdleIsAccepted BY DEF IInv, ConnectedInv, Callbacks, IdleIsAccepted
<1> QED BY <1>1, Invariance, PTL

\* The client raises only after as many attempts in one outage as it was told to make.
THEOREM LastAttempt == Spec => []GivesUpAtTheLast
<1>1. IInv => GivesUpAtTheLast BY DEF IInv
<1> QED BY <1>1, Invariance, PTL
===============================================================================
