------------------------------ MODULE NtripClient ------------------------------
(***************************************************************************)
(* The NTRIP client that brings the corrections to the GNSS receivers:     *)
(* NTRIPRos and NTRIPClient, their parser, and the caster with the network *)
(* between them (external).                                                *)
(*                                                                         *)
(* One thread runs a timer (recv_rtcm) and a subscription (send_nmea);     *)
(* reconnect() keeps that thread until it succeeds or raises, and an       *)
(* attempt is a step of its own.  A connection is up until the caster      *)
(* closes it, the network resets it, or it falls silent: nothing more      *)
(* arrives and nothing tells.  The stream is numbered through: a new       *)
(* connection goes on with the next packet.                                *)
(***************************************************************************)
EXTENDS RtcmParser

CONSTANTS
  rtcm_timeout,           \* rtcm_timeout_seconds, in ticks
  reconnect_attempt_max,
  nmea_send_failed_max,
  read_zero_bytes_max,
  MaxPackets,             \* bound on what the caster sends
  MaxBreaks               \* bound on the connections that break

ASSUME ClientAssumption ==
  /\ {rtcm_timeout, reconnect_attempt_max, nmea_send_failed_max, read_zero_bytes_max}
       \subseteq Nat \ {0}
  /\ {MaxPackets, MaxBreaks} \subseteq Nat

VARIABLES
  pc,           \* "run", "idle", "reading", "sending", "reconnecting", "raised" or "ended"
  caller,       \* who called reconnect()
  connected,    \* _connected
  attempts,     \* _reconnect_attempt_count
  nmea_failed,  \* _nmea_send_failed_count
  zero_bytes,   \* _read_zero_bytes_count
  first,        \* _first_rtcm_received
  age,          \* now - _recv_rtcm_last_packet_timestamp, up to rtcm_timeout
  parser,       \* rtcm_parser
  out,          \* what the last recv_rtcm() returned
  peer,         \* the connection: "none", "up", "closed", "reset" or "silent"
  accepted,     \* the caster answered the request with success and nothing else
  read, sent,   \* units read, and sent, of the stream
  base,         \* where the stream was when this connection was made
  breaks,       \* connections broken
  tries,        \* connect() calls of the last reconnect() (history)
  header_cut    \* a piece of the packet being received ended in what reads as a header (history)

connVars == <<peer, accepted, base>>
vars == <<pc, caller, connected, attempts, nmea_failed, zero_bytes, first, age, parser, out,
          connVars, read, sent, breaks, tries, header_cut>>

Init ==
  /\ pc = "run" /\ caller = "run" /\ connected = FALSE /\ attempts = 0
  /\ nmea_failed = 0 /\ zero_bytes = 0 /\ first = FALSE /\ age = rtcm_timeout
  /\ parser = NewParser /\ out = <<>>
  /\ peer = "none" /\ accepted = FALSE /\ base = 0 /\ read = 0 /\ sent = 0
  /\ breaks = 0 /\ tries = 0 /\ header_cut = FALSE

-----------------------------------------------------------------------------
(* connect(), its answers, and reconnect().                                *)

\* what a caster may answer: it accepts; refuses, cannot be reached or is not understood;
\* or sends a success together with an error, which leaves _connected set
Answers == {"accepted", "refused", "contradicted"}

\* Mutant: an answer that contains a success is taken for one.
AnySuccess(answer) == answer \in {"accepted", "contradicted"}

ConnectSucceeds(answer) == answer = "accepted"

Connect(answer) ==
  /\ connected' = (answer \in {"accepted", "contradicted"})
  /\ peer' = IF answer = "refused" THEN "none" ELSE "up"
  /\ accepted' = (answer = "accepted")
  /\ LET next == LastOf(PacketOf(sent)) IN base' = next /\ read' = next /\ sent' = next

\* NTRIPRos.run()
Run(answer) ==
  /\ pc = "run"
  /\ Connect(answer)
  /\ pc' = IF ConnectSucceeds(answer) THEN "idle" ELSE "ended"
  /\ UNCHANGED <<caller, attempts, nmea_failed, zero_bytes, first, age, parser, out, breaks,
                 tries, header_cut>>

\* reconnect() does nothing for a client that is not connected
CallReconnect(who) ==
  /\ caller' = who /\ tries' = 0
  /\ pc' = IF connected THEN "reconnecting" ELSE "idle"

GivesUp(count) == count >= reconnect_attempt_max

\* Mutant: a success does not clear the count of attempts.
KeepAttempts ==
  /\ pc' = [timeout |-> "reading", recv |-> "idle", zero |-> "idle", nmea |-> "sending"][caller]
  /\ caller' = "run" /\ tries' = 0
  /\ attempts' = attempts + 1 /\ UNCHANGED <<first, zero_bytes, nmea_failed>>

\* what the caller does when reconnect() has returned
Resume ==
  /\ attempts' = 0
  /\ pc' = [timeout |-> "reading", recv |-> "idle", zero |-> "idle", nmea |-> "sending"][caller]
  /\ first' = (first /\ caller # "timeout")
  /\ zero_bytes' = IF caller = "zero" THEN 0 ELSE zero_bytes
  /\ nmea_failed' = IF caller = "nmea" THEN 0 ELSE nmea_failed
  /\ caller' = "run" /\ tries' = 0

\* one turn of the loop of reconnect(), with the wait at its end
Reconnect(answer) ==
  /\ pc = "reconnecting"
  /\ Connect(answer)
  /\ LET count == attempts + 1 IN
       \/ /\ ~ConnectSucceeds(answer) /\ ~GivesUp(count)
          /\ attempts' = count /\ tries' = tries + 1
          /\ UNCHANGED <<pc, caller, first, zero_bytes, nmea_failed>>
       \/ /\ GivesUp(count)                    \* raises, even after a success
          /\ attempts' = 0 /\ tries' = tries + 1 /\ pc' = "raised"
          /\ UNCHANGED <<caller, first, zero_bytes, nmea_failed>>
       \/ ConnectSucceeds(answer) /\ ~GivesUp(count) /\ Resume
  /\ UNCHANGED <<age, parser, out, breaks, header_cut>>

\* the end of main(), after the exception or an interrupt
Stop ==
  /\ pc' = "ended" /\ connected' = FALSE /\ peer' = "none" /\ accepted' = FALSE
  /\ UNCHANGED <<caller, attempts, nmea_failed, zero_bytes, first, age, parser, out, base, read,
                 sent, breaks, tries, header_cut>>

StopAfterException == pc = "raised" /\ Stop
Interrupt          == pc \in {"idle", "reading", "sending", "reconnecting"} /\ Stop

-----------------------------------------------------------------------------
(* The timer: recv_rtcm().                                                 *)

TimedOut == age >= rtcm_timeout /\ first

RecvRtcm ==
  /\ pc = "idle" /\ out' = <<>>
  /\ IF connected /\ TimedOut THEN CallReconnect("timeout")
     ELSE pc' = (IF connected THEN "reading" ELSE "idle") /\ UNCHANGED <<caller, tries>>
  /\ UNCHANGED <<connected, attempts, nmea_failed, zero_bytes, first, age, parser, connVars,
                 read, sent, breaks, header_cut>>

\* select() tells of nothing
NothingToRead ==
  /\ pc = "reading"
  /\ peer = "silent" \/ (peer = "up" /\ read = sent)
  /\ pc' = "idle"
  /\ UNCHANGED <<caller, connected, attempts, nmea_failed, zero_bytes, first, age, parser, out,
                 connVars, read, sent, breaks, tries, header_cut>>

EndsInHeader(n) == \E u \in n-HeaderSize+2..n : u > read /\ IsPreamble(u)

\* what has arrived by now, parsed
ReadData(n) ==
  /\ pc = "reading" /\ peer # "silent" /\ n \in read+1..sent
  /\ read' = n /\ first' = TRUE /\ age' = 0
  /\ LET parsed == Parse(parser, [i \in 1..n - read |-> read + i])
     IN  parser' = parsed.parser /\ out' = parsed.packets
  /\ header_cut' = /\ n # LastOf(PacketOf(n))
                   /\ (EndsInHeader(n) \/ (header_cut /\ PacketOf(n) = PacketOf(read)))
  /\ pc' = "idle"
  /\ UNCHANGED <<caller, connected, attempts, nmea_failed, zero_bytes, connVars, sent, breaks,
                 tries>>

\* the end of the stream reads as no bytes, over and over
ReadNothing ==
  /\ pc = "reading" /\ peer = "closed" /\ read = sent
  /\ zero_bytes' = zero_bytes + 1
  /\ IF zero_bytes' >= read_zero_bytes_max THEN CallReconnect("zero")
     ELSE pc' = "idle" /\ UNCHANGED <<caller, tries>>
  /\ UNCHANGED <<connected, attempts, nmea_failed, first, age, parser, out, connVars, read, sent,
                 breaks, header_cut>>

\* Mutant: an error of recv() only ends the reading.
FailQuietly ==
  /\ pc = "reading" /\ peer = "reset"
  /\ pc' = "idle"
  /\ UNCHANGED <<caller, connected, attempts, nmea_failed, zero_bytes, first, age, parser, out,
                 connVars, read, sent, breaks, tries, header_cut>>

\* recv() raises and _socket_is_open() finds the socket closed: what was read is dropped
ReadFails ==
  /\ pc = "reading" /\ peer = "reset"
  /\ CallReconnect("recv")
  /\ UNCHANGED <<connected, attempts, nmea_failed, zero_bytes, first, age, parser, out, connVars,
                 read, sent, breaks, header_cut>>

-----------------------------------------------------------------------------
(* The subscription: send_nmea() of a valid sentence.                      *)

SendNmea ==
  /\ pc = "idle" /\ connected
  /\ pc' = "sending"
  /\ UNCHANGED <<caller, connected, attempts, nmea_failed, zero_bytes, first, age, parser, out,
                 connVars, read, sent, breaks, tries, header_cut>>

\* the system takes what it may never deliver
SendDone ==
  /\ pc = "sending" /\ peer # "reset"
  /\ pc' = "idle"
  /\ UNCHANGED <<caller, connected, attempts, nmea_failed, zero_bytes, first, age, parser, out,
                 connVars, read, sent, breaks, tries, header_cut>>

SendFails ==
  /\ pc = "sending" /\ peer # "up"
  /\ nmea_failed' = nmea_failed + 1
  /\ IF nmea_failed' >= nmea_send_failed_max THEN CallReconnect("nmea")
     ELSE pc' = "idle" /\ UNCHANGED <<caller, tries>>
  /\ UNCHANGED <<connected, attempts, zero_bytes, first, age, parser, out, connVars, read, sent,
                 breaks, header_cut>>

-----------------------------------------------------------------------------
(* The caster, the network and time.                                       *)

Running == pc \notin {"run", "raised", "ended"}

CasterSends ==
  /\ Running /\ peer = "up" /\ sent < MaxPackets * PacketSize
  /\ sent' = sent + PacketSize
  /\ UNCHANGED <<pc, caller, connected, attempts, nmea_failed, zero_bytes, first, age, parser,
                 out, connVars, read, breaks, tries, header_cut>>

\* the last packet may be cut short
Break(how, cut) ==
  /\ Running /\ peer = "up" /\ breaks < MaxBreaks
  /\ cut < PacketSize /\ sent - cut >= read
  /\ peer' = how /\ breaks' = breaks + 1 /\ sent' = sent - cut
  /\ UNCHANGED <<pc, caller, connected, attempts, nmea_failed, zero_bytes, first, age, parser,
                 out, accepted, base, read, tries, header_cut>>

Tick ==
  /\ age < rtcm_timeout
  /\ age' = age + 1
  /\ UNCHANGED <<pc, caller, connected, attempts, nmea_failed, zero_bytes, first, parser, out,
                 connVars, read, sent, breaks, tries, header_cut>>

-----------------------------------------------------------------------------
Client ==
  \/ \E answer \in Answers : Run(answer) \/ Reconnect(answer)
  \/ StopAfterException \/ NothingToRead \/ ReadNothing \/ ReadFails \/ SendDone \/ SendFails
  \/ \E n \in read+1..sent : ReadData(n)

Environment ==
  \/ SendNmea \/ Interrupt \/ CasterSends
  \/ \E how \in {"closed", "reset", "silent"}, cut \in 0..PacketSize-1 : Break(how, cut)

Next == Client \/ RecvRtcm \/ Environment \/ Tick

Spec == Init /\ [][Next]_vars

\* the executor looks at its timer in every turn, so sentences do not keep it from recv_rtcm()
FairSpec == Spec /\ WF_vars(Client) /\ SF_vars(RecvRtcm) /\ WF_vars(Tick)

-----------------------------------------------------------------------------
(* Properties.                                                             *)

\* A callback always finds a connection that the caster accepted in full: however an attempt
\* of reconnect() fails, and whatever it left in _connected, the next one or an exception
\* follows (ntrip_client.py:188-203).
IdleIsAccepted == pc = "idle" => connected /\ accepted /\ peer # "none"

\* The client gives up only when reconnect_attempt_max attempts were made in this outage:
\* no attempt of an earlier one counts (ntrip_client.py:190-203).
GivesUpAtTheLast == pc = "raised" => tries = reconnect_attempt_max

\* A packet that arrives whole over one connection is published when its last byte is read,
\* in however many pieces it came, and whatever an earlier connection left in the parser
\* (rtcm_parser.py:55-112).
WholeIsPublished ==
  [][\A p \in 1..MaxPackets :
       (read < LastOf(p) /\ LastOf(p) <= read' /\ base < FirstOf(p) /\ base' = base)
         => p \in Range(out') \/ (FirstOf(p) <= read /\ header_cut)]_vars

\* A connection that breaks is replaced, or the client ends: one that was closed or reset, and
\* one that fell silent after its first data (ntrip_client.py:243-280).
BrokenIsReplaced ==
  (Running /\ (peer \in {"closed", "reset"} \/ (peer = "silent" /\ first)))
    ~> (peer = "up" \/ pc = "ended")
===============================================================================
