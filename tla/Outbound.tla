------------------------------ MODULE Outbound ------------------------------
(***************************************************************************)
(* The requests of Upload as HTTP exchanges: send (src/http_client.rs) in  *)
(* the guest, send_restricted_request (host/src/main.rs) in the host, and  *)
(* between them a pipe for the request's body that holds a few writes.     *)
(* Connecting, the wait for the head of the answer and the waits between   *)
(* its bytes have time limits; the TLS handshake has none.                 *)
(***************************************************************************)
EXTENDS Upload

CONSTANTS
    WriteChunk, \* WRITE_CHUNK, the most that blocking_write_and_flush takes
    Pipe        \* writes the host holds for a connection (external)

ASSUME PipeAssumption == WriteChunk \in Nat \ {0} /\ Pipe \in Nat \ {0}

VARIABLES
    link,   \* how far the exchange has come
    left,   \* writes that the guest has yet to make
    piped   \* writes that the connection has yet to take
outbound == <<link, left, piped>>
all == <<vars, outbound>>

Links == {"none", "taken", "connect", "tls", "send", "body", "whole", "broken", "cut"}
OutboundTypeOK == TypeOK /\ link \in Links /\ left \in Nat /\ piped \in 0..Pipe

OutboundInit == Init /\ link = "none" /\ left = 0 /\ piped = 0

-----------------------------------------------------------------------------
\* The bytes of the request's body (all that matters of createUploadSession's is that it has one).
BodyBytes == CASE pc = "simple" -> size
               [] pc = "create" -> 1
               [] pc = "chunk"  -> End(offset, size) - offset
               [] pc = "cancel" -> 0
Writes(bytes) == (bytes + WriteChunk - 1) \div WriteChunk

\* send: the request and its body resource.
Take ==
    /\ link = "none" /\ pc \in {"simple", "create", "chunk", "cancel"}
    /\ link' = "taken" /\ left' = Writes(BodyBytes)
    /\ UNCHANGED <<vars, piped>>

\* Mutant of Handle: the body is finished first.
HandleFinished == link = "taken" /\ left = 0 /\ link' = "connect" /\ UNCHANGED <<vars, left, piped>>

\* outgoing_handler::handle: the host starts the request.
Handle == link = "taken" /\ link' = "connect" /\ UNCHANGED <<vars, left, piped>>

\* blocking_write_and_flush waits for room; it fails once the host has given up (Conclude).
Write ==
    /\ link \notin {"none", "broken", "cut"}
    /\ left > 0 /\ piped < Pipe
    /\ left' = left - 1 /\ piped' = piped + 1
    /\ UNCHANGED <<vars, link>>

-----------------------------------------------------------------------------
Sent == left = 0 /\ piped = 0
Stage(from, to) == link = from /\ link' = to /\ UNCHANGED <<vars, left, piped>>

Connect == Stage("connect", "tls")      \* resolve_public_addr, TcpStream::connect
Handshake == Stage("tls", "send")       \* TlsConnector::connect, http1 handshake
Pull == link = "send" /\ piped > 0 /\ piped' = piped - 1 /\ UNCHANGED <<vars, link, left>>
Respond == Sent /\ Stage("send", "body")    \* (to half a request: see Break)
Deliver == Stage("body", "whole")       \* IncomingResponseBody::poll_frame

\* connect_timeout, first_byte_timeout, between_bytes_timeout.
Timed == {"connect", "send", "body"}

\* The peer may have a request that was sent whole.
Fail == link' = (IF link \in {"send", "body"} /\ Sent THEN "cut" ELSE "broken")
        /\ faults < MaxFaults /\ UNCHANGED <<vars, left, piped>>
TimeOut == link \in Timed /\ Fail

\* validate_uri, resolve_public_addr, the connection, an answer to half a request.
Break == link \in {"connect", "tls", "send", "body"} /\ Fail

-----------------------------------------------------------------------------
(***************************************************************************)
(* What the guest makes of it: a whole answer may be an error, or not what *)
(* the code expects; of an exchange cut short it is never told whether the *)
(* drive acted, nor when it will.                                          *)
(***************************************************************************)
Possible == CASE link = "whole"  -> Outcomes
              [] link = "cut"    -> {"undone", "unanswered", "late"}
              [] link = "broken" -> {"undone"}
              [] OTHER           -> {}
Forget == link' = "none" /\ left' = 0 /\ piped' = 0
Conclude == \E outcome \in Possible : Request(outcome) /\ Forget

OutboundNext ==
    \/ Take \/ Handle \/ Write \/ Conclude
    \/ Connect \/ Handshake \/ Pull \/ Respond \/ Deliver \/ TimeOut \/ Break
    \/ LoseGuest /\ Forget
    \/ /\ \/ \E bytes \in Sizes : Receive(bytes)
          \/ Reply
          \/ \E content \in late : CarryOut(content)
       /\ UNCHANGED outbound

OutboundSpec == OutboundInit /\ [][OutboundNext]_all

\* The guest runs; a stage with a time limit ends; nothing ends the TLS handshake.
Ends(stage) == link = stage /\ stage \in Timed
               /\ (Connect \/ Pull \/ Respond \/ Deliver \/ TimeOut)
FairOutbound ==
    /\ OutboundSpec
    /\ WF_all(Take \/ Handle \/ Write \/ Conclude \/ (Reply /\ UNCHANGED outbound))
    /\ \A stage \in Links : WF_all(Ends(stage))

-----------------------------------------------------------------------------
(***************************************************************************)
(* Every PUT is answered, or its guest is lost, unless a TLS handshake     *)
(* hangs: no write waits for a connection that was not started, no answer  *)
(* is awaited without limit, and the loop over the chunks ends.            *)
(***************************************************************************)
PutsEndUnlessTls == ([]<>(link # "tls")) => (pc # "idle" ~> pc = "idle")
=============================================================================
