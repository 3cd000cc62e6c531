---------------------------- MODULE ProxyDialer -----------------------------
(***************************************************************************)
(* The dialer that gives gRPC a connection through an HTTP proxy           *)
(* (internal/proxy/helpers.go): connect, CONNECT handshake, hand over.     *)
(* gRPC calls it again whenever a dial has failed or a connection is lost. *)
(*                                                                         *)
(* What arrives on a connection is a sequence of items: the proxy's        *)
(* answer, "200" or "407" with its body, and, once there is a tunnel, the  *)
(* bytes of the collector, which may speak first, numbered from 1.         *)
(***************************************************************************)
EXTENDS Naturals, Sequences

CONSTANTS
    Proxies,       \* configurations: [scheme, cert]
    MaxDials,      \* bound: calls of the dialer
    MaxSent        \* bound: bytes the collector sends on a connection

ASSUME BoundsAssumption == MaxDials \in Nat /\ MaxSent \in Nat

VARIABLES
    proxy,         \* ProxyOptions
    at,            \* where the dial is; "tunnel" once gRPC has the connection
    dials,         \* calls so far
    answered,      \* the proxy's answer on the connection, NoAnswer before it
    sent,          \* bytes the collector has sent
    wire,          \* items that arrived and were not read
    eof,           \* the peer has closed
    buffer,        \* what bufio.Reader holds
    received,      \* what gRPC has read
    open           \* connections of ours that are open and not gRPC's

dialerVars == <<proxy, at, dials, answered, sent, wire, eof, buffer, received, open>>
connection == <<answered, sent, wire, eof, buffer, received>>

NoAnswer == ""

DialerInit ==
    /\ proxy \in Proxies
    /\ at = "idle" /\ dials = 0 /\ open = 0
    /\ answered = NoAnswer /\ sent = 0 /\ wire = <<>> /\ eof = FALSE
    /\ buffer = <<>> /\ received = <<>>

-----------------------------------------------------------------------------
(* NewGRPCProxyDialer.                                                     *)

\* The URL can be parsed, the scheme is supported and, for https, the certificate
\* file can be read: without one there is no https.
Usable == \/ proxy.scheme = "http"
          \/ proxy.scheme = "https" /\ proxy.cert = "readable"

Dial ==
    /\ at = "idle" /\ dials < MaxDials
    /\ dials' = dials + 1
    /\ at' = IF Usable THEN "connect" ELSE "failed"
    /\ UNCHANGED <<proxy, connection, open>>

Connect ==
    /\ at = "connect"
    /\ at' = "write"
    /\ open' = open + 1
    /\ answered' = NoAnswer /\ sent' = 0 /\ wire' = <<>> /\ eof' = FALSE
    /\ buffer' = <<>> /\ received' = <<>>
    /\ UNCHANGED <<proxy, dials>>

ConnectFails ==
    /\ at = "connect"
    /\ at' = "failed"
    /\ UNCHANGED <<proxy, dials, connection, open>>

-----------------------------------------------------------------------------
(* httpConnectHandshake.  It returns a nil connection with its error, and  *)
(* the deferred function, which looks at the results, has none to close.   *)

HandshakeFails ==
    /\ at' = "failed"
    /\ UNCHANGED <<proxy, dials, connection, open>>

WriteRequest ==
    /\ at = "write"
    /\ at' = "read"
    /\ UNCHANGED <<proxy, dials, connection, open>>

WriteFails == at = "write" /\ HandshakeFails

\* The buffered reader takes what there is, at least one item.
Fill(n) ==
    /\ at = "read" /\ buffer = <<>> /\ n \in 1..Len(wire)
    /\ buffer' = SubSeq(wire, 1, n)
    /\ wire' = SubSeq(wire, n + 1, Len(wire))
    /\ UNCHANGED <<proxy, at, dials, answered, sent, eof, received, open>>

ReadFails ==
    /\ at = "read" /\ eof /\ buffer = <<>> /\ wire = <<>>
    /\ HandshakeFails

Reject ==
    /\ at = "read" /\ buffer # <<>> /\ Head(buffer) = "407"
    /\ HandshakeFails

\* A plausible slip: gRPC gets the connection without the buffered reader.
AcceptRaw ==
    /\ at = "read" /\ buffer # <<>> /\ Head(buffer) = "200"
    /\ at' = "tunnel"
    /\ buffer' = <<>>
    /\ open' = open - 1
    /\ UNCHANGED <<proxy, dials, answered, sent, wire, eof, received>>

\* gRPC gets a bufConn; from now on closing it is gRPC's business.
Accept ==
    /\ at = "read" /\ buffer # <<>> /\ Head(buffer) = "200"
    /\ at' = "tunnel"
    /\ buffer' = Tail(buffer)
    /\ open' = open - 1
    /\ UNCHANGED <<proxy, dials, answered, sent, wire, eof, received>>

\* bufConn.Read: the buffer first, then the connection.
Read(n) ==
    /\ at = "tunnel"
    /\ UNCHANGED <<proxy, at, dials, answered, sent, eof, open>>
    /\ \/ /\ n \in 1..Len(buffer)
          /\ received' = received \o SubSeq(buffer, 1, n)
          /\ buffer' = SubSeq(buffer, n + 1, Len(buffer))
          /\ UNCHANGED wire
       \/ /\ buffer = <<>> /\ n \in 1..Len(wire)
          /\ received' = received \o SubSeq(wire, 1, n)
          /\ wire' = SubSeq(wire, n + 1, Len(wire))
          /\ UNCHANGED buffer

-----------------------------------------------------------------------------
(* The peers and gRPC.                                                     *)

ProxyAnswers(s) ==
    /\ at = "read" /\ answered = NoAnswer /\ ~ eof
    /\ answered' = s
    /\ wire' = Append(wire, s)
    /\ UNCHANGED <<proxy, at, dials, sent, eof, buffer, received, open>>

CollectorSends ==
    /\ at \in {"read", "tunnel"} /\ answered = "200" /\ ~ eof /\ sent < MaxSent
    /\ sent' = sent + 1
    /\ wire' = Append(wire, sent')
    /\ UNCHANGED <<proxy, at, dials, answered, eof, buffer, received, open>>

PeerCloses ==
    /\ at \in {"write", "read", "tunnel"} /\ ~ eof
    /\ eof' = TRUE
    /\ UNCHANGED <<proxy, at, dials, answered, sent, wire, buffer, received, open>>

\* gRPC sees the error, or drops the connection it had.
GrpcNotes ==
    /\ at \in {"failed", "tunnel"}
    /\ at' = "idle"
    /\ UNCHANGED <<proxy, dials, connection, open>>

\* The garbage collector closes a connection that nothing refers to.
Finalize ==
    /\ open > (IF at \in {"write", "read"} THEN 1 ELSE 0)
    /\ open' = open - 1
    /\ UNCHANGED <<proxy, at, dials, connection>>

DialerNext ==
    \/ Dial \/ Connect \/ ConnectFails
    \/ WriteRequest \/ WriteFails \/ ReadFails \/ Reject \/ Accept
    \/ \E n \in 1..(MaxSent + 1) : Fill(n) \/ Read(n)
    \/ \E s \in {"200", "407"} : ProxyAnswers(s)
    \/ CollectorSends \/ PeerCloses \/ GrpcNotes \/ Finalize

DialerSpec == DialerInit /\ [][DialerNext]_dialerVars

-----------------------------------------------------------------------------
(* Properties.                                                             *)

\* The tunnel is lossless: what gRPC has read, what the handshake's reader still
\* holds and what is on the wire are together what the collector has sent, in
\* its order, even if the collector spoke before the answer was read; nothing of
\* the proxy's answer is among it.
TunnelIsLossless ==
    at = "tunnel" => received \o buffer \o wire = [i \in 1..sent |-> i]

=============================================================================
