----------------------------- MODULE GdbPacket -----------------------------
(***************************************************************************)
(* The framing of the remote protocol, byte by byte: gdb_recv, gdb_send    *)
(* and the first bytes that gdb_poll takes (gdb-stub/gdb_stub.c), against  *)
(* a client that waits for an ACK, sends a packet again when it gets a NAK *)
(* or nothing, and refuses a reply that arrives damaged.                   *)
(*                                                                         *)
(* The line may lose or alter bytes on the way to the stub and may damage  *)
(* a reply.  The processor's abort flag may be raised at any time; the     *)
(* waits of gdb_recv look at it (silx/x86/uart.c), those of gdb_send are   *)
(* taken to be over before anyone can raise it.  When a byte arrives is    *)
(* left open: what a client has sent may still be on its way, byte by      *)
(* byte, and gdb_recv may wait, and be aborted, before any byte of it.     *)
(*                                                                         *)
(* What a command does is left out but for D: D leaves the command loop    *)
(* for the main loop, any other is answered and the loop goes on.          *)
(***************************************************************************)
EXTENDS Naturals, Sequences, FiniteSets, SequencesExt

CONSTANTS
  BufMax,        \* sizeof(buf) in gdb_handler, 256 in the code
  Payloads,      \* what the client sends, as sequences of bytes
  Altered,       \* the bytes a damaged byte may turn into
  MaxRequests,   \* bound on the requests of the client
  MaxDamage,     \* bound on the bytes lost or altered
  MaxBadReplies, \* bound on the replies damaged
  MaxAborts      \* bound on the calls of abort_io

\* The bytes that mean something, in ASCII
Dollar == 36
Hash == 35
Plus == 43
Minus == 45
Detach == 68

Bytes == 0..255

ASSUME BufAssumption == BufMax \in Nat \ {0, 1}
\* A payload is text: no NUL, and nothing of the framing.
ASSUME PayloadAssumption ==
  \A p \in Payloads : p \in Seq(Bytes) /\ p # <<>> /\ {0, Dollar, Hash} \cap Range(p) = {}
ASSUME AlteredAssumption == Altered \subseteq Bytes

VARIABLES
  phase,      \* where gdb_recv waits; "poll" is the main loop
  buf, hi,    \* the packet so far and the first digit of its checksum
  aborting,   \* the abort flag
  toStub,     \* bytes sent, or being sent, to the stub and not yet read by it
  toClient,   \* acks and whole replies on their way to the client
  client, req,   \* what the client waits for, and its request
  done,       \* history: what the stub ran for this request
  naked,      \* history: the client has refused a reply and has got no other
  requests, damage, badReplies, aborts   \* the counters of the bounds

stub == <<phase, buf, hi>>
counters == <<requests, damage, badReplies, aborts>>
packet_vars == <<stub, aborting, toStub, toClient, client, req, done, naked, counters>>

----------------------------------------------------------------------------
\* Hexadecimal digits and the checksum
hex(v) == IF v < 10 THEN 48 + v ELSE 87 + v

\* Mutant of h2v: a lower-case digit counts from 0.
h2vFromZero(c) ==
  IF c \in 48..57 THEN c - 48
  ELSE IF c \in 97..102 THEN c - 97
  ELSE IF c \in 65..70 THEN c - 55
  ELSE 0

h2v(c) ==
  IF c \in 48..57 THEN c - 48
  ELSE IF c \in 97..102 THEN c - 87
  ELSE IF c \in 65..70 THEN c - 55
  ELSE 0
Add(ck, c) == (ck + c) % 256
Checksum(s) == FoldLeft(Add, 0, s)

Trailer(p) == <<Hash, hex(Checksum(p) \div 16), hex(Checksum(p) % 16)>>
Framed(p) == <<Dollar>> \o p \o Trailer(p)

PacketInit ==
  /\ phase = "poll" /\ buf = <<>> /\ hi = 0
  /\ aborting = FALSE
  /\ toStub = <<>> /\ toClient = <<>>
  /\ client = "idle" /\ req = <<>>
  /\ done = <<>> /\ naked = FALSE
  /\ requests = 0 /\ damage = 0 /\ badReplies = 0 /\ aborts = 0

----------------------------------------------------------------------------
(***************************************************************************)
(* The stub                                                                *)
(***************************************************************************)

\* gdb_recv is called: it waits for a '$', its c not yet set.
Waiting == phase' = "fresh" /\ buf' = <<>> /\ hi' = 0
Hunting(c) ==
  /\ phase' = IF c = Dollar THEN "body" ELSE "hunt"
  /\ buf' = <<>> /\ hi' = 0

StubOnly == UNCHANGED <<client, req, naked, counters>>

\* gdb_poll looks at the abort flag before anything else.
PollAborted ==
  /\ phase = "poll"
  /\ aborting
  /\ aborting' = FALSE
  /\ UNCHANGED <<stub, toStub, toClient, done>> /\ StubOnly

\* An ACK with nothing behind it, as far as gdb_poll can see yet
PollAck ==
  /\ phase = "poll" /\ ~aborting
  /\ toStub # <<>> /\ Head(toStub) \in {Plus, Minus}
  /\ toStub' = Tail(toStub)
  /\ UNCHANGED <<stub, aborting, toClient, done>> /\ StubOnly

\* The pending byte: the first, or the one behind an ACK.  gdb_recv begins
\* with it, and hunts for a '$' if it is none.
PollEnters ==
  /\ phase = "poll" /\ ~aborting
  /\ toStub # <<>>
  /\ IF Head(toStub) \in {Plus, Minus}
     THEN /\ Len(toStub) >= 2
          /\ Hunting(toStub[2])
          /\ toStub' = SubSeq(toStub, 3, Len(toStub))
     ELSE /\ Hunting(Head(toStub))
          /\ toStub' = Tail(toStub)
  /\ UNCHANGED <<aborting, toClient, done>> /\ StubOnly

Byte == Head(toStub)
ReadByte == toStub # <<>> /\ toStub' = Tail(toStub) /\ UNCHANGED aborting
\* The next byte has not arrived, whether or not it is on its way.
ReadAborted ==
  /\ aborting
  /\ aborting' = FALSE
  /\ UNCHANGED toStub

\* The first of the two hunting loops, then the second.  Each is left by an
\* abort; in the first, c is what was read last, or anything at all.
Hunt ==
  /\ phase \in {"fresh", "skip", "hunt"}
  /\ \/ /\ ReadByte
        /\ phase' = IF Byte = Dollar THEN "body"
                    ELSE IF phase = "hunt" THEN "hunt" ELSE "skip"
     \/ /\ ReadAborted
        /\ \/ phase = "hunt" /\ phase' = "body"
           \/ phase = "fresh" /\ phase' \in {"hunt", "body"}
           \/ phase = "skip" /\ phase' = "hunt"
  /\ UNCHANGED <<buf, hi, toClient, done>> /\ StubOnly

\* Mutant of Body: no room is left for the final NUL.
BodyFills ==
  /\ phase = "body"
  /\ \/ /\ ReadByte
        /\ IF Byte = Hash
           THEN phase' = "digit1" /\ UNCHANGED buf
           ELSE /\ buf' = Append(buf, Byte)
                /\ phase' = IF Len(buf') < BufMax THEN "body" ELSE "digit1"
     \/ ReadAborted /\ phase' = "digit1" /\ UNCHANGED buf
  /\ UNCHANGED <<hi, toClient, done>> /\ StubOnly

Body ==
  /\ phase = "body"
  /\ \/ /\ ReadByte
        /\ IF Byte = Hash
           THEN phase' = "digit1" /\ UNCHANGED buf
           ELSE /\ buf' = Append(buf, Byte)
                /\ phase' = IF Len(buf') < BufMax - 1 THEN "body" ELSE "digit1"
     \/ ReadAborted /\ phase' = "digit1" /\ UNCHANGED buf
  /\ UNCHANGED <<hi, toClient, done>> /\ StubOnly

FirstDigit ==
  /\ phase = "digit1"
  /\ \/ ReadByte /\ hi' = h2v(Byte)
     \/ ReadAborted /\ hi' = 0
  /\ phase' = "digit2"
  /\ UNCHANGED <<buf, toClient, done>> /\ StubOnly

\* Mutant of Packet: the checksum is not looked at.
PacketUnchecked(lo) ==
  /\ done' = Append(done, buf)
  /\ toClient' = toClient \o <<"+", "reply">>
  /\ IF buf # <<>> /\ Head(buf) = Detach
     THEN phase' = "poll" /\ buf' = <<>> /\ hi' = 0
     ELSE Waiting

\* The packet is complete: it is refused, or acknowledged and served.  An ACK
\* for a packet is a command without effect; D leaves the loop.
Packet(lo) ==
  IF hi * 16 + lo # Checksum(buf)
  THEN /\ toClient' = Append(toClient, "-")
       /\ Waiting
       /\ UNCHANGED done
  ELSE /\ done' = Append(done, buf)
       /\ toClient' = toClient \o
            (IF buf # <<>> /\ Head(buf) \in {Plus, Minus} THEN <<"+">>
                                                         ELSE <<"+", "reply">>)
       /\ IF buf # <<>> /\ Head(buf) = Detach
          THEN phase' = "poll" /\ buf' = <<>> /\ hi' = 0
          ELSE Waiting

SecondDigit ==
  /\ phase = "digit2"
  /\ \/ ReadByte /\ Packet(h2v(Byte))
     \/ ReadAborted /\ Packet(0)
  /\ StubOnly

Stub ==
  PollAborted \/ PollAck \/ PollEnters \/ Hunt \/ Body \/ FirstDigit \/ SecondDigit

----------------------------------------------------------------------------
(***************************************************************************)
(* The client                                                              *)
(***************************************************************************)
Send(p) ==
  /\ client = "idle"
  /\ requests < MaxRequests
  /\ requests' = requests + 1
  /\ client' = "ack" /\ req' = p /\ done' = <<>> /\ naked' = FALSE
  /\ toStub' = toStub \o Framed(p)
  /\ UNCHANGED <<stub, aborting, toClient, damage, badReplies, aborts>>

Received(m) == toClient # <<>> /\ Head(toClient) = m /\ toClient' = Tail(toClient)
ClientOnly == UNCHANGED <<stub, aborting, req, done, counters>>

GetAck ==
  /\ Received("+")
  /\ client' = IF client = "ack" THEN "reply" ELSE client
  /\ UNCHANGED <<toStub, naked>> /\ ClientOnly

GetNak ==
  /\ Received("-")
  /\ toStub' = IF client = "ack" THEN toStub \o Framed(req) ELSE toStub
  /\ UNCHANGED <<client, naked>> /\ ClientOnly

GetReply ==
  /\ Received("reply")
  /\ toStub' = Append(toStub, Plus)
  /\ client' = IF client = "reply" THEN "idle" ELSE client
  /\ naked' = FALSE
  /\ ClientOnly

GetBadReply ==
  /\ Received("bad")
  /\ toStub' = Append(toStub, Minus)
  /\ naked' = TRUE
  /\ UNCHANGED client /\ ClientOnly

\* Nothing on the line and no ACK: the packet, or a part of it, got lost.
Timeout ==
  /\ client = "ack"
  /\ toStub = <<>> /\ toClient = <<>>
  /\ toStub' = Framed(req)
  /\ UNCHANGED <<toClient, client, naked>> /\ ClientOnly

Client ==
  GetAck \/ GetNak \/ GetReply \/ GetBadReply \/ Timeout

----------------------------------------------------------------------------
(***************************************************************************)
(* The line, and whoever raises the abort flag                             *)
(***************************************************************************)
Lose(i) ==
  /\ damage < MaxDamage
  /\ damage' = damage + 1
  /\ toStub' = RemoveAt(toStub, i)
  /\ UNCHANGED <<stub, aborting, toClient, client, req, done, naked, requests,
                 badReplies, aborts>>

Alter(i, c) ==
  /\ damage < MaxDamage
  /\ c # toStub[i]
  /\ damage' = damage + 1
  /\ toStub' = [toStub EXCEPT ![i] = c]
  /\ UNCHANGED <<stub, aborting, toClient, client, req, done, naked, requests,
                 badReplies, aborts>>

SpoilReply(i) ==
  /\ badReplies < MaxBadReplies
  /\ toClient[i] = "reply"
  /\ badReplies' = badReplies + 1
  /\ toClient' = [toClient EXCEPT ![i] = "bad"]
  /\ UNCHANGED <<stub, aborting, toStub, client, req, done, naked, requests,
                 damage, aborts>>

abort_io ==
  /\ aborts < MaxAborts
  /\ aborts' = aborts + 1
  /\ aborting' = TRUE
  /\ UNCHANGED <<stub, toStub, toClient, client, req, done, naked, requests,
                 damage, badReplies>>

Environment ==
  \/ \E i \in DOMAIN toStub : Lose(i) \/ \E c \in Altered : Alter(i, c)
  \/ \E i \in DOMAIN toClient : SpoilReply(i)
  \/ abort_io

PacketNext == Stub \/ Client \/ (\E p \in Payloads : Send(p)) \/ Environment

PacketSpec == PacketInit /\ [][PacketNext]_packet_vars

\* The processor runs; the client reads, and its timeouts expire.
PacketFairSpec == PacketSpec /\ WF_packet_vars(Stub) /\ WF_packet_vars(Client)

----------------------------------------------------------------------------
(***************************************************************************)
(* Properties                                                              *)
(***************************************************************************)

\* The variables keep their types and the packet leaves room for its NUL.
PacketTypeOK ==
  /\ phase \in {"poll", "fresh", "skip", "hunt", "body", "digit1", "digit2"}
  /\ Len(buf) <= BufMax - 1
  /\ hi \in 0..15
  /\ client \in {"idle", "ack", "reply"}
  /\ Range(toStub) \subseteq Bytes
  /\ Range(toClient) \subseteq {"+", "-", "reply", "bad"}

\* What gdb_recv takes for a packet although it is not one.  Cut off: a part of
\* the request, if the two bytes that follow read as its checksum, at once
\* (past = 0) or behind a byte that was altered to a '#' (past = 1).  Run on:
\* the request and more, past a '#' that was lost or altered.
CutOff(x, past) ==
  LET sent == req \o Trailer(req)
  IN  \E n \in 0..(Len(req) - 1) :
        /\ x = SubSeq(req, 1, n)
        /\ h2v(sent[n + past + 1]) * 16 + h2v(sent[n + past + 2]) = Checksum(x)
RunOn(x) == IsStrictPrefix(req, x)

\* On a line that loses, alters and aborts nothing the stub runs the request,
\* once, and nothing else.  One byte lost or altered, or one wait aborted, at
\* whatever place, does not make it run anything twice, however often the packet
\* is sent again, and can make it run something else in one way only: by moving
\* the packet's end to where two bytes happen to read as the checksum of what is
\* before them.  That the checksum cannot exclude: "m6d", aborted behind its
\* 'm', reads as 'm', whose checksum is 6d.
RunsOnlyTheRequest ==
  /\ damage + aborts = 0 => done \in {<<>>, <<req>>}
  /\ damage + aborts <= 1 =>
       /\ Len(done) <= 1
       /\ \A x \in Range(done) :
            \/ x = req
            \/ CutOff(x, damage)
            \/ damage = 1 /\ RunOn(x)

\* Every request is answered, once the line behaves: from wherever a damaged
\* packet or an abort left gdb_recv, a packet sent again is found and served.
\* The client may wait for ever only for a reply that it has refused, or if
\* damage gave a packet that begins with a '+' or a '-' the right checksum: that
\* is acknowledged, and has no reply.
TakenForAck == \E x \in Range(done) : x # <<>> /\ Head(x) \in {Plus, Minus}
RequestIsServed == client # "idle" ~> client = "idle" \/ naked \/ TakenForAck
=============================================================================
