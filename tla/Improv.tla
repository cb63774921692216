-------------------------------- MODULE Improv --------------------------------
(***************************************************************************)
(* main/improv.c: the reader that finds Improv packets among whatever      *)
(* arrives on the serial port, and what it makes of a request.             *)
(*                                                                         *)
(* improv_task reads one byte after another and handles a complete packet  *)
(* before it reads on, wifi_provision included.  The buffer s_packet with  *)
(* its count "have" is the sequence packet.  Bytes are numbers below Width *)
(* (256), of which the checksum is a sum.                                  *)
(*                                                                         *)
(* External: who sends the bytes, whether the bridge is on a network, and  *)
(* whether the network offered is joined.  Left out: the strings in the    *)
(* answers, and how a packet is sent.                                      *)
(***************************************************************************)
EXTENDS Naturals, Sequences, SequencesExt, FiniteSets

CONSTANTS
    Width,        \* how many values a byte has
    Bytes,        \* the bytes that arrive
    Header,       \* HEADER
    TypeRpc,      \* TYPE_RPC
    Commands,     \* from the names of the requests to their numbers
    MaxPayload,   \* MAX_PAYLOAD
    SsidMax,      \* WIFI_SSID_MAX, with the byte that ends a string
    PasswordMax   \* WIFI_PASSWORD_MAX

\* HEADER is "IMPROV" and a version: no second I.
ASSUME HeaderAssumption == /\ Header \in Seq(Bytes) /\ Header # <<>>
                           /\ \A i \in 2 .. Len(Header) : Header[i] # Header[1]
ASSUME SizeAssumption == /\ Width \in Nat /\ Bytes \subseteq 0 .. Width - 1 /\ MaxPayload \in 0 .. Width - 1
                         /\ 0 \in Bytes
\* The buffers a name and a password go into hold the byte that ends a string.
ASSUME StringAssumption == SsidMax \in Nat \ {0} /\ PasswordMax \in Nat \ {0}
\* No two requests have the same number.
ASSUME CommandAssumption ==
    /\ {"settings", "identify", "state", "info", "networks"} \subseteq DOMAIN Commands
    /\ \A c, d \in DOMAIN Commands : Commands[c] = Commands[d] => c = d

VARIABLES
    packet,   \* s_packet[0 .. have - 1]
    online,   \* wifi_is_connected
    request,  \* the packet the last byte completed, <<>> when it did not
    tried,    \* what wifi_provision was called with for it, <<>> when it was not
    sent,     \* the answers to it
    recent    \* history: the last Len(Header) bytes since the reader began to hunt

vars == <<packet, online, request, tried, sent, recent>>

Start   == Len(Header) + 2            \* everything before the payload
Hunting == Len(packet) < Len(Header)

Answers == {"ready", "provisioning", "provisioned", "address", "info", "networks",
            "none", "invalid", "unknown", "unable"}

ImprovTypeOK ==
    /\ packet \in Seq(Bytes) /\ Len(packet) < Start + MaxPayload + 1
    /\ online \in BOOLEAN
    /\ request \in Seq(Bytes) /\ Len(request) <= Start + MaxPayload + 1
    /\ Len(tried) \in {0, 2} /\ sent \in Seq(Answers)
    /\ recent \in Seq(Bytes) /\ Len(recent) <= Len(Header)

ImprovInit == /\ packet = <<>> /\ online \in BOOLEAN
              /\ request = <<>> /\ tried = <<>> /\ sent = <<>> /\ recent = <<>>

-----------------------------------------------------------------------------
(* A packet *)

TypeOf(p)    == p[Len(Header) + 1]
LengthOf(p)  == p[Start]
PayloadOf(p) == SubSeq(p, Start + 1, Start + LengthOf(p))

\* The sum of all bytes but the last.
Checksum(p) == FoldSeq(LAMBDA b, sum : (b + sum) % Width, 0, SubSeq(p, 1, Len(p) - 1))

IsRequest(p) == Checksum(p) = Last(p) /\ TypeOf(p) = TypeRpc

-----------------------------------------------------------------------------
(* A request *)

\* What wifi_provision sees of a buffer: everything before the first zero.
CString(s) == LET zeros == {i \in 1 .. Len(s) : s[i] = 0}
              IN  SubSeq(s, 1, IF zeros = {} THEN Len(s) ELSE Min(zeros) - 1)

CredentialsLoose(p, at, len) ==  \* mutant: room for the name only, not for its length
    LET ssidLen == p[at]
        rest    == len - 1 - ssidLen
        pwLen   == p[at + 1 + ssidLen]
    IN  IF len < 1 \/ ssidLen > len \/ ssidLen >= SsidMax THEN <<>>
        ELSE IF rest < 1 THEN <<CString(SubSeq(p, at + 1, at + ssidLen)), <<>> >>
        ELSE IF pwLen + 2 + ssidLen > len \/ pwLen >= PasswordMax THEN <<>>
        ELSE <<CString(SubSeq(p, at + 1, at + ssidLen)),
               CString(SubSeq(p, at + 2 + ssidLen, at + 1 + ssidLen + pwLen))>>

\* handle_wifi_settings: name and password from len bytes at p[at], <<>> when
\* they do not fit.
Credentials(p, at, len) ==
    LET ssidLen == p[at]
        rest    == len - 1 - ssidLen
        pwLen   == p[at + 1 + ssidLen]
    IN  IF len < 1 \/ ssidLen + 1 > len \/ ssidLen >= SsidMax THEN <<>>
        ELSE IF rest < 1 THEN <<CString(SubSeq(p, at + 1, at + ssidLen)), <<>> >>
        ELSE IF pwLen + 2 + ssidLen > len \/ pwLen >= PasswordMax THEN <<>>
        ELSE <<CString(SubSeq(p, at + 1, at + ssidLen)),
               CString(SubSeq(p, at + 2 + ssidLen, at + 1 + ssidLen + pwLen))>>

Answer(answers) == sent' = answers /\ tried' = <<>> /\ UNCHANGED online

Nothing == request' = <<>> /\ Answer(<<>>)

\* handle_wifi_settings, with what wifi_provision makes of the network.
HandleWifiSettings(p, at, len) ==
    LET offered == Credentials(p, at, len)
    IN  \/ offered = <<>> /\ Answer(<<"invalid">>)
        \/ /\ offered # <<>>
           /\ tried' = offered
           /\ \/ sent' = <<"provisioning", "provisioned", "address">> /\ online' = TRUE
              \/ sent' = <<"provisioning", "unable", "ready">> /\ online' \in BOOLEAN

\* handle_rpc
HandleRpc(p) ==
    LET len   == LengthOf(p)
        Is(c) == p[Start + 1] = Commands[c]
    IN  IF len < 2 THEN Answer(<<"invalid">>)
        ELSE IF p[Start + 2] + 2 > len THEN Answer(<<"invalid">>)
        ELSE \/ Is("settings") /\ HandleWifiSettings(p, Start + 3, p[Start + 2])
             \/ Is("state") /\ Answer(IF online THEN <<"provisioned", "address">>
                                                ELSE <<"ready">>)
             \/ Is("info") /\ Answer(<<"info">>)
             \/ Is("networks") /\ Answer(<<"networks">>)
             \/ Is("identify") /\ Answer(<<"none">>)
             \/ (\A c \in DOMAIN Commands : ~Is(c)) /\ Answer(<<"unknown">>)

-----------------------------------------------------------------------------
(* improv_task *)

Note(b) == recent' = LET r == Append(recent, b)
                     IN  IF Len(r) > Len(Header) THEN Tail(r) ELSE r

HeaderByteNoRestart(b) ==  \* mutant: the byte that breaks a run begins no new one
    /\ Hunting
    /\ packet' = IF b = Header[Len(packet) + 1] THEN Append(packet, b) ELSE <<>>
    /\ Note(b)
    /\ Nothing

HeaderByte(b) ==
    /\ Hunting
    /\ packet' = IF b = Header[Len(packet) + 1] THEN Append(packet, b)
                 ELSE IF b = Header[1] THEN <<b>> ELSE <<>>
    /\ Note(b)
    /\ Nothing

TooLongByOne(p) == Len(p) >= Start /\ LengthOf(p) > MaxPayload + 1  \* mutant

TooLong(p) == Len(p) >= Start /\ LengthOf(p) > MaxPayload

Complete(p) == Len(p) >= Start /\ Len(p) >= Start + LengthOf(p) + 1

\* One more byte of a packet whose header has been found.
PacketByte(b) ==
    /\ ~Hunting
    /\ LET p == Append(packet, b)
       IN  \/ /\ TooLong(p)
              /\ packet' = <<>> /\ recent' = <<>>
              /\ Nothing
           \/ /\ ~TooLong(p) /\ ~Complete(p)
              /\ packet' = p
              /\ Nothing
              /\ UNCHANGED recent
           \/ /\ ~TooLong(p) /\ Complete(p)
              /\ packet' = <<>> /\ recent' = <<>>
              /\ request' = p
              /\ \/ ~IsRequest(p) /\ Answer(<<>>)
                 \/ IsRequest(p) /\ HandleRpc(p)

\* The bridge finds or loses its network.
NetworkChanges == online' = ~online /\ UNCHANGED <<packet, request, tried, sent, recent>>

ImprovNext == (\E b \in Bytes : HeaderByte(b) \/ PacketByte(b)) \/ NetworkChanges

ImprovSpec == ImprovInit /\ [][ImprovNext]_vars

-----------------------------------------------------------------------------
(* Properties *)

\* improv.c:257: while the reader hunts it holds as much of a header as it has
\* seen last, so that no header is missed behind a part of one.
HuntsForHeader ==
    Hunting => Len(packet) = Max({n \in 0 .. Len(recent) : IsSuffix(SubSeq(Header, 1, n), recent)})

\* What the protocol encodes: the length of each string before it, the second
\* of which may be missing.
Encodes(data, ssid, password) ==
    \/ IsPrefix(<<Len(ssid)>> \o ssid \o <<Len(password)>> \o password, data)
    \/ data = <<Len(ssid)>> \o ssid /\ password = <<>>

Strings(n) == UNION {[1 .. k -> Bytes] : k \in 0 .. n - 1}

\* The credentials a complete packet carries.
Carried(p) ==
    LET payload == PayloadOf(p)
        data    == SubSeq(payload, 3, 2 + payload[2])
    IN  IF ~IsRequest(p) \/ Len(payload) < 2 THEN {}
        ELSE IF payload[1] # Commands["settings"] \/ payload[2] + 2 > Len(payload) THEN {}
        ELSE {o \in Strings(SsidMax) \X Strings(PasswordMax) : Encodes(data, o[1], o[2])}

\* improv.c:124: the network tried is the one the packet names, and none is
\* tried for a packet that is broken, asks for something else or names none.
TriesWhatWasSent ==
    request # <<>> =>
        IF Carried(request) = {} THEN tried = <<>>
        ELSE \E o \in Carried(request) : tried = <<CString(o[1]), CString(o[2])>>
===============================================================================
