---------------------------- MODULE Improv_proofs ----------------------------
(***************************************************************************)
(* s_packet is never written beyond its end, for every sequence of bytes   *)
(* that arrives.  That the count stays below the size of the buffer is not *)
(* inductive: it needs that a packet that is kept announces a length that  *)
(* fits, and is not complete.                                              *)
(*                                                                         *)
(* While the reader hunts for the header, what it keeps is the longest     *)
(* beginning of one that the last bytes can be.  This rests on the first   *)
(* byte of the header not coming a second time in it.                      *)
(*                                                                         *)
(* Which network is tried for a packet is a matter of one step: the places *)
(* handle_wifi_settings reads are those the protocol says.  What it takes  *)
(* rests on the strings fitting into their buffers and on every request    *)
(* having a number of its own.                                             *)
(***************************************************************************)
EXTENDS Improv, SequenceTheorems, TLAPS

\* A packet that is kept has a length that fits, and is shorter than it says.
Kept == ~TooLong(packet) /\ ~Complete(packet)

ImprovInv == ImprovTypeOK /\ Kept

LEMMA StartBytes == Len(Header) \in Nat /\ Len(Header) >= 1 /\ Start = Len(Header) + 2
<1>1. Header \in Seq(Bytes) /\ Header # <<>>
  BY HeaderAssumption
<1> QED
  BY <1>1, EmptySeq DEF Start

LEMMA Numbers == Bytes \subseteq Nat /\ MaxPayload \in Nat
BY SizeAssumption

\* What Append does to the count, and to the bytes before.
LEMMA OneMore ==
  ASSUME NEW p \in Seq(Bytes), NEW b \in Bytes
  PROVE  /\ Append(p, b) \in Seq(Bytes)
         /\ Len(Append(p, b)) = Len(p) + 1
         /\ Len(p) \in Nat
         /\ \A i \in 1 .. Len(p) : Append(p, b)[i] = p[i]
BY AppendProperties, LenProperties

\* A packet of a length that fits, not complete, has room for one byte more.
LEMMA Room ==
  ASSUME NEW p \in Seq(Bytes), ~TooLong(p), ~Complete(p)
  PROVE  Len(p) < Start + MaxPayload + 1
<1>1. Len(p) \in Nat
  BY LenProperties
<1>2. CASE Len(p) < Start
  BY <1>1, <1>2, StartBytes, Numbers
<1>3. CASE Len(p) >= Start
  <2>1. Start \in 1 .. Len(p)
    BY <1>1, <1>3, StartBytes
  <2>2. LengthOf(p) \in Nat
    BY <2>1, ElementOfSeq, Numbers DEF LengthOf
  <2>3. LengthOf(p) <= MaxPayload
    BY <1>3, <2>2, Numbers DEF TooLong
  <2>4. Len(p) < Start + LengthOf(p) + 1
    BY <1>1, <1>3, <2>2, StartBytes DEF Complete
  <2> QED
    BY <1>1, <2>2, <2>3, <2>4, StartBytes, Numbers
<1> QED
  BY <1>1, <1>2, <1>3, StartBytes

\* While the reader hunts it has not come to the length, so nothing is too long.
LEMMA ShortIsKept ==
  ASSUME NEW p \in Seq(Bytes), Len(p) < Start
  PROVE  ~TooLong(p) /\ ~Complete(p)
<1>1. Len(p) \in Nat
  BY LenProperties
<1> QED
  BY <1>1, StartBytes DEF TooLong, Complete

Typed == Len(tried') \in {0, 2} /\ sent' \in Seq(Answers) /\ online' \in BOOLEAN

\* No answer to a packet is longer than three, and no two strings are tried but
\* together.
LEMMA AnswersTyped ==
  ASSUME NEW p, ImprovTypeOK, HandleRpc(p)
  PROVE  Typed
<1>1. ASSUME NEW a \in Seq(Answers), Answer(a)
      PROVE  Typed
  BY <1>1 DEF Answer, ImprovTypeOK, Typed
<1>2. /\ <<"invalid">> \in Seq(Answers) /\ <<"provisioned", "address">> \in Seq(Answers)
      /\ <<"ready">> \in Seq(Answers) /\ <<"info">> \in Seq(Answers)
      /\ <<"networks">> \in Seq(Answers) /\ <<"none">> \in Seq(Answers)
      /\ <<"unknown">> \in Seq(Answers)
      /\ <<"provisioning", "provisioned", "address">> \in Seq(Answers)
      /\ <<"provisioning", "unable", "ready">> \in Seq(Answers)
  BY DEF Answers
<1>3. ASSUME NEW at, NEW len, HandleWifiSettings(p, at, len)
      PROVE  Typed
  <2>1. CASE Answer(<<"invalid">>)
    BY <1>1, <1>2, <2>1
  <2>2. CASE /\ Credentials(p, at, len) # <<>>
             /\ tried' = Credentials(p, at, len)
             /\ \/ sent' = <<"provisioning", "provisioned", "address">> /\ online' = TRUE
                \/ sent' = <<"provisioning", "unable", "ready">> /\ online' \in BOOLEAN
    <3>1. Len(Credentials(p, at, len)) = 2
      BY <2>2 DEF Credentials
    <3> QED
      BY <1>2, <2>2, <3>1 DEF Typed
  <2> QED
    BY <1>3, <2>1, <2>2 DEF HandleWifiSettings
<1>4. CASE Answer(<<"invalid">>)
  BY <1>1, <1>2, <1>4
<1>5. CASE HandleWifiSettings(p, Start + 3, p[Start + 2])
  BY <1>3, <1>5
<1>6. CASE Answer(IF online THEN <<"provisioned", "address">> ELSE <<"ready">>)
  BY <1>1, <1>2, <1>6
<1>7. CASE Answer(<<"info">>) \/ Answer(<<"networks">>) \/ Answer(<<"none">>) \/ Answer(<<"unknown">>)
  BY <1>1, <1>2, <1>7
<1>8. \/ Answer(<<"invalid">>)
      \/ HandleWifiSettings(p, Start + 3, p[Start + 2])
      \/ Answer(IF online THEN <<"provisioned", "address">> ELSE <<"ready">>)
      \/ Answer(<<"info">>) \/ Answer(<<"networks">>) \/ Answer(<<"none">>)
      \/ Answer(<<"unknown">>)
  BY ZenonT(60) DEF HandleRpc
<1> QED
  BY <1>4, <1>5, <1>6, <1>7, <1>8

LEMMA InvInit == ImprovInit => ImprovInv
<1> SUFFICES ASSUME ImprovInit PROVE ImprovInv
  OBVIOUS
<1>1. Len(packet) < Start
  BY StartBytes DEF ImprovInit
<1>2. packet = <<>> /\ request = <<>> /\ tried = <<>> /\ sent = <<>> /\ recent = <<>>
      /\ online \in BOOLEAN
  BY DEF ImprovInit
<1>3. <<>> \in Seq(Bytes) /\ <<>> \in Seq(Answers) /\ Len(<<>>) = 0
  BY EmptySeq
<1>4. Kept
  BY <1>1, <1>2, <1>3, ShortIsKept DEF Kept
<1>5. ImprovTypeOK
  BY <1>2, <1>3, StartBytes, Numbers DEF ImprovTypeOK
<1> QED
  BY <1>4, <1>5 DEF ImprovInv

\* A byte met while hunting.
LEMMA HeaderStep ==
  ASSUME ImprovInv, NEW b \in Bytes, HeaderByte(b)
  PROVE  ImprovInv'
<1>1. /\ packet \in Seq(Bytes) /\ recent \in Seq(Bytes) /\ Len(recent) <= Len(Header)
      /\ Len(packet) < Len(Header) /\ Len(packet) \in Nat /\ online \in BOOLEAN
  BY LenProperties DEF ImprovInv, ImprovTypeOK, HeaderByte, Hunting
<1>2. packet' \in Seq(Bytes) /\ Len(packet') < Start
  <2>1. CASE packet' = Append(packet, b)
    BY <1>1, <2>1, OneMore, StartBytes
  <2>2. CASE packet' = <<b>>
    <3>1. <<b>> \in Seq(Bytes) /\ Len(<<b>>) = 1
      OBVIOUS
    <3> QED
      BY <2>2, <3>1, StartBytes
  <2>3. CASE packet' = <<>>
    <3>1. <<>> \in Seq(Bytes) /\ Len(<<>>) = 0
      BY EmptySeq
    <3> QED
      BY <2>3, <3>1, StartBytes
  <2> QED
    BY <2>1, <2>2, <2>3 DEF HeaderByte
<1>3. recent' \in Seq(Bytes) /\ Len(recent') <= Len(Header)
  <2>1. /\ Append(recent, b) \in Seq(Bytes)
        /\ Len(Append(recent, b)) = Len(recent) + 1 /\ Len(recent) \in Nat
    BY <1>1, OneMore
  <2>2. CASE Len(recent) + 1 > Len(Header)
    <3>1. recent' = Tail(Append(recent, b))
      BY <2>1, <2>2 DEF HeaderByte, Note
    <3>2. Tail(Append(recent, b)) \in Seq(Bytes) /\ Len(Tail(Append(recent, b))) = Len(recent)
      BY <2>1, HeadTailProperties, EmptySeq
    <3> QED
      BY <1>1, <3>1, <3>2
  <2>3. CASE ~(Len(recent) + 1 > Len(Header))
    BY <2>1, <2>3, StartBytes DEF HeaderByte, Note
  <2> QED
    BY <2>2, <2>3
<1>4. request' = <<>> /\ tried' = <<>> /\ sent' = <<>> /\ online' = online
  BY DEF HeaderByte, Nothing, Answer
<1>5. Kept'
  BY <1>2, ShortIsKept DEF Kept, TooLong, Complete, LengthOf, Start
<1> QED
  BY <1>1, <1>2, <1>3, <1>4, <1>5, StartBytes, Numbers DEF ImprovInv, ImprovTypeOK

\* A byte of a packet: the packet is dropped, kept or handled.
LEMMA PacketStep ==
  ASSUME ImprovInv, NEW b \in Bytes, PacketByte(b)
  PROVE  ImprovInv'
<1> DEFINE p == Append(packet, b)
<1>1. /\ packet \in Seq(Bytes) /\ recent \in Seq(Bytes) /\ Len(recent) <= Len(Header)
      /\ online \in BOOLEAN /\ ~TooLong(packet) /\ ~Complete(packet)
  BY DEF ImprovInv, ImprovTypeOK, Kept
<1>2. /\ p \in Seq(Bytes) /\ Len(p) = Len(packet) + 1 /\ Len(packet) \in Nat
      /\ Len(p) <= Start + MaxPayload + 1
  BY <1>1, OneMore, Room, StartBytes, Numbers
<1>3. <<>> \in Seq(Bytes) /\ <<>> \in Seq(Answers) /\ Len(<<>>) = 0 /\ 0 < Start
  BY EmptySeq, StartBytes
<1>4. Nothing => request' = <<>> /\ Typed
  BY <1>1, <1>3 DEF Nothing, Answer, Typed
<1>5. CASE packet' = <<>> /\ recent' = <<>> /\ Nothing
  <2>1. Kept'
    BY <1>3, <1>5, ShortIsKept DEF Kept, TooLong, Complete, LengthOf, Start
  <2> QED
    BY <1>3, <1>4, <1>5, <2>1, StartBytes, Numbers DEF ImprovInv, ImprovTypeOK, Typed
<1>6. CASE ~TooLong(p) /\ ~Complete(p) /\ packet' = p /\ Nothing /\ recent' = recent
  <2>1. Kept'
    BY <1>6 DEF Kept, TooLong, Complete, LengthOf, Start
  <2>2. packet' \in Seq(Bytes) /\ Len(packet') < Start + MaxPayload + 1
    BY <1>2, <1>6, Room
  <2> QED
    BY <1>1, <1>3, <1>4, <1>6, <2>1, <2>2, StartBytes, Numbers
    DEF ImprovInv, ImprovTypeOK, Typed
<1>7. CASE /\ packet' = <<>> /\ recent' = <<>> /\ request' = p
           /\ \/ Answer(<<>>)
              \/ HandleRpc(p)
  <2>1. Typed
    BY <1>1, <1>3, <1>7, AnswersTyped DEF Answer, Typed, ImprovInv
  <2>2. Kept'
    BY <1>3, <1>7, ShortIsKept DEF Kept, TooLong, Complete, LengthOf, Start
  <2> QED
    BY <1>2, <1>3, <1>7, <2>1, <2>2, StartBytes, Numbers DEF ImprovInv, ImprovTypeOK, Typed
<1> QED
  BY <1>5, <1>6, <1>7 DEF PacketByte

LEMMA InvNext == ImprovInv /\ [ImprovNext]_vars => ImprovInv'
<1> SUFFICES ASSUME ImprovInv, [ImprovNext]_vars PROVE ImprovInv'
  OBVIOUS
<1>1. CASE \E b \in Bytes : HeaderByte(b) \/ PacketByte(b)
  BY <1>1, HeaderStep, PacketStep
<1>2. CASE NetworkChanges
  <2>1. online' \in BOOLEAN
    BY <1>2 DEF NetworkChanges, ImprovInv, ImprovTypeOK
  <2> QED
    BY <1>2, <2>1 DEF NetworkChanges, ImprovInv, ImprovTypeOK, Kept, TooLong, Complete, LengthOf,
                      Start
<1>3. CASE UNCHANGED vars
  BY <1>3 DEF vars, ImprovInv, ImprovTypeOK, Kept, TooLong, Complete, LengthOf, Start
<1> QED
  BY <1>1, <1>2, <1>3 DEF ImprovNext

\* improv.c:293: whatever arrives, s_packet is not written beyond its end, and
\* what is handled is a packet that fits it.
THEOREM ImprovTypeCorrect == ImprovSpec => []ImprovTypeOK
<1>1. ImprovInit => ImprovInv
  BY InvInit
<1>2. ImprovInv /\ [ImprovNext]_vars => ImprovInv'
  BY InvNext
<1>3. ImprovInv => ImprovTypeOK
  BY DEF ImprovInv
<1> QED
  BY <1>1, <1>2, <1>3, PTL DEF ImprovSpec

-----------------------------------------------------------------------------
(* The hunt for the header *)

\* The last n bytes of r are the first n of the header.
Ends(r, n) == \A i \in 1 .. n : r[Len(r) - n + i] = Header[i]

\* That the packet is the longest such run is kept by what "IMPROV" is: a run
\* that breaks off has no other header within it.
HuntInv ==
    Hunting => /\ Len(packet) <= Len(recent)
               /\ Ends(recent, Len(packet))
               /\ \A n \in Len(packet) + 1 .. Len(recent) : ~Ends(recent, n)

LEMMA EndsIsSuffix ==
  ASSUME ImprovTypeOK, NEW n \in 0 .. Len(recent)
  PROVE  IsSuffix(SubSeq(Header, 1, n), recent) <=> Ends(recent, n)
<1> DEFINE h == SubSeq(Header, 1, n)
           l == Len(recent)
<1>1. /\ recent \in Seq(Bytes) /\ l \in Nat /\ l <= Len(Header) /\ Header \in Seq(Bytes)
      /\ Len(Header) \in Nat
  BY LenProperties, HeaderAssumption DEF ImprovTypeOK
<1>2. h \in Seq(Bytes) /\ Len(h) = n /\ \A i \in 1 .. n : h[i] = Header[i]
  BY <1>1, SubSeqProperties
<1>3. /\ Reverse(h) = [i \in 1 .. n |-> h[(n - i) + 1]]
      /\ Reverse(recent) = [i \in 1 .. l |-> recent[(l - i) + 1]]
  BY <1>2 DEF Reverse
<1>4. \A i \in 1 .. l : (l - i) + 1 \in 1 .. l
  BY <1>1
<1>5. Reverse(recent) \in Seq(Bytes) /\ Len(Reverse(recent)) = l
  <2>1. \A i \in 1 .. l : recent[(l - i) + 1] \in Bytes
    BY <1>1, <1>4, ElementOfSeq
  <2> QED
    BY <1>1, <1>3, <2>1
<1>6. Reverse(h) \in Seq(Bytes) /\ Len(Reverse(h)) = n
  <2>1. \A i \in 1 .. n : (n - i) + 1 \in 1 .. n
    BY <1>1
  <2>2. \A i \in 1 .. n : h[(n - i) + 1] \in Bytes
    BY <1>2, <2>1, ElementOfSeq
  <2>3. n \in Nat
    BY <1>1
  <2> QED
    BY <1>3, <2>2, <2>3
<1> DEFINE a == SubSeq(Reverse(h), 1, n)
           c == SubSeq(Reverse(recent), 1, n)
<1>7. /\ a \in Seq(Bytes) /\ Len(a) = n /\ \A i \in 1 .. n : a[i] = h[(n - i) + 1]
      /\ c \in Seq(Bytes) /\ Len(c) = n /\ \A i \in 1 .. n : c[i] = recent[(l - i) + 1]
  BY <1>1, <1>3, <1>5, <1>6, SubSeqProperties
<1>8. IsSuffix(h, recent) <=> a = c
  BY <1>5, <1>6, <1>1 DEF IsSuffix, IsPrefix
<1>9. a = c <=> \A i \in 1 .. n : h[(n - i) + 1] = recent[(l - i) + 1]
  BY <1>7, SeqEqual
<1>10. ASSUME \A i \in 1 .. n : h[(n - i) + 1] = recent[(l - i) + 1]
       PROVE  Ends(recent, n)
  <2> SUFFICES ASSUME NEW i \in 1 .. n PROVE recent[l - n + i] = Header[i]
    BY DEF Ends
  <2>1. (n - i) + 1 \in 1 .. n /\ (n - ((n - i) + 1)) + 1 = i /\ (l - ((n - i) + 1)) + 1 = l - n + i
    BY <1>1
  <2> QED
    BY <1>2, <1>10, <2>1
<1>11. ASSUME Ends(recent, n), NEW i \in 1 .. n
       PROVE  h[(n - i) + 1] = recent[(l - i) + 1]
  <2>1. (n - i) + 1 \in 1 .. n /\ l - n + ((n - i) + 1) = (l - i) + 1
    BY <1>1
  <2> QED
    BY <1>2, <1>11, <2>1 DEF Ends
<1> QED
  BY <1>8, <1>9, <1>10, <1>11

\* One byte more of what was seen last.
LEMMA OneMoreSeen ==
  ASSUME ImprovTypeOK, NEW b \in Bytes, Note(b)
  PROVE  /\ Len(recent') \in Nat /\ Len(recent) \in Nat
         /\ Len(recent') = IF Len(recent) + 1 > Len(Header) THEN Len(recent) ELSE Len(recent) + 1
         /\ recent'[Len(recent')] = b
         /\ \A k \in 1 .. Len(recent') - 1 : recent'[Len(recent') - k] = recent[Len(recent) + 1 - k]
<1> DEFINE r == Append(recent, b)
<1>1. /\ recent \in Seq(Bytes) /\ Len(recent) \in Nat /\ Len(recent) <= Len(Header)
      /\ Len(Header) \in Nat /\ Len(Header) >= 1
  BY LenProperties, StartBytes DEF ImprovTypeOK
<1>2. /\ r \in Seq(Bytes) /\ Len(r) = Len(recent) + 1 /\ r[Len(recent) + 1] = b
      /\ \A i \in 1 .. Len(recent) : r[i] = recent[i] /\ r # <<>>
  BY <1>1, AppendProperties
<1>3. CASE Len(recent) + 1 > Len(Header)
  <2>1. recent' = Tail(r)
    BY <1>2, <1>3 DEF Note
  <2>2. Len(Tail(r)) = Len(recent) /\ \A i \in 1 .. Len(recent) : Tail(r)[i] = r[i + 1]
    BY <1>1, <1>2, HeadTailProperties, EmptySeq
  <2> QED
    BY <1>1, <1>2, <1>3, <2>1, <2>2
<1>4. CASE ~(Len(recent) + 1 > Len(Header))
  <2>1. recent' = r
    BY <1>2, <1>4 DEF Note
  <2> QED
    BY <1>1, <1>2, <1>4, <2>1
<1> QED
  BY <1>3, <1>4

LEMMA HuntStep ==
  ASSUME ImprovTypeOK, HuntInv, NEW b \in Bytes, HeaderByte(b)
  PROVE  HuntInv'
<1> DEFINE m == Len(packet)
           l == Len(recent)
           k == Len(recent')
<1>1. /\ m \in Nat /\ l \in Nat /\ k \in Nat /\ Len(Header) \in Nat /\ m < Len(Header) /\ m <= l
      /\ packet \in Seq(Bytes) /\ l <= Len(Header) /\ Len(Header) >= 1
  BY LenProperties, StartBytes, OneMoreSeen
  DEF ImprovTypeOK, HeaderByte, HuntInv, Hunting
<1>2. Ends(recent, m) /\ \A n \in m + 1 .. l : ~Ends(recent, n)
  BY DEF HeaderByte, HuntInv
<1>3. /\ k = IF l + 1 > Len(Header) THEN l ELSE l + 1
      /\ recent'[k] = b
      /\ \A j \in 1 .. k - 1 : recent'[k - j] = recent[l + 1 - j]
  BY OneMoreSeen DEF HeaderByte
\* A run that ends in b was one byte shorter before.
<1>4. ASSUME NEW n \in 1 .. k, Ends(recent', n)
      PROVE  Ends(recent, n - 1) /\ b = Header[n]
  <2>1. \A i \in 1 .. n : recent'[k - n + i] = Header[i]
    BY <1>4 DEF Ends
  <2>2. b = Header[n]
    <3>1. n \in 1 .. n /\ k - n + n = k
      BY <1>1
    <3> QED
      BY <1>3, <2>1, <3>1
  <2>3. ASSUME NEW i \in 1 .. n - 1
        PROVE  recent[l - (n - 1) + i] = Header[i]
    <3>1. n - i \in 1 .. k - 1 /\ k - (n - i) = k - n + i /\ l + 1 - (n - i) = l - (n - 1) + i
      BY <1>1
    <3>2. i \in 1 .. n
      BY <1>1
    <3> QED
      BY <1>3, <2>1, <3>1, <3>2
  <2> QED
    BY <2>2, <2>3 DEF Ends
<1>5. CASE b = Header[m + 1]
  <2> SUFFICES ASSUME Hunting'
               PROVE  /\ m + 1 <= k
                      /\ Ends(recent', m + 1)
                      /\ \A n \in (m + 1) + 1 .. k : ~Ends(recent', n)
    <3>1. packet' = Append(packet, b) /\ Len(Append(packet, b)) = m + 1
      BY <1>1, <1>5, OneMore DEF HeaderByte
    <3>2. Len(packet') = m + 1
      BY <3>1
    <3>3. ASSUME Ends(recent', m + 1) PROVE Ends(recent', Len(packet'))
      BY <3>2, <3>3 DEF Ends
    <3> QED
      BY <3>2, <3>3 DEF HuntInv
  <2>1. m + 1 <= k
    BY <1>1, <1>3
  <2>2. ASSUME NEW i \in 1 .. m + 1
        PROVE  recent'[k - (m + 1) + i] = Header[i]
    <3>1. CASE i = m + 1
      <4>1. k - (m + 1) + i = k
        BY <1>1, <3>1
      <4> QED
        BY <1>3, <1>5, <3>1, <4>1
    <3>2. CASE i # m + 1
      <4>1. /\ (m + 1) - i \in 1 .. k - 1 /\ k - ((m + 1) - i) = k - (m + 1) + i
            /\ l + 1 - ((m + 1) - i) = l - m + i /\ i \in 1 .. m
        BY <1>1, <2>1, <3>2
      <4> QED
        BY <1>2, <1>3, <4>1 DEF Ends
    <3> QED
      BY <3>1, <3>2
  <2>3. ASSUME NEW n \in (m + 1) + 1 .. k, Ends(recent', n)
        PROVE  FALSE
    <3>1. n \in 1 .. k /\ n - 1 \in m + 1 .. l
      BY <1>1, <1>3
    <3> QED
      BY <1>2, <1>4, <2>3, <3>1
  <2> QED
    BY <2>1, <2>2, <2>3 DEF Ends
<1>6. CASE b # Header[m + 1]
  <2>1. ASSUME NEW n \in 2 .. k, Ends(recent', n)
        PROVE  FALSE
    <3>1. n \in 1 .. k /\ n - 1 \in 1 .. l
      BY <1>1, <1>3
    <3>2. Ends(recent, n - 1) /\ b = Header[n]
      BY <1>4, <2>1, <3>1
    <3>3. n - 1 \notin m + 1 .. l /\ n # m + 1
      BY <1>2, <1>6, <3>2
    <3>4. n <= m
      BY <1>1, <3>1, <3>3
    <3>5. 1 \in 1 .. n - 1 /\ l - (n - 1) + 1 = l - m + (m - n + 2) /\ m - n + 2 \in 2 .. m
      BY <1>1, <3>4
    <3>6. recent[l - (n - 1) + 1] = Header[1]
      BY <3>2, <3>5 DEF Ends
    <3>7. m - n + 2 \in 1 .. m /\ m - n + 2 \in 2 .. Len(Header)
      BY <1>1, <3>5
    <3>8. recent[l - m + (m - n + 2)] = Header[m - n + 2]
      BY <1>2, <3>7 DEF Ends
    <3> QED
      BY <3>5, <3>6, <3>7, <3>8, HeaderAssumption
  <2>2. Ends(recent', 1) <=> b = Header[1]
    <3>1. k - 1 + 1 = k /\ 1 .. 1 = {1}
      BY <1>1
    <3> QED
      BY <1>3, <3>1 DEF Ends
  <2>3. CASE b = Header[1]
    <3>1. packet' = <<b>> /\ Len(<<b>>) = 1
      BY <1>6, <2>3 DEF HeaderByte
    <3>2. Len(packet') = 1 /\ 1 <= k
      BY <1>1, <1>3, <3>1
    <3>3. Ends(recent', Len(packet'))
      BY <2>2, <2>3, <3>2 DEF Ends
    <3> QED
      BY <2>1, <3>2, <3>3 DEF HuntInv
  <2>4. CASE b # Header[1]
    <3>1. packet' = <<>> /\ Len(<<>>) = 0
      BY <1>6, <2>4, EmptySeq DEF HeaderByte
    <3>2. Ends(recent', Len(packet'))
      BY <1>1, <3>1 DEF Ends
    <3>3. ASSUME NEW n \in 1 .. k PROVE ~Ends(recent', n)
      <4>1. n = 1 \/ n \in 2 .. k
        BY <1>1
      <4> QED
        BY <2>1, <2>2, <2>4, <4>1
    <3> QED
      BY <1>1, <3>1, <3>2, <3>3 DEF HuntInv
  <2> QED
    BY <2>3, <2>4
<1> QED
  BY <1>5, <1>6

LEMMA HuntNext ==
  ASSUME ImprovInv, HuntInv, [ImprovNext]_vars
  PROVE  HuntInv'
<1>1. ASSUME NEW b \in Bytes, HeaderByte(b)
      PROVE  HuntInv'
  BY <1>1, HuntStep DEF ImprovInv
<1>2. ASSUME NEW b \in Bytes, PacketByte(b)
      PROVE  HuntInv'
  <2>1. /\ packet \in Seq(Bytes) /\ Len(Append(packet, b)) = Len(packet) + 1
        /\ Len(packet) \in Nat /\ Len(packet) >= Len(Header) /\ Len(Header) \in Nat
    BY <1>2, OneMore, StartBytes DEF ImprovInv, ImprovTypeOK, PacketByte, Hunting
  <2>2. CASE packet' = <<>> /\ recent' = <<>>
    <3>1. Len(packet') = 0 /\ Len(recent') = 0
      BY <2>2, EmptySeq
    <3> QED
      BY <3>1 DEF HuntInv, Ends
  <2>3. CASE packet' = Append(packet, b)
    BY <2>1, <2>3 DEF HuntInv, Hunting
  <2> QED
    BY <1>2, <2>2, <2>3 DEF PacketByte
<1>3. CASE UNCHANGED <<packet, recent>>
  BY <1>3 DEF HuntInv, Hunting, Ends
<1> QED
  BY <1>1, <1>2, <1>3 DEF ImprovNext, NetworkChanges, vars

\* improv.c:257: while the reader hunts it holds the longest part of a header
\* that what it has seen last can begin, for any header without a second first
\* byte.
THEOREM HuntsForHeaderCorrect == ImprovSpec => []HuntsForHeader
<1>1. ImprovInit => ImprovInv /\ HuntInv
  <2> SUFFICES ASSUME ImprovInit PROVE HuntInv
    BY InvInit
  <2>1. Len(packet) = 0 /\ Len(recent) = 0
    BY EmptySeq DEF ImprovInit
  <2> QED
    BY <2>1 DEF HuntInv, Ends
<1>2. ImprovInv /\ HuntInv /\ [ImprovNext]_vars => (ImprovInv /\ HuntInv)'
  BY InvNext, HuntNext
<1>3. ImprovInv /\ HuntInv => HuntsForHeader
  <2> SUFFICES ASSUME ImprovInv, HuntInv, Hunting
               PROVE  Len(packet) = Max({n \in 0 .. Len(recent) :
                                            IsSuffix(SubSeq(Header, 1, n), recent)})
    BY DEF HuntsForHeader
  <2> DEFINE runs == {n \in 0 .. Len(recent) : IsSuffix(SubSeq(Header, 1, n), recent)}
  <2>1. Len(packet) \in Nat /\ Len(recent) \in Nat /\ Len(packet) <= Len(recent)
    BY LenProperties DEF ImprovInv, ImprovTypeOK, HuntInv
  <2>2. \A n \in 0 .. Len(recent) : n \in runs <=> Ends(recent, n)
    BY EndsIsSuffix DEF ImprovInv
  <2>3. Len(packet) \in runs
    BY <2>1, <2>2 DEF HuntInv
  <2>4. \A n \in runs : Len(packet) >= n
    BY <2>1, <2>2 DEF HuntInv
  <2>5. \A x \in runs : (\A y \in runs : x >= y) => x = Len(packet)
    BY <2>1, <2>3, <2>4
  <2> HIDE DEF runs
  <2> QED
    BY <2>3, <2>4, <2>5 DEF Max, runs
<1> QED
  BY <1>1, <1>2, <1>3, PTL DEF ImprovSpec

-----------------------------------------------------------------------------
(* The network that is tried *)

\* A string with its length before it.
Counted(s) == <<Len(s)>> \o s

LEMMA CountedIs ==
  ASSUME NEW s \in Seq(Bytes)
  PROVE  /\ Counted(s) \in Seq(Nat) /\ Len(s) \in Nat /\ Len(Counted(s)) = 1 + Len(s)
         /\ Counted(s)[1] = Len(s)
         /\ \A i \in 1 .. Len(s) : Counted(s)[1 + i] = s[i]
<1>1. s \in Seq(Nat) /\ Len(s) \in Nat
  <2>1. \A i \in 1 .. Len(s) : s[i] \in Nat
    BY ElementOfSeq, Numbers
  <2> QED
    BY <2>1, LenProperties
<1>2. <<Len(s)>> \in Seq(Nat) /\ Len(<<Len(s)>>) = 1 /\ <<Len(s)>>[1] = Len(s)
  BY <1>1
<1>3. /\ Counted(s) \in Seq(Nat) /\ Len(Counted(s)) = 1 + Len(s)
      /\ \A i \in 1 .. 1 + Len(s) :
            Counted(s)[i] = IF i <= 1 THEN <<Len(s)>>[i] ELSE s[i - 1]
  BY <1>1, <1>2, ConcatProperties DEF Counted
<1>4. Counted(s)[1] = Len(s)
  BY <1>1, <1>2, <1>3
<1>5. ASSUME NEW i \in 1 .. Len(s)
      PROVE  Counted(s)[1 + i] = s[i]
  <2>1. 1 + i \in 1 .. 1 + Len(s) /\ ~(1 + i <= 1) /\ (1 + i) - 1 = i
    BY <1>1
  <2> QED
    BY <1>3, <2>1
<1> QED
  BY <1>1, <1>3, <1>4, <1>5

\* The string s is at the place k of d, with its length before it.
Holds(d, k, s) == d[k] = Len(s) /\ \A i \in 1 .. Len(s) : d[k + i] = s[i]

\* Two counted strings, one behind the other.
LEMMA PairIs ==
  ASSUME NEW a \in Seq(Bytes), NEW b \in Seq(Bytes)
  PROVE  LET z == <<Len(a)>> \o a \o <<Len(b)>> \o b
         IN  /\ z \in Seq(Nat) /\ Len(z) = 2 + Len(a) + Len(b)
             /\ Holds(z, 1, a) /\ Holds(z, 2 + Len(a), b)
<1> DEFINE z == <<Len(a)>> \o a \o <<Len(b)>> \o b
           x == Counted(a)
           y == Counted(b)
<1>1. /\ x \in Seq(Nat) /\ Len(x) = 1 + Len(a) /\ Len(a) \in Nat
      /\ x[1] = Len(a) /\ \A i \in 1 .. Len(a) : x[1 + i] = a[i]
  BY CountedIs
<1>2. /\ y \in Seq(Nat) /\ Len(y) = 1 + Len(b) /\ Len(b) \in Nat
      /\ y[1] = Len(b) /\ \A i \in 1 .. Len(b) : y[1 + i] = b[i]
  BY CountedIs
<1>3. z = x \o y
  <2>1. b \in Seq(Nat) /\ <<Len(b)>> \in Seq(Nat)
    <3>1. \A i \in 1 .. Len(b) : b[i] \in Nat
      BY ElementOfSeq, Numbers
    <3>2. b \in Seq(Nat)
      BY <3>1, LenProperties
    <3>3. Len(b) \in Nat
      BY LenProperties
    <3> QED
      BY <3>2, <3>3
  <2>2. (x \o <<Len(b)>>) \o b = x \o (<<Len(b)>> \o b)
    BY SMTT(40), <1>1, <2>1, ConcatAssociative
  <2> QED
    BY <2>2 DEF Counted
<1> HIDE DEF x, y, z
<1>4. /\ z \in Seq(Nat) /\ Len(z) = 2 + Len(a) + Len(b)
      /\ \A i \in 1 .. 2 + Len(a) + Len(b) :
            z[i] = IF i <= 1 + Len(a) THEN x[i] ELSE y[i - (1 + Len(a))]
  <2>1. /\ x \o y \in Seq(Nat) /\ Len(x \o y) = Len(x) + Len(y)
        /\ \A i \in 1 .. Len(x) + Len(y) :
              (x \o y)[i] = IF i <= Len(x) THEN x[i] ELSE y[i - Len(x)]
    <3>1. x \in Seq(Nat) /\ y \in Seq(Nat)
      BY <1>1, <1>2
    <3> QED
      BY <3>1, ConcatProperties
  <2>2. Len(x) + Len(y) = 2 + Len(a) + Len(b)
    BY <1>1, <1>2
  <2> QED
    BY <1>1, <1>2, <1>3, <2>1, <2>2
<1>5. Holds(z, 1, a)
  <2>1. z[1] = Len(a)
    BY <1>1, <1>2, <1>4
  <2>2. ASSUME NEW i \in 1 .. Len(a)
        PROVE  z[1 + i] = a[i]
    <3>1. 1 + i \in 1 .. 2 + Len(a) + Len(b) /\ 1 + i <= 1 + Len(a)
      BY <1>1, <1>2
    <3> QED
      BY <1>1, <1>4, <3>1
  <2> QED
    BY <2>1, <2>2 DEF Holds
<1>6. Holds(z, 2 + Len(a), b)
  <2>1. z[2 + Len(a)] = Len(b)
    <3>1. /\ 2 + Len(a) \in 1 .. 2 + Len(a) + Len(b) /\ ~(2 + Len(a) <= 1 + Len(a))
          /\ (2 + Len(a)) - (1 + Len(a)) = 1
      BY <1>1, <1>2
    <3> QED
      BY <1>2, <1>4, <3>1
  <2>2. ASSUME NEW i \in 1 .. Len(b)
        PROVE  z[2 + Len(a) + i] = b[i]
    <3>1. /\ 2 + Len(a) + i \in 1 .. 2 + Len(a) + Len(b) /\ ~(2 + Len(a) + i <= 1 + Len(a))
          /\ (2 + Len(a) + i) - (1 + Len(a)) = 1 + i
      BY <1>1, <1>2
    <3> QED
      BY <1>2, <1>4, <3>1
  <2> QED
    BY <2>1, <2>2 DEF Holds
<1> QED
  BY <1>4, <1>5, <1>6 DEF z

\* A sequence begins with another if it is at least as long and agrees with it.
LEMMA PrefixIs ==
  ASSUME NEW s \in Seq(Nat), NEW t \in Seq(Nat)
  PROVE  IsPrefix(s, t) <=> Len(s) <= Len(t) /\ \A i \in 1 .. Len(s) : s[i] = t[i]
<1>1. Len(s) \in Nat /\ Len(t) \in Nat
  BY LenProperties
<1>2. CASE Len(s) <= Len(t)
  <2> DEFINE u == SubSeq(s, 1, Len(s))
             v == SubSeq(t, 1, Len(s))
  <2>1. /\ \A i \in 1 .. Len(s) : s[i] \in Nat
        /\ \A i \in 1 .. Len(s) : t[i] \in Nat
    <3>1. \A i \in 1 .. Len(s) : i \in 1 .. Len(t)
      BY <1>1, <1>2
    <3> QED
      BY <3>1, ElementOfSeq
  <2>2. u \in Seq(Nat) /\ Len(u) = Len(s) /\ \A i \in 1 .. Len(s) : u[i] = s[i]
    BY <1>1, <2>1, SubSeqProperties
  <2>3. v \in Seq(Nat) /\ Len(v) = Len(s) /\ \A i \in 1 .. Len(s) : v[i] = t[i]
    BY <1>1, <2>1, SubSeqProperties
  <2> HIDE DEF u, v
  <2>4. u = v <=> \A i \in 1 .. Len(s) : s[i] = t[i]
    BY <2>2, <2>3, SeqEqual
  <2> QED
    BY <1>2, <2>4 DEF IsPrefix, u, v
<1> QED
  BY <1>2 DEF IsPrefix

\* What the protocol encodes, byte by byte.
Fits(d, a, b) ==
    \/ /\ 2 + Len(a) + Len(b) <= Len(d)
       /\ Holds(d, 1, a) /\ Holds(d, 2 + Len(a), b)
    \/ Len(d) = 1 + Len(a) /\ Holds(d, 1, a) /\ b = <<>>

LEMMA EncodesIs ==
  ASSUME NEW d \in Seq(Nat), NEW a \in Seq(Bytes), NEW b \in Seq(Bytes)
  PROVE  Encodes(d, a, b) <=> Fits(d, a, b)
<1> DEFINE z == <<Len(a)>> \o a \o <<Len(b)>> \o b
           x == Counted(a)
<1>1. /\ z \in Seq(Nat) /\ Len(z) = 2 + Len(a) + Len(b)
      /\ Holds(z, 1, a) /\ Holds(z, 2 + Len(a), b)
  BY PairIs
<1>2. /\ x \in Seq(Nat) /\ Len(a) \in Nat /\ Len(x) = 1 + Len(a)
      /\ x[1] = Len(a) /\ \A i \in 1 .. Len(a) : x[1 + i] = a[i]
  BY CountedIs
<1>3. Len(b) \in Nat /\ Len(d) \in Nat
  BY LenProperties
<1>4. Encodes(d, a, b) <=> IsPrefix(z, d) \/ (d = x /\ b = <<>>)
  BY DEF Encodes, Counted
<1> HIDE DEF z, x
<1>5. IsPrefix(z, d) <=> Len(z) <= Len(d) /\ \A i \in 1 .. Len(z) : z[i] = d[i]
  BY <1>1, PrefixIs
<1>6. ASSUME \A i \in 1 .. Len(z) : z[i] = d[i]
      PROVE  Holds(d, 1, a) /\ Holds(d, 2 + Len(a), b)
  <2>1. 1 \in 1 .. Len(z) /\ 2 + Len(a) \in 1 .. Len(z)
    BY <1>1, <1>2, <1>3
  <2>2. \A i \in 1 .. Len(a) : 1 + i \in 1 .. Len(z)
    BY <1>1, <1>2, <1>3
  <2>3. \A i \in 1 .. Len(b) : 2 + Len(a) + i \in 1 .. Len(z)
    BY <1>1, <1>2, <1>3
  <2> QED
    BY <1>1, <1>6, <2>1, <2>2, <2>3 DEF Holds
<1>7. ASSUME Holds(d, 1, a), Holds(d, 2 + Len(a), b), NEW i \in 1 .. Len(z)
      PROVE  z[i] = d[i]
  <2>1. CASE i = 1 \/ i = 2 + Len(a)
    BY <1>1, <1>7, <2>1 DEF Holds
  <2>2. CASE i # 1 /\ i <= 1 + Len(a)
    <3>1. i - 1 \in 1 .. Len(a) /\ 1 + (i - 1) = i
      BY <1>1, <1>2, <1>3, <2>2
    <3>2. z[1 + (i - 1)] = a[i - 1] /\ d[1 + (i - 1)] = a[i - 1]
      BY <1>1, <1>7, <3>1 DEF Holds
    <3> QED
      BY <3>1, <3>2
  <2>3. CASE i > 2 + Len(a)
    <3>1. i - (2 + Len(a)) \in 1 .. Len(b) /\ 2 + Len(a) + (i - (2 + Len(a))) = i
      BY <1>1, <1>2, <1>3, <2>3
    <3>2. /\ z[2 + Len(a) + (i - (2 + Len(a)))] = b[i - (2 + Len(a))]
          /\ d[2 + Len(a) + (i - (2 + Len(a)))] = b[i - (2 + Len(a))]
      BY <1>1, <1>7, <3>1 DEF Holds
    <3> QED
      BY <3>1, <3>2
  <2> QED
    BY <1>1, <1>2, <1>3, <2>1, <2>2, <2>3
<1>8. d = x <=> Len(d) = 1 + Len(a) /\ Holds(d, 1, a)
  <2>1. ASSUME d = x
        PROVE  Len(d) = 1 + Len(a) /\ Holds(d, 1, a)
    BY <1>2, <2>1 DEF Holds
  <2>2. ASSUME Len(d) = 1 + Len(a), Holds(d, 1, a)
        PROVE  d = x
    <3>1. ASSUME NEW i \in 1 .. Len(d)
          PROVE  d[i] = x[i]
      <4>1. CASE i = 1
        BY <1>2, <2>2, <4>1 DEF Holds
      <4>2. CASE i # 1
        <5>1. i - 1 \in 1 .. Len(a) /\ 1 + (i - 1) = i
          BY <1>2, <2>2, <4>2
        <5>2. x[1 + (i - 1)] = a[i - 1] /\ d[1 + (i - 1)] = a[i - 1]
          BY <1>2, <2>2, <5>1 DEF Holds
        <5> QED
          BY <5>1, <5>2
      <4> QED
        BY <4>1, <4>2
    <3> QED
      BY <1>2, <2>2, <3>1, SeqEqual
  <2> QED
    BY <2>1, <2>2
<1> QED
  BY <1>1, <1>4, <1>5, <1>6, <1>7, <1>8 DEF Fits

LEMMA StringsAre ==
  ASSUME NEW k \in Nat \ {0}, NEW s
  PROVE  s \in Strings(k) <=> s \in Seq(Bytes) /\ Len(s) < k
<1>1. ASSUME s \in Strings(k)
      PROVE  s \in Seq(Bytes) /\ Len(s) < k
  <2>1. PICK j \in 0 .. k - 1 : s \in [1 .. j -> Bytes]
    BY <1>1 DEF Strings
  <2>2. s \in Seq(Bytes) /\ Len(s) = j
    BY <2>1
  <2> QED
    BY <2>1, <2>2
<1>2. ASSUME s \in Seq(Bytes), Len(s) < k
      PROVE  s \in Strings(k)
  <2>1. s \in [1 .. Len(s) -> Bytes] /\ Len(s) \in 0 .. k - 1
    BY <1>2, LenProperties
  <2> QED
    BY <2>1 DEF Strings
<1> QED
  BY <1>1, <1>2

\* The credentials that the n bytes d encode.
Encoded(d) == {o \in Strings(SsidMax) \X Strings(PasswordMax) : Encodes(d, o[1], o[2])}

\* The sequence d is what stands at the place k of p.
StandsAt(d, p, k) == \A i \in 1 .. Len(d) : d[i] = p[(k - 1) + i]

\* The l bytes of p behind the first k.
LEMMA CutIs ==
  ASSUME NEW p \in Seq(Bytes), NEW k \in Nat, NEW l \in Nat, k + l <= Len(p)
  PROVE  /\ SubSeq(p, k + 1, k + l) \in Seq(Bytes) /\ Len(SubSeq(p, k + 1, k + l)) = l
         /\ \A i \in 1 .. l : SubSeq(p, k + 1, k + l)[i] = p[k + i]
<1> DEFINE c == SubSeq(p, k + 1, k + l)
<1>1. \A i \in k + 1 .. k + l : p[i] \in Bytes
  BY LenProperties, ElementOfSeq
<1>2. k + 1 \in Int /\ k + l \in Int
  OBVIOUS
<1>3. /\ c \in Seq(Bytes)
      /\ Len(c) = IF k + 1 <= k + l THEN k + l - (k + 1) + 1 ELSE 0
      /\ \A i \in 1 .. k + l - (k + 1) + 1 : c[i] = p[k + 1 + i - 1]
  BY <1>1, <1>2, SubSeqProperties
<1> HIDE DEF c
<1>4. Len(c) = l
  BY <1>3
<1>5. ASSUME NEW i \in 1 .. l
      PROVE  c[i] = p[k + i]
  <2>1. i \in 1 .. k + l - (k + 1) + 1 /\ k + 1 + i - 1 = k + i
    OBVIOUS
  <2> QED
    BY <1>3, <2>1
<1> QED
  BY <1>3, <1>4, <1>5 DEF c

\* Bytes that encode no credentials are refused, and of those that encode some
\* these are what is taken.
LEMMA TakesWhatIsEncoded ==
  ASSUME NEW p \in Seq(Bytes), NEW at \in Nat \ {0}, NEW n \in Nat, (at - 1) + n <= Len(p),
         NEW d \in Seq(Bytes), Len(d) = n, StandsAt(d, p, at)
  PROVE  IF Encoded(d) = {} THEN Credentials(p, at, n) = <<>>
         ELSE \E o \in Encoded(d) : Credentials(p, at, n) = <<CString(o[1]), CString(o[2])>>
<1> DEFINE s == p[at]
           w == p[at + 1 + s]
           a == SubSeq(p, at + 1, at + s)
           b == SubSeq(p, at + 2 + s, at + 1 + s + w)
<1>1. d \in Seq(Nat) /\ \A i \in 1 .. n : d[i] \in Nat /\ p[(at - 1) + i] \in Bytes
  <2>1. \A i \in 1 .. n : d[i] = p[(at - 1) + i]
    BY DEF StandsAt
  <2>2. \A i \in 1 .. n : d[i] \in Bytes
    BY ElementOfSeq
  <2>3. \A i \in 1 .. n : d[i] \in Nat
    BY <2>2, Numbers
  <2> QED
    BY <2>1, <2>2, <2>3, LenProperties
<1>2. /\ Credentials(p, at, n) =
            IF n < 1 \/ s + 1 > n \/ s >= SsidMax THEN <<>>
            ELSE IF n - 1 - s < 1 THEN <<CString(a), <<>> >>
            ELSE IF w + 2 + s > n \/ w >= PasswordMax THEN <<>>
            ELSE <<CString(a), CString(b)>>
  BY DEF Credentials
<1>3. ASSUME NEW o \in Encoded(d)
      PROVE  /\ Len(o[1]) = d[1] /\ Len(o[1]) < SsidMax /\ 1 + Len(o[1]) <= n
             /\ n # 1 + Len(o[1]) => /\ Len(o[2]) = d[2 + Len(o[1])] /\ Len(o[2]) < PasswordMax
                                    /\ 2 + Len(o[1]) + Len(o[2]) <= n
  <2>1. o[1] \in Strings(SsidMax) /\ o[2] \in Strings(PasswordMax) /\ Encodes(d, o[1], o[2])
    BY DEF Encoded
  <2>2. /\ o[1] \in Seq(Bytes) /\ Len(o[1]) < SsidMax
        /\ o[2] \in Seq(Bytes) /\ Len(o[2]) < PasswordMax
    BY <2>1, StringsAre, StringAssumption
  <2>3. Len(o[1]) \in Nat /\ Len(o[2]) \in Nat
    BY <2>2, LenProperties
  <2>4. Fits(d, o[1], o[2])
    BY <1>1, <2>1, <2>2, EncodesIs
  <2>5. CASE /\ 2 + Len(o[1]) + Len(o[2]) <= Len(d)
             /\ Holds(d, 1, o[1]) /\ Holds(d, 2 + Len(o[1]), o[2])
    <3>1. Len(o[1]) = d[1] /\ Len(o[2]) = d[2 + Len(o[1])]
      BY <2>5 DEF Holds
    <3>2. 1 + Len(o[1]) <= n
      <4> DEFINE x == Len(o[1])
                 y == Len(o[2])
      <4>1. x \in Nat /\ y \in Nat /\ 2 + x + y <= n
        BY <2>3, <2>5
      <4> HIDE DEF x, y
      <4>2. 1 + x <= n
        BY <4>1
      <4> QED
        BY <4>2 DEF x
    <3> QED
      BY <2>2, <2>5, <3>1, <3>2
  <2>6. CASE Len(d) = 1 + Len(o[1]) /\ Holds(d, 1, o[1])
    <3>1. Len(o[1]) = d[1]
      BY <2>6 DEF Holds
    <3>2. 1 + Len(o[1]) <= n
      BY <2>3, <2>6
    <3> QED
      BY <2>2, <2>6, <3>1, <3>2
  <2> QED
    BY <2>4, <2>5, <2>6 DEF Fits
<1>4. ASSUME NEW x \in Seq(Bytes), Len(x) < SsidMax, NEW y \in Seq(Bytes), Len(y) < PasswordMax,
             Fits(d, x, y)
      PROVE  <<x, y>> \in Encoded(d)
  <2>1. x \in Strings(SsidMax) /\ y \in Strings(PasswordMax)
    BY <1>4, StringsAre, StringAssumption
  <2>2. Encodes(d, x, y)
    BY <1>1, <1>4, EncodesIs
  <2> QED
    BY <2>1, <2>2 DEF Encoded
<1> HIDE DEF s, w, a, b
<1>5. CASE n = 0
  <2>1. ASSUME NEW o \in Encoded(d)
        PROVE  FALSE
    <3>1. o[1] \in Seq(Bytes)
      BY StringsAre, StringAssumption DEF Encoded
    <3>2. Len(o[1]) \in Nat /\ 1 + Len(o[1]) <= 0
      BY <1>3, <1>5, <3>1, LenProperties
    <3> QED
      BY <3>2
  <2> QED
    BY <1>2, <1>5, <2>1
<1>6. CASE n >= 1
  <2>1. s = d[1]
    <3>1. 1 \in 1 .. n /\ (at - 1) + 1 = at
      BY <1>6
    <3> QED
      BY <3>1 DEF s, StandsAt
  <2>2. s \in Nat
    <3>1. 1 \in 1 .. n
      BY <1>6
    <3> QED
      BY <1>1, <2>1, <3>1
  <2>3. \A o \in Encoded(d) : Len(o[1]) = s /\ 1 + s <= n /\ s < SsidMax
    BY <1>3, <2>1
  <2>4. CASE s + 1 > n \/ s >= SsidMax
    <3>1. Encoded(d) = {}
      BY <2>2, <2>3, <2>4, StringAssumption
    <3> QED
      BY <1>2, <2>4, <3>1
  <2>5. CASE s + 1 <= n /\ s < SsidMax
    <3>1. a \in Seq(Bytes) /\ Len(a) = s /\ Holds(d, 1, a)
      <4>1. at \in Nat /\ at + s <= Len(p)
        <5>1. Len(p) \in Nat
          BY LenProperties
        <5> QED
          BY <2>2, <2>5, <5>1
      <4>2. a \in Seq(Bytes) /\ Len(a) = s /\ \A i \in 1 .. s : a[i] = p[at + i]
        BY <2>2, <4>1, CutIs DEF a
      <4>3. ASSUME NEW i \in 1 .. s
            PROVE  d[1 + i] = a[i]
        <5>1. 1 + i \in 1 .. n /\ (at - 1) + (1 + i) = at + i
          BY <2>2, <2>5
        <5> QED
          BY <4>2, <5>1 DEF StandsAt
      <4> QED
        BY <2>1, <4>2, <4>3 DEF Holds
    <3>2. CASE n = 1 + s
      <4>1. <<>> \in Seq(Bytes) /\ Len(<<>>) = 0 /\ 0 < PasswordMax
        BY EmptySeq, StringAssumption
      <4>2. Fits(d, a, <<>>)
        BY <3>1, <3>2 DEF Fits
      <4>3. <<a, <<>> >> \in Encoded(d)
        BY <1>4, <2>5, <3>1, <4>1, <4>2
      <4>4. CString(<<>>) = <<>>
        BY EmptySeq DEF CString
      <4>5. Credentials(p, at, n) = <<CString(a), <<>> >>
        <5>1. ~(n < 1 \/ s + 1 > n \/ s >= SsidMax)
          BY <1>6, <2>2, <2>5, StringAssumption
        <5>2. n - 1 - s < 1
          BY <2>2, <3>2
        <5> QED
          BY <1>2, <5>1, <5>2
      <4> QED
        BY <4>3, <4>4, <4>5
    <3>3. CASE n > 1 + s
      <4>1. w = d[2 + s]
        <5>1. 2 + s \in 1 .. n /\ (at - 1) + (2 + s) = at + 1 + s
          BY <2>2, <3>3
        <5> QED
          BY <5>1 DEF w, StandsAt
      <4>2. w \in Nat
        <5>1. 2 + s \in 1 .. n
          BY <2>2, <3>3
        <5> QED
          BY <1>1, <4>1, <5>1
      <4>3. \A o \in Encoded(d) : Len(o[2]) = w /\ 2 + s + w <= n /\ w < PasswordMax
        <5> SUFFICES ASSUME NEW o \in Encoded(d)
                     PROVE  Len(o[2]) = w /\ 2 + s + w <= n /\ w < PasswordMax
          OBVIOUS
        <5>1. Len(o[1]) = s /\ n # 1 + Len(o[1])
          BY <2>2, <2>3, <3>3
        <5> QED
          BY <1>3, <4>1, <5>1
      <4>4. CASE w + 2 + s > n \/ w >= PasswordMax
        <5>1. Encoded(d) = {}
          BY <2>2, <4>2, <4>3, <4>4, StringAssumption
        <5>2. Credentials(p, at, n) = <<>>
          BY <1>2, <1>6, <2>2, <2>5, <3>3, <4>4, StringAssumption
        <5> QED
          BY <5>1, <5>2
      <4>5. CASE w + 2 + s <= n /\ w < PasswordMax
        <5>1. b \in Seq(Bytes) /\ Len(b) = w /\ Holds(d, 2 + s, b)
          <6>1. at + 1 + s \in Nat /\ at + 1 + s + w <= Len(p)
            <7>1. Len(p) \in Nat
              BY LenProperties
            <7> QED
              BY <2>2, <4>2, <4>5, <7>1
          <6>2. b \in Seq(Bytes) /\ Len(b) = w /\ \A i \in 1 .. w : b[i] = p[at + 1 + s + i]
            <7> DEFINE k == at + 1 + s
            <7>1. at + 2 + s = k + 1 /\ k + w = at + 1 + s + w
              BY <2>2, <4>2
            <7>2. b = SubSeq(p, k + 1, k + w)
              BY <7>1 DEF b
            <7>3. k \in Nat /\ w \in Nat /\ k + w <= Len(p)
              BY <4>2, <6>1, <7>1
            <7> HIDE DEF b, k
            <7>4. b \in Seq(Bytes) /\ Len(b) = w /\ \A i \in 1 .. w : b[i] = p[k + i]
              BY <7>2, <7>3, CutIs
            <7> QED
              BY <7>4 DEF k
          <6>3. ASSUME NEW i \in 1 .. w
                PROVE  d[2 + s + i] = b[i]
            <7>1. 2 + s + i \in 1 .. n /\ (at - 1) + (2 + s + i) = at + 1 + s + i
              BY <2>2, <4>2, <4>5
            <7> QED
              BY <6>2, <7>1 DEF StandsAt
          <6> QED
            BY <4>1, <6>2, <6>3 DEF Holds
        <5>2. Fits(d, a, b)
          BY <2>2, <3>1, <4>2, <4>5, <5>1 DEF Fits
        <5>3. <<a, b>> \in Encoded(d)
          BY <1>4, <2>5, <3>1, <4>5, <5>1, <5>2
        <5>4. Credentials(p, at, n) = <<CString(a), CString(b)>>
          <6>1. ~(n < 1 \/ s + 1 > n \/ s >= SsidMax) /\ ~(n - 1 - s < 1)
            BY <1>6, <2>2, <2>5, <3>3, StringAssumption
          <6>2. ~(w + 2 + s > n \/ w >= PasswordMax)
            BY <2>2, <4>2, <4>5, StringAssumption
          <6> QED
            BY <1>2, <6>1, <6>2
        <5> QED
          BY <5>3, <5>4
      <4> QED
        BY <2>2, <4>2, <4>4, <4>5, StringAssumption
    <3> QED
      BY <2>2, <2>5, <3>2, <3>3
  <2> QED
    BY <2>2, <2>4, <2>5, StringAssumption
<1> QED
  BY <1>5, <1>6

\* A complete packet is handled so that what is tried is what it carries.
LEMMA HandledPacket ==
  ASSUME NEW p \in Seq(Bytes), Complete(p),
         \/ ~IsRequest(p) /\ Answer(<<>>)
         \/ IsRequest(p) /\ HandleRpc(p)
  PROVE  IF Carried(p) = {} THEN tried' = <<>>
         ELSE \E o \in Carried(p) : tried' = <<CString(o[1]), CString(o[2])>>
<1> DEFINE len     == LengthOf(p)
           payload == PayloadOf(p)
           data    == SubSeq(payload, 3, 2 + payload[2])
<1>1. Len(p) \in Nat /\ Start \in Nat /\ Start >= 1 /\ Len(p) >= Start
  BY LenProperties, StartBytes DEF Complete
<1>2. \A i \in 1 .. Len(p) : p[i] \in Bytes /\ p[i] \in Nat
  BY ElementOfSeq, Numbers
<1>3. len \in Nat /\ Len(p) >= Start + len + 1
  BY <1>1, <1>2 DEF Complete, LengthOf
<1>4. payload \in Seq(Bytes) /\ Len(payload) = len /\ \A i \in 1 .. len : payload[i] = p[Start + i]
  <2>1. Start + len <= Len(p)
    BY <1>1, <1>3
  <2> QED
    BY <1>1, <1>3, <2>1, CutIs DEF PayloadOf
<1>5. Carried(p) = IF ~IsRequest(p) \/ Len(payload) < 2 THEN {}
                   ELSE IF payload[1] # Commands["settings"] \/ payload[2] + 2 > Len(payload) THEN {}
                   ELSE Encoded(data)
  BY DEF Carried, Encoded
<1> HIDE DEF len, payload, data
<1>6. CASE ~IsRequest(p)
  BY <1>5, <1>6 DEF Answer
<1>7. CASE IsRequest(p) /\ len < 2
  BY <1>4, <1>5, <1>7 DEF HandleRpc, Answer, len
<1>8. CASE IsRequest(p) /\ len >= 2
  <2>1. payload[1] = p[Start + 1] /\ payload[2] = p[Start + 2] /\ payload[2] \in Nat
    <3>1. 1 \in 1 .. len /\ 2 \in 1 .. len /\ Start + 2 \in 1 .. Len(p)
      BY <1>1, <1>3, <1>8
    <3> QED
      BY <1>2, <1>4, <3>1
  <2>2. CASE payload[2] + 2 > len
    <3>1. tried' = <<>>
      BY <1>3, <1>8, <2>1, <2>2 DEF HandleRpc, Answer, len
    <3> QED
      BY <1>4, <1>5, <2>2, <3>1
  <2>3. CASE payload[2] + 2 <= len
    <3>1. \/ /\ p[Start + 1] = Commands["settings"]
             /\ HandleWifiSettings(p, Start + 3, p[Start + 2])
          \/ p[Start + 1] # Commands["settings"] /\ tried' = <<>>
      <4>1. ~(len < 2) /\ ~(p[Start + 2] + 2 > len)
        BY <1>3, <1>8, <2>1, <2>3
      <4>2. /\ Commands["state"] # Commands["settings"] /\ Commands["info"] # Commands["settings"]
            /\ Commands["networks"] # Commands["settings"]
            /\ Commands["identify"] # Commands["settings"] /\ "settings" \in DOMAIN Commands
        BY CommandAssumption
      <4> QED
        BY <1>8, <4>1, <4>2 DEF HandleRpc, Answer, len
    <3>2. CASE p[Start + 1] # Commands["settings"] /\ tried' = <<>>
      BY <1>5, <2>1, <3>2
    <3>3. CASE /\ p[Start + 1] = Commands["settings"]
               /\ HandleWifiSettings(p, Start + 3, p[Start + 2])
      <4> DEFINE n == payload[2]
      <4>1. data \in Seq(Bytes) /\ Len(data) = n /\ \A i \in 1 .. n : data[i] = p[Start + 2 + i]
        <5>1. 2 + 1 = 3 /\ n \in Nat /\ 2 + n <= Len(payload)
          BY <1>3, <1>4, <2>1, <2>3
        <5>2. data \in Seq(Bytes) /\ Len(data) = n /\ \A i \in 1 .. n : data[i] = payload[2 + i]
          BY <1>4, <5>1, CutIs DEF data
        <5>3. ASSUME NEW i \in 1 .. n
              PROVE  data[i] = p[Start + 2 + i]
          <6>1. 2 + i \in 1 .. len /\ Start + (2 + i) = Start + 2 + i
            BY <1>1, <1>3, <2>1, <2>3
          <6> QED
            BY <1>4, <5>2, <6>1
        <5> QED
          BY <5>2, <5>3
      <4>2. IF Encoded(data) = {} THEN Credentials(p, Start + 3, n) = <<>>
            ELSE \E o \in Encoded(data) :
                    Credentials(p, Start + 3, n) = <<CString(o[1]), CString(o[2])>>
        <5> DEFINE at == Start + 3
        <5>1. at \in Nat \ {0} /\ n \in Nat /\ (at - 1) + n <= Len(p) /\ at - 1 = Start + 2
          BY <1>1, <1>3, <2>1, <2>3
        <5>2. data \in Seq(Bytes) /\ Len(data) = n
          BY <4>1
        <5> HIDE DEF at, n
        <5>3. StandsAt(data, p, at)
          BY <4>1, <5>1, <5>2 DEF StandsAt
        <5>4. IF Encoded(data) = {} THEN Credentials(p, at, n) = <<>>
              ELSE \E o \in Encoded(data) : Credentials(p, at, n) = <<CString(o[1]), CString(o[2])>>
          BY <5>1, <5>2, <5>3, TakesWhatIsEncoded
        <5> QED
          BY <5>4 DEF at
      <4>3. tried' = Credentials(p, Start + 3, n)
        BY <2>1, <3>3 DEF HandleWifiSettings, Answer
      <4>4. Carried(p) = Encoded(data)
        BY <1>3, <1>4, <1>5, <1>8, <2>1, <2>3, <3>3
      <4> QED
        BY <4>2, <4>3, <4>4
    <3> QED
      BY <3>1, <3>2, <3>3
  <2> QED
    BY <1>3, <2>1, <2>2, <2>3
<1> QED
  BY <1>3, <1>6, <1>7, <1>8

\* improv.c:124: for any sizes and request numbers, the network tried is the
\* one that the packet names, and none is tried for a packet that is broken,
\* asks for something else or names none.
THEOREM TriesWhatWasSentCorrect == ImprovSpec => []TriesWhatWasSent
<1>1. ImprovInit => ImprovInv /\ TriesWhatWasSent
  BY InvInit DEF ImprovInit, TriesWhatWasSent
<1>2. ImprovInv /\ TriesWhatWasSent /\ [ImprovNext]_vars => (ImprovInv /\ TriesWhatWasSent)'
  <2> SUFFICES ASSUME ImprovInv, TriesWhatWasSent, [ImprovNext]_vars
               PROVE  TriesWhatWasSent'
    BY InvNext
  <2>1. CASE request' = <<>>
    BY <2>1 DEF TriesWhatWasSent
  <2>2. ASSUME NEW b \in Bytes, PacketByte(b), request' # <<>>
        PROVE  TriesWhatWasSent'
    <3> DEFINE p == Append(packet, b)
    <3>1. p \in Seq(Bytes)
      BY OneMore DEF ImprovInv, ImprovTypeOK
    <3>2. /\ Complete(p) /\ request' = p
          /\ \/ ~IsRequest(p) /\ Answer(<<>>)
             \/ IsRequest(p) /\ HandleRpc(p)
      BY <2>2 DEF PacketByte, Nothing
    <3>3. IF Carried(p) = {} THEN tried' = <<>>
          ELSE \E o \in Carried(p) : tried' = <<CString(o[1]), CString(o[2])>>
      BY <3>1, <3>2, HandledPacket
    <3> QED
      BY <3>2, <3>3 DEF TriesWhatWasSent
  <2>3. CASE UNCHANGED <<request, tried>>
    BY <2>3 DEF TriesWhatWasSent
  <2> QED
    BY <2>1, <2>2, <2>3 DEF ImprovNext, HeaderByte, Nothing, NetworkChanges, vars
<1> QED
  BY <1>1, <1>2, PTL DEF ImprovSpec
==============================================================================
