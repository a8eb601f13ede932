--------------------------- MODULE Handshake_proofs ---------------------------
(***************************************************************************)
(* Proofs about Handshake.  Everything rests on one fact: a text behind    *)
(* its length can be read off the front of a longer sequence in one way    *)
(* only, so that what two ends sign or authenticate determines every field *)
(* of it.                                                                  *)
(***************************************************************************)
EXTENDS Handshake, SequenceTheorems, TLAPS

(* Two sequences with equal concatenations and equally long fronts have    *)
(* equal fronts and equal rests.                                           *)
LEMMA Cut ==
  ASSUME NEW S, NEW a \in Seq(S), NEW b \in Seq(S), NEW x \in Seq(S), NEW y \in Seq(S),
         Len(a) = Len(b), Concat(a, x) = Concat(b, y)
  PROVE  a = b /\ x = y
<1>1. /\ Len(Concat(a, x)) = Len(a) + Len(x)
      /\ \A i \in 1..Len(a) + Len(x) :
           Concat(a, x)[i] = IF i <= Len(a) THEN a[i] ELSE x[i - Len(a)]
  BY ConcatProperties, Zenon DEF Concat
<1>2. /\ Len(Concat(b, y)) = Len(b) + Len(y)
      /\ \A i \in 1..Len(b) + Len(y) :
           Concat(b, y)[i] = IF i <= Len(b) THEN b[i] ELSE y[i - Len(b)]
  BY ConcatProperties, Zenon DEF Concat
<1>3. Len(a) \in Nat /\ Len(b) \in Nat /\ Len(x) \in Nat /\ Len(y) \in Nat
  BY LenProperties
<1>4. Len(x) = Len(y)
  BY <1>1, <1>2, <1>3
<1>5. ASSUME NEW i \in 1..Len(a) PROVE a[i] = b[i]
  BY <1>1, <1>2, <1>3
<1>6. ASSUME NEW i \in 1..Len(x) PROVE x[i] = y[i]
  <2> DEFINE j == Len(a) + i
  <2>1. /\ j \in 1..Len(a) + Len(x) /\ ~(j <= Len(a)) /\ j - Len(a) = i
        /\ j \in 1..Len(b) + Len(y) /\ ~(j <= Len(b)) /\ j - Len(b) = i
    BY <1>3, <1>4
  <2> HIDE DEF j
  <2>2. Concat(a, x)[j] = x[i]
    BY <1>1, <2>1
  <2>3. Concat(b, y)[j] = y[i]
    BY <1>2, <2>1
  <2> QED BY <2>2, <2>3
<1>7. a = b
  BY <1>5, SeqEqual
<1> QED BY <1>4, <1>6, <1>7, SeqEqual

(* A function on 1..n is a sequence of length n. *)
LEMMA FixedIsSeq ==
  ASSUME NEW S, NEW n \in Nat, NEW f \in [1..n -> S]
  PROVE  f \in Seq(S) /\ Len(f) = n
BY SeqDef

LEMMA BytesAreText ==
  ASSUME NEW n \in Nat, NEW f \in [1..n -> Byte]
  PROVE  f \in Text /\ Len(f) = n
BY FixedIsSeq DEF Text

LEMMA WidthsAreSeqs ==
  /\ \A n \in 0..UINT16_MAX : ToBytes(n, 2) \in Text /\ Len(ToBytes(n, 2)) = 2
  /\ \A n \in 0..UINT64_MAX : ToBytes(n, 8) \in Text /\ Len(ToBytes(n, 8)) = 8
  /\ \A n \in 0..U96_MAX : ToBytes(n, 12) \in Text /\ Len(ToBytes(n, 12)) = 12
<1>1. ASSUME NEW w \in Nat, NEW max, FixedWidth(w, max), NEW n \in 0..max
      PROVE  ToBytes(n, w) \in Text /\ Len(ToBytes(n, w)) = w
  <2>1. ToBytes(n, w) \in [1..w -> Byte]
    BY <1>1 DEF FixedWidth
  <2> QED BY <2>1, BytesAreText
<1> QED BY <1>1, WireAssumption

LEMMA WidthsTellApart ==
  /\ \A m, n \in 0..UINT16_MAX : ToBytes(m, 2) = ToBytes(n, 2) => m = n
  /\ \A m, n \in 0..UINT64_MAX : ToBytes(m, 8) = ToBytes(n, 8) => m = n
  /\ \A m, n \in 0..U96_MAX : ToBytes(m, 12) = ToBytes(n, 12) => m = n
BY WireAssumption DEF FixedWidth

LEMMA ConcatText == \A a, b \in Text : Concat(a, b) \in Text
BY ConcatProperties DEF Text, Concat

LEMMA VarIsText ==
  ASSUME NEW a \in Text, Fits(a)
  PROVE  EncodeVar(a) \in Text
<1>1. Len(a) \in 0..UINT16_MAX
  BY WireAssumption, LenProperties DEF Text, Fits, FixedWidth
<1> QED BY <1>1, WidthsAreSeqs, ConcatText DEF EncodeVar

LEMMA AssociativeText == \A a, b, c \in Text : Concat(Concat(a, b), c) = Concat(a, Concat(b, c))
BY ConcatAssociative DEF Text, Concat

LEMMA CutText ==
  \A a, b, x, y \in Text : Len(a) = Len(b) /\ Concat(a, x) = Concat(b, y) => a = b /\ x = y
BY Cut DEF Text

(* A text behind its length ends where the length says. *)
LEMMA VarCut ==
  ASSUME NEW a \in Text, NEW b \in Text, NEW x \in Text, NEW y \in Text,
         Fits(a), Fits(b), Concat(EncodeVar(a), x) = Concat(EncodeVar(b), y)
  PROVE  a = b /\ x = y
<1> DEFINE p == ToBytes(Len(a), 2)
           q == ToBytes(Len(b), 2)
<1>1. Len(a) \in 0..UINT16_MAX /\ Len(b) \in 0..UINT16_MAX
  BY WireAssumption, LenProperties DEF Text, Fits, FixedWidth
<1>2. p \in Text /\ q \in Text /\ Len(p) = Len(q)
  BY <1>1, WidthsAreSeqs
<1>3. EncodeVar(a) = Concat(p, a) /\ EncodeVar(b) = Concat(q, b)
  BY DEF EncodeVar
<1> HIDE DEF p, q
<1>4. Concat(p, Concat(a, x)) = Concat(q, Concat(b, y))
  BY <1>2, <1>3, AssociativeText
<1>5. p = q /\ Concat(a, x) = Concat(b, y)
  BY <1>2, <1>4, ConcatText, CutText
<1>6. Len(a) = Len(b)
  BY <1>1, <1>5, WidthsTellApart DEF p, q
<1> QED BY <1>5, <1>6, CutText

LEMMA DirectionsFit ==
  Fits(ClientToServer) /\ Fits(ServerToClient) /\ Direction \subseteq Text
<1>1. {Len(ClientToServer), Len(ServerToClient)} \subseteq 0..UINT16_MAX
  BY WireAssumption
<1>2. UINT16_MAX \in Nat
  BY WireAssumption DEF FixedWidth
<1> QED BY <1>1, <1>2, WireAssumption DEF Fits, Direction, Text

LEMMA VarsCut ==
  \A a, b, x, y \in Text :
    Fits(a) /\ Fits(b) /\ Concat(EncodeVar(a), x) = Concat(EncodeVar(b), y) => a = b /\ x = y
BY VarCut

-----------------------------------------------------------------------------
(* Two transcripts with the same bytes agree in every field: no boundary   *)
(* between fields can shift (crypto.py:76-95; SECURITY.md:41).             *)
THEOREM TranscriptUnambiguous ==
  ASSUME NEW s \in Encodable, NEW t \in Encodable, Encode(s) = Encode(t)
  PROVE  s = t
<1>1. /\ s \in Transcript /\ t \in Transcript
      /\ Fits(s.protocol_version) /\ Fits(s.role) /\ Fits(s.algorithm_suite)
      /\ Fits(s.session_id) /\ Fits(s.client_identity) /\ Fits(s.server_identity)
      /\ Fits(s.client_key_id) /\ Fits(s.server_key_id)
      /\ Fits(t.protocol_version) /\ Fits(t.role) /\ Fits(t.algorithm_suite)
      /\ Fits(t.session_id) /\ Fits(t.client_identity) /\ Fits(t.server_identity)
      /\ Fits(t.client_key_id) /\ Fits(t.server_key_id)
      /\ s.timestamp_ms \in 0..UINT64_MAX /\ t.timestamp_ms \in 0..UINT64_MAX
  BY DEF Encodable, Transcript
<1> DEFINE s10 == ToBytes(s.timestamp_ms, 8)
           s9 == Concat(s.client_ephemeral_pubkey, s10)
           s8 == Concat(s.server_ephemeral_pubkey, s9)
           s7 == Concat(EncodeVar(s.server_key_id), s8)
           s6 == Concat(EncodeVar(s.client_key_id), s7)
           s5 == Concat(EncodeVar(s.server_identity), s6)
           s4 == Concat(EncodeVar(s.client_identity), s5)
           s3 == Concat(EncodeVar(s.session_id), s4)
           s2 == Concat(EncodeVar(s.algorithm_suite), s3)
           s1 == Concat(EncodeVar(s.role), s2)
           s0 == Concat(EncodeVar(s.protocol_version), s1)
           t10 == ToBytes(t.timestamp_ms, 8)
           t9 == Concat(t.client_ephemeral_pubkey, t10)
           t8 == Concat(t.server_ephemeral_pubkey, t9)
           t7 == Concat(EncodeVar(t.server_key_id), t8)
           t6 == Concat(EncodeVar(t.client_key_id), t7)
           t5 == Concat(EncodeVar(t.server_identity), t6)
           t4 == Concat(EncodeVar(t.client_identity), t5)
           t3 == Concat(EncodeVar(t.session_id), t4)
           t2 == Concat(EncodeVar(t.algorithm_suite), t3)
           t1 == Concat(EncodeVar(t.role), t2)
           t0 == Concat(EncodeVar(t.protocol_version), t1)
<1>2. s0 = t0
  BY DEF Encode
<1> HIDE DEF s0, t0
<1>3. /\ s.server_ephemeral_pubkey \in Text /\ s.client_ephemeral_pubkey \in Text
      /\ t.server_ephemeral_pubkey \in Text /\ t.client_ephemeral_pubkey \in Text
      /\ Len(s.server_ephemeral_pubkey) = 32 /\ Len(s.client_ephemeral_pubkey) = 32
      /\ Len(t.server_ephemeral_pubkey) = 32 /\ Len(t.client_ephemeral_pubkey) = 32
  BY <1>1, FixedIsSeq DEF Transcript, PublicKey, Text
<1>4. /\ s.protocol_version \in Text /\ s.role \in Text /\ s.algorithm_suite \in Text
      /\ s.session_id \in Text /\ s.client_identity \in Text /\ s.server_identity \in Text
      /\ s.client_key_id \in Text /\ s.server_key_id \in Text
      /\ t.protocol_version \in Text /\ t.role \in Text /\ t.algorithm_suite \in Text
      /\ t.session_id \in Text /\ t.client_identity \in Text /\ t.server_identity \in Text
      /\ t.client_key_id \in Text /\ t.server_key_id \in Text
  BY <1>1 DEF Transcript
<1>5. s10 \in Text /\ t10 \in Text
  BY <1>1, WidthsAreSeqs
<1>6. s9 \in Text /\ s8 \in Text /\ t9 \in Text /\ t8 \in Text
  BY <1>3, <1>5, ConcatText
<1> HIDE DEF s10, s9, s8, t10, t9, t8
<1>7. s7 \in Text /\ t7 \in Text
  <2>1. EncodeVar(s.server_key_id) \in Text /\ EncodeVar(t.server_key_id) \in Text
    BY <1>1, <1>4, VarIsText
  <2> QED BY <2>1, <1>6, ConcatText
<1> HIDE DEF s7, t7
<1>8. s6 \in Text /\ t6 \in Text
  <2>1. EncodeVar(s.client_key_id) \in Text /\ EncodeVar(t.client_key_id) \in Text
    BY <1>1, <1>4, VarIsText
  <2> QED BY <2>1, <1>7, ConcatText
<1> HIDE DEF s6, t6
<1>9. s5 \in Text /\ t5 \in Text
  <2>1. EncodeVar(s.server_identity) \in Text /\ EncodeVar(t.server_identity) \in Text
    BY <1>1, <1>4, VarIsText
  <2> QED BY <2>1, <1>8, ConcatText
<1> HIDE DEF s5, t5
<1>10. s4 \in Text /\ t4 \in Text
  <2>1. EncodeVar(s.client_identity) \in Text /\ EncodeVar(t.client_identity) \in Text
    BY <1>1, <1>4, VarIsText
  <2> QED BY <2>1, <1>9, ConcatText
<1> HIDE DEF s4, t4
<1>11. s3 \in Text /\ t3 \in Text
  <2>1. EncodeVar(s.session_id) \in Text /\ EncodeVar(t.session_id) \in Text
    BY <1>1, <1>4, VarIsText
  <2> QED BY <2>1, <1>10, ConcatText
<1> HIDE DEF s3, t3
<1>12. s2 \in Text /\ t2 \in Text
  <2>1. EncodeVar(s.algorithm_suite) \in Text /\ EncodeVar(t.algorithm_suite) \in Text
    BY <1>1, <1>4, VarIsText
  <2> QED BY <2>1, <1>11, ConcatText
<1> HIDE DEF s2, t2
<1>13. s1 \in Text /\ t1 \in Text
  <2>1. EncodeVar(s.role) \in Text /\ EncodeVar(t.role) \in Text
    BY <1>1, <1>4, VarIsText
  <2> QED BY <2>1, <1>12, ConcatText
<1> HIDE DEF s1, t1
<1>14. s.protocol_version = t.protocol_version /\ s1 = t1
  <2>1. Concat(EncodeVar(s.protocol_version), s1) = Concat(EncodeVar(t.protocol_version), t1)
    BY <1>2 DEF s0, t0
  <2>2. s1 \in Text /\ t1 \in Text
    BY <1>13
  <2>3. s.protocol_version \in Text /\ t.protocol_version \in Text
    BY <1>4
  <2>4. Fits(s.protocol_version) /\ Fits(t.protocol_version)
    BY <1>1
  <2> QED BY <2>1, <2>2, <2>3, <2>4, VarsCut
<1>15. s.role = t.role /\ s2 = t2
  <2>1. Concat(EncodeVar(s.role), s2) = Concat(EncodeVar(t.role), t2)
    BY <1>14 DEF s1, t1
  <2>2. s2 \in Text /\ t2 \in Text
    BY <1>12
  <2>3. s.role \in Text /\ t.role \in Text /\ Fits(s.role) /\ Fits(t.role)
    BY <1>1, <1>4
  <2> QED BY <2>1, <2>2, <2>3, VarsCut
<1>16. s.algorithm_suite = t.algorithm_suite /\ s3 = t3
  <2>1. Concat(EncodeVar(s.algorithm_suite), s3) = Concat(EncodeVar(t.algorithm_suite), t3)
    BY <1>15 DEF s2, t2
  <2>2. s3 \in Text /\ t3 \in Text
    BY <1>11
  <2>3. s.algorithm_suite \in Text /\ t.algorithm_suite \in Text /\ Fits(s.algorithm_suite) /\ Fits(t.algorithm_suite)
    BY <1>1, <1>4
  <2> QED BY <2>1, <2>2, <2>3, VarsCut
<1>17. s.session_id = t.session_id /\ s4 = t4
  <2>1. Concat(EncodeVar(s.session_id), s4) = Concat(EncodeVar(t.session_id), t4)
    BY <1>16 DEF s3, t3
  <2>2. s4 \in Text /\ t4 \in Text
    BY <1>10
  <2>3. s.session_id \in Text /\ t.session_id \in Text /\ Fits(s.session_id) /\ Fits(t.session_id)
    BY <1>1, <1>4
  <2> QED BY <2>1, <2>2, <2>3, VarsCut
<1>18. s.client_identity = t.client_identity /\ s5 = t5
  <2>1. Concat(EncodeVar(s.client_identity), s5) = Concat(EncodeVar(t.client_identity), t5)
    BY <1>17 DEF s4, t4
  <2>2. s5 \in Text /\ t5 \in Text
    BY <1>9
  <2>3. s.client_identity \in Text /\ t.client_identity \in Text /\ Fits(s.client_identity) /\ Fits(t.client_identity)
    BY <1>1, <1>4
  <2> QED BY <2>1, <2>2, <2>3, VarsCut
<1>19. s.server_identity = t.server_identity /\ s6 = t6
  <2>1. Concat(EncodeVar(s.server_identity), s6) = Concat(EncodeVar(t.server_identity), t6)
    BY <1>18 DEF s5, t5
  <2>2. s6 \in Text /\ t6 \in Text
    BY <1>8
  <2>3. s.server_identity \in Text /\ t.server_identity \in Text /\ Fits(s.server_identity) /\ Fits(t.server_identity)
    BY <1>1, <1>4
  <2> QED BY <2>1, <2>2, <2>3, VarsCut
<1>20. s.client_key_id = t.client_key_id /\ s7 = t7
  <2>1. Concat(EncodeVar(s.client_key_id), s7) = Concat(EncodeVar(t.client_key_id), t7)
    BY <1>19 DEF s6, t6
  <2>2. s7 \in Text /\ t7 \in Text
    BY <1>7
  <2>3. s.client_key_id \in Text /\ t.client_key_id \in Text /\ Fits(s.client_key_id) /\ Fits(t.client_key_id)
    BY <1>1, <1>4
  <2> QED BY <2>1, <2>2, <2>3, VarsCut
<1>21. s.server_key_id = t.server_key_id /\ s8 = t8
  <2>1. Concat(EncodeVar(s.server_key_id), s8) = Concat(EncodeVar(t.server_key_id), t8)
    BY <1>20 DEF s7, t7
  <2>2. s8 \in Text /\ t8 \in Text
    BY <1>6
  <2>3. s.server_key_id \in Text /\ t.server_key_id \in Text /\ Fits(s.server_key_id) /\ Fits(t.server_key_id)
    BY <1>1, <1>4
  <2> QED BY <2>1, <2>2, <2>3, VarsCut
<1>22. s.server_ephemeral_pubkey = t.server_ephemeral_pubkey /\ s9 = t9
  BY <1>3, <1>6, <1>21, CutText DEF s8, t8
<1>23. s.client_ephemeral_pubkey = t.client_ephemeral_pubkey /\ s10 = t10
  BY <1>3, <1>5, <1>22, CutText DEF s9, t9
<1>24. s.timestamp_ms = t.timestamp_ms
  BY <1>1, <1>23, WidthsTellApart DEF s10, t10
<1> QED
  BY <1>1, <1>14, <1>15, <1>16, <1>17, <1>18, <1>19, <1>20, <1>21, <1>22, <1>23, <1>24
  DEF Transcript

(* Two messages with the same associated data have the same version,       *)
(* session, direction and number (crypto.py:268-283).                      *)
THEOREM AadUnambiguous ==
  ASSUME NEW v \in Text, NEW w \in Text, NEW p \in Text, NEW q \in Text,
         NEW d \in Direction, NEW e \in Direction,
         NEW m \in 0..U96_MAX, NEW n \in 0..U96_MAX,
         Fits(v), Fits(w), Fits(p), Fits(q), EncodeAad(v, p, d, m) = EncodeAad(w, q, e, n)
  PROVE  v = w /\ p = q /\ d = e /\ m = n
<1> DEFINE m3 == ToBytes(m, 12)
           m2 == Concat(EncodeVar(d), m3)
           m1 == Concat(EncodeVar(p), m2)
           m0 == Concat(EncodeVar(v), m1)
           n3 == ToBytes(n, 12)
           n2 == Concat(EncodeVar(e), n3)
           n1 == Concat(EncodeVar(q), n2)
           n0 == Concat(EncodeVar(w), n1)
<1>1. d \in Text /\ e \in Text /\ Fits(d) /\ Fits(e)
  BY WireAssumption, DirectionsFit DEF Direction
<1>2. m0 = n0
  BY DEF EncodeAad
<1> HIDE DEF m0, n0
<1>3. m3 \in Text /\ n3 \in Text
  BY WidthsAreSeqs
<1> HIDE DEF m3, n3
<1>4. m2 \in Text /\ n2 \in Text
  BY <1>1, <1>3, VarIsText, ConcatText
<1> HIDE DEF m2, n2
<1>5. m1 \in Text /\ n1 \in Text
  BY <1>4, VarIsText, ConcatText
<1> HIDE DEF m1, n1
<1>6. Concat(EncodeVar(v), m1) = Concat(EncodeVar(w), n1)
  BY <1>2 DEF m0, n0
<1>7. v = w /\ m1 = n1
  BY <1>5, <1>6, VarsCut
<1>8. p = q /\ m2 = n2
  BY <1>4, <1>7, VarsCut DEF m1, n1
<1>9. d = e /\ m3 = n3
  BY <1>1, <1>3, <1>8, VarsCut DEF m2, n2
<1>10. m = n
  BY <1>9, WidthsTellApart DEF m3, n3
<1> QED BY <1>7, <1>8, <1>9, <1>10

(* Under one nonce base, different numbers make different nonces: a        *)
(* direction repeats a nonce only if it repeats a number (crypto.py:       *)
(* 286-291; that numbers are not repeated is NoSeqReuse of SecureSession   *)
(* and SecureFetch).                                                       *)
THEOREM NonceFollowsNumber ==
  ASSUME NEW base \in [1..12 -> Byte], NEW m \in 0..U96_MAX, NEW n \in 0..U96_MAX,
         NonceFor(base, m) = NonceFor(base, n)
  PROVE  m = n
<1>1. ToBytes(m, 12) \in [1..12 -> Byte] /\ ToBytes(n, 12) \in [1..12 -> Byte]
  BY WireAssumption DEF FixedWidth
<1>2. ASSUME NEW i \in 1..12 PROVE ToBytes(m, 12)[i] = ToBytes(n, 12)[i]
  <2>1. NonceFor(base, m)[i] = Xor(base[i], ToBytes(m, 12)[i])
    BY DEF NonceFor
  <2>2. NonceFor(base, n)[i] = Xor(base[i], ToBytes(n, 12)[i])
    BY DEF NonceFor
  <2>3. base[i] \in Byte /\ ToBytes(m, 12)[i] \in Byte /\ ToBytes(n, 12)[i] \in Byte
    BY <1>1
  <2>4. \A a, b \in Byte : Xor(a, Xor(a, b)) = b
    BY WireAssumption
  <2> QED BY <2>1, <2>2, <2>3, <2>4
<1>3. ToBytes(m, 12) = ToBytes(n, 12)
  BY <1>1, <1>2
<1> QED BY <1>3, WidthsTellApart

-----------------------------------------------------------------------------
(* A client that completes with the signature a server made over what the  *)
(* server received and answered has the server's transcript: both saw the  *)
(* same start, speak the same version and suite, the signature is of the   *)
(* key the client trusts for the server, and the keys are the same         *)
(* (service_handshake.py:98-253).                                         *)
THEOREM ClientAgrees ==
  ASSUME NEW cs, NEW ss, NEW sent, NEW received, NEW answered, NEW ephemeral, NEW now,
         TranscriptOf(ss, received, ephemeral) \in Encodable,
         MayComplete(cs, sent, answered,
                     ServerHandshake(ss, received, ephemeral).signature, now)
  PROVE  LET client == ClientHandshake(cs, sent, answered)
             server == ServerHandshake(ss, received, ephemeral)
         IN  /\ client.transcript = server.transcript
             /\ client.keys = server.keys
             /\ cs.trusted_public_keys[sent.server_key_id] = ss.private_key
<1> DEFINE s == TranscriptOf(ss, received, ephemeral)
           c == TranscriptOf(cs, sent, answered)
<1>1. /\ s \in Encodable /\ c \in Encodable
      /\ Verifies(cs.trusted_public_keys[sent.server_key_id], c, Sign(ss.private_key, s))
  BY DEF MayComplete, ServerHandshake
<1>2. Encode(s) = Encode(c) /\ cs.trusted_public_keys[sent.server_key_id] = ss.private_key
  BY <1>1 DEF Verifies, Sign
<1>3. s = c
  BY <1>1, <1>2, TranscriptUnambiguous
<1>4. s.server_ephemeral_pubkey = ephemeral /\ c.server_ephemeral_pubkey = answered
      /\ s.client_ephemeral_pubkey = received.client_ephemeral_pubkey
      /\ c.client_ephemeral_pubkey = sent.client_ephemeral_pubkey
  BY DEF TranscriptOf
<1>5. {ephemeral, received.client_ephemeral_pubkey} = {sent.client_ephemeral_pubkey, answered}
  BY <1>3, <1>4
<1> QED
  BY <1>2, <1>3, <1>5 DEF ClientHandshake, ServerHandshake, DeriveSessionKeys

(* A server that accepts the final signature, which some client made over  *)
(* the answer it got, has that client's transcript and keys, and the       *)
(* signature is of the key the server trusts for it                        *)
(* (service_handshake.py:256-266).                                         *)
THEOREM ServerAgrees ==
  ASSUME NEW cs, NEW ss, NEW sent, NEW received, NEW answered, NEW ephemeral, NEW now,
         NEW signature,
         TranscriptOf(ss, received, ephemeral) \in Encodable,
         MayComplete(cs, sent, answered, signature, now),
         VerifiesClient(ss, TranscriptOf(ss, received, ephemeral),
                        ClientHandshake(cs, sent, answered).signature)
  PROVE  LET client == ClientHandshake(cs, sent, answered)
             server == ServerHandshake(ss, received, ephemeral)
         IN  /\ client.transcript = server.transcript
             /\ client.keys = server.keys
             /\ ss.trusted_public_keys[received.client_key_id] = cs.private_key
<1> DEFINE s == TranscriptOf(ss, received, ephemeral)
           c == TranscriptOf(cs, sent, answered)
<1>1. /\ s \in Encodable /\ c \in Encodable
      /\ Verifies(ss.trusted_public_keys[s.client_key_id], s, Sign(cs.private_key, c))
  BY DEF MayComplete, ClientHandshake, VerifiesClient
<1>2. Encode(s) = Encode(c) /\ ss.trusted_public_keys[s.client_key_id] = cs.private_key
  BY <1>1 DEF Verifies, Sign
<1>3. s = c
  BY <1>1, <1>2, TranscriptUnambiguous
<1>4. s.server_ephemeral_pubkey = ephemeral /\ c.server_ephemeral_pubkey = answered
      /\ s.client_ephemeral_pubkey = received.client_ephemeral_pubkey
      /\ c.client_ephemeral_pubkey = sent.client_ephemeral_pubkey
      /\ s.client_key_id = received.client_key_id
  BY DEF TranscriptOf
<1>5. {ephemeral, received.client_ephemeral_pubkey} = {sent.client_ephemeral_pubkey, answered}
  BY <1>3, <1>4
<1> QED
  BY <1>2, <1>3, <1>4, <1>5 DEF ClientHandshake, ServerHandshake, DeriveSessionKeys

(* An envelope that is accepted carries the session, direction and number  *)
(* its ciphertext was made for: one that was relabelled on the way, or     *)
(* comes back in the other direction, is not (crypto.py:294-356).          *)
THEOREM EnvelopeKeepsItsPlace ==
  ASSUME NEW made, NEW envelope, NEW body, NEW keys, NEW other, NEW skew, NEW now,
         NEW v \in Text, NEW w \in Text, NEW p \in Text,
         NEW d \in Direction, NEW e \in Direction, NEW n \in 0..U96_MAX,
         Fits(v), Fits(w), Fits(p), envelope.session_id \in Text,
         made = EncryptEnvelope(body, keys, v, p, d, n),
         envelope.sealed = made.sealed,
         Decrypts(envelope, other, w, e, skew, now)
  PROVE  /\ envelope.session_id = p /\ envelope.seq = n /\ d = e /\ v = w
         /\ envelope.sealed.body = body
<1>1. made.sealed.aad = EncodeAad(v, p, d, n) /\ made.sealed.body = body
  BY DEF EncryptEnvelope
<1>2. /\ Fits(envelope.session_id) /\ envelope.seq \in 0..U96_MAX
      /\ envelope.sealed.aad = EncodeAad(w, envelope.session_id, e, envelope.seq)
  BY DEF Decrypts, EncryptEnvelope
<1> QED BY <1>1, <1>2, AadUnambiguous

(* A server that accepts the final signature of a registered device, by    *)
(* the key in its row, is in a session with the holder of that key, and    *)
(* under the name in that row, whatever other key its own settings hold    *)
(* under the same id (secure.py:604-633).                                  *)
THEOREM DeviceAgrees ==
  ASSUME NEW cs, NEW settings, NEW sent, NEW received, NEW answered, NEW ephemeral, NEW now,
         NEW signature, NEW device, NEW agentRole, NEW F,
         settings = [f \in F |-> settings[f]], "trusted_public_keys" \in F,
         Provisioned(received, agentRole, device),
         TranscriptOf(TrustingRegisteredDevice(settings, received, device), received,
                      ephemeral) \in Encodable,
         MayComplete(cs, sent, answered, signature, now),
         VerifiesClient(TrustingRegisteredDevice(settings, received, device),
           TranscriptOf(TrustingRegisteredDevice(settings, received, device), received,
                        ephemeral),
           ClientHandshake(cs, sent, answered).signature)
  PROVE  device.public_key = cs.private_key /\ device.name = cs.identity
<1> DEFINE ss == TrustingRegisteredDevice(settings, received, device)
<1>1. ss.trusted_public_keys[received.client_key_id] = device.public_key
  BY DEF TrustingRegisteredDevice
<1> HIDE DEF ss
<1>2. /\ ss.trusted_public_keys[received.client_key_id] = cs.private_key
      /\ TranscriptOf(cs, sent, answered) = TranscriptOf(ss, received, ephemeral)
  BY ServerAgrees DEF ss, ClientHandshake, ServerHandshake
<1>3. sent.client_identity = received.client_identity
  <2>1. TranscriptOf(cs, sent, answered).client_identity = sent.client_identity
    BY DEF TranscriptOf
  <2>2. TranscriptOf(ss, received, ephemeral).client_identity = received.client_identity
    BY DEF TranscriptOf
  <2> QED BY <1>2, <2>1, <2>2
<1>4. sent.client_identity = cs.identity
  BY DEF MayComplete
<1> QED BY <1>1, <1>2, <1>3, <1>4 DEF Provisioned
=============================================================================
