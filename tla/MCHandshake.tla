----------------------------- MODULE MCHandshake ------------------------------
(***************************************************************************)
(* The theorems of Handshake_proofs on small inputs: bytes of one bit,     *)
(* texts of at most two of them, numbers up to 7.                          *)
(***************************************************************************)
EXTENDS Handshake, FiniteSets

Bits(n, w) == [i \in 1..w |-> IF w - i > 3 THEN 0 ELSE (n \div 2^(w - i)) % 2]
XorBits(a, b) == (a + b) % 2

(* Keys are told apart by what they are derived from; nonce bases are bits. *)
Material(secret, bytes) ==
  [i \in 1..88 |-> IF i <= 64 THEN <<secret, bytes, i>> ELSE i % 2]

ToServer == <<0>>
ToClient == <<1>>

Short == UNION {[1..n -> Byte] : n \in 0..2}
Pair(b) == [i \in 1..32 |-> b]

Plain == [protocol_version |-> <<>>, role |-> <<>>, algorithm_suite |-> <<>>,
          session_id |-> <<>>, client_identity |-> <<1>>, server_identity |-> <<>>,
          client_key_id |-> <<1>>, server_key_id |-> <<0>>,
          server_ephemeral_pubkey |-> Pair(0), client_ephemeral_pubkey |-> Pair(1),
          timestamp_ms |-> 0]

Transcripts ==
  {[Plain EXCEPT !.role = r, !.session_id = s, !.client_identity = c, !.timestamp_ms = n] :
     r \in Short, s \in Short, c \in Short, n \in 0..1}

ASSUME Transcripts \subseteq Encodable
ASSUME Cardinality({Encode(t) : t \in Transcripts}) = Cardinality(Transcripts)

Messages == Short \X Short \X Direction \X (0..7)
ASSUME Cardinality({EncodeAad(m[1], m[2], m[3], m[4]) : m \in Messages}) = Cardinality(Messages)

-----------------------------------------------------------------------------
(* An agent and the server; either may also run another version.           *)
Client(version) ==
  [enabled |-> TRUE, protocol_version |-> version, algorithm_suite |-> <<1>>,
   identity |-> <<1>>, key_id |-> <<1>>, private_key |-> Pair(1), max_skew_ms |-> 1,
   trusted_public_keys |-> [id \in {<<0>>} |-> Pair(0)]]
Server(version) ==
  [enabled |-> TRUE, protocol_version |-> version, algorithm_suite |-> <<1>>,
   identity |-> <<0>>, key_id |-> <<0>>, private_key |-> Pair(0), max_skew_ms |-> 1,
   trusted_public_keys |-> [id \in {<<1>>} |-> Pair(0)]]
Device == [name |-> <<1>>, public_key |-> Pair(1), public_key_id |-> <<1>>]
KeyIdOf(key) == <<key[1]>>

Starts == {CreateHandshakeStart(Client(<<>>), <<1, 1>>, s, <<0>>, <<0>>, Pair(p), now) :
             s \in {<<0>>, <<1>>}, p \in Byte, now \in 0..2}

(* The handshakes both ends of which are content: what the server received *)
(* and the client was answered need not be what was sent.                  *)
Completed ==
  {h \in [sent : Starts, received : Starts, answered : {Pair(0), Pair(1)},
          ephemeral : {Pair(0), Pair(1)}, version : {<<>>, <<0>>}] :
     LET ss == TrustingRegisteredDevice(Server(h.version), h.received, Device)
         cs == Client(<<>>)
         server == ServerHandshake(ss, h.received, h.ephemeral)
     IN  /\ MayStart(cs, <<0>>)
         /\ Provisioned(h.received, <<1, 1>>, Device)
         /\ MayServe(ss, h.received, <<1, 1>>, <<1>>, <<0>>, 1)
         /\ MatchesStart(cs, h.sent, server.transcript)
         /\ MayComplete(cs, h.sent, h.answered, server.signature, 2)
         /\ VerifiesClient(ss, server.transcript,
                           ClientHandshake(cs, h.sent, h.answered).signature)}

ASSUME Completed # {}
ASSUME \A h \in Completed :
  /\ h.sent = h.received /\ h.answered = h.ephemeral /\ h.version = <<>>
  /\ h.sent.timestamp_ms \in 1..2
  /\ ClientHandshake(Client(<<>>), h.sent, h.answered).keys
       = ServerHandshake(Server(<<>>), h.received, h.ephemeral).keys

(* What was sealed as number n toward the server is accepted under no      *)
(* other label, and not when it is too old.                                *)
ASSUME \A h \in Completed : \A n, m \in 0..2, d \in Direction, s \in Short, now \in 0..3 :
  LET keys == ServerHandshake(Server(<<>>), h.received, h.ephemeral).keys
      made == EncryptEnvelope([timestamp_ms |-> 1], keys, <<>>, <<1>>, ClientToServer, n)
  IN  Decrypts([made EXCEPT !.session_id = s, !.seq = m], keys, <<>>, d, 1, now)
        <=> m = n /\ d = ClientToServer /\ s = <<1>> /\ now <= 2
=============================================================================
