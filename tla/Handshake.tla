------------------------------ MODULE Handshake ------------------------------
(***************************************************************************)
(* What the two ends of a secure session compute: the bytes of security/   *)
(* encoding.py and crypto.py, the handshake of service_handshake.py and    *)
(* the keys that server-iot/app/routers/secure.py trusts.  It has no       *)
(* state: modules SecureSession, SecureFetch and Enrollment model when the *)
(* messages are sent, and say only whether an end accepts them.            *)
(*                                                                         *)
(* A text is the sequence of its UTF-8 bytes.  A key pair is named by its  *)
(* public key.  The primitives are ideal: a signature and a ciphertext are *)
(* records of what went into them, and X25519 depends on the two pairs     *)
(* only.  base64 and JSON around them lose nothing and are left out.       *)
(***************************************************************************)
EXTENDS Integers, Sequences

CONSTANTS
  Byte,
  ToBytes(_, _),  \* int.to_bytes(width, "big")
  Xor(_, _),      \* ^ of two bytes
  Hkdf(_, _),     \* the 88 bytes HKDF derives from a secret and a transcript
  KeyId(_),       \* public_key_id of a public key
  UINT16_MAX, UINT64_MAX, U96_MAX,
  ClientToServer, ServerToClient,  \* Direction
  Unset           \* None where a key is optional

(* Big-endian bytes of a fixed width tell the numbers below the width's    *)
(* limit apart.                                                            *)
FixedWidth(w, max) ==
  /\ max \in Nat
  /\ \A n \in 0..max : /\ ToBytes(n, w) \in [1..w -> Byte]
                       /\ \A m \in 0..max : ToBytes(m, w) = ToBytes(n, w) => m = n

ASSUME WireAssumption ==
  /\ FixedWidth(2, UINT16_MAX) /\ FixedWidth(8, UINT64_MAX) /\ FixedWidth(12, U96_MAX)
  /\ \A a, b \in Byte : Xor(a, b) \in Byte /\ Xor(a, Xor(a, b)) = b
  /\ ClientToServer \in Seq(Byte) /\ ServerToClient \in Seq(Byte)
  /\ {Len(ClientToServer), Len(ServerToClient)} \subseteq 0..UINT16_MAX
  /\ ClientToServer # ServerToClient

Text == Seq(Byte)
Direction == {ClientToServer, ServerToClient}
PublicKey == [1..32 -> Byte]

-----------------------------------------------------------------------------
(* security/encoding.py.  A text of more than 65535 bytes is an error.     *)
Fits(text) == Len(text) <= UINT16_MAX

Concat(a, b) == a \o b

EncodeVar(text) == Concat(ToBytes(Len(text), 2), text)

Transcript == [protocol_version : Text, role : Text, algorithm_suite : Text,
               session_id : Text, client_identity : Text, server_identity : Text,
               client_key_id : Text, server_key_id : Text,
               server_ephemeral_pubkey : PublicKey, client_ephemeral_pubkey : PublicKey,
               timestamp_ms : Int]

(* those on which encode raises no exception *)
Encodable == {t \in Transcript :
  /\ \A field \in DOMAIN t \ {"server_ephemeral_pubkey", "client_ephemeral_pubkey",
                              "timestamp_ms"} : Fits(t[field])
  /\ t.timestamp_ms \in 0..UINT64_MAX}

(* HandshakeTranscript.encode *)
Encode(t) ==
  Concat(EncodeVar(t.protocol_version), Concat(EncodeVar(t.role),
  Concat(EncodeVar(t.algorithm_suite), Concat(EncodeVar(t.session_id),
  Concat(EncodeVar(t.client_identity), Concat(EncodeVar(t.server_identity),
  Concat(EncodeVar(t.client_key_id), Concat(EncodeVar(t.server_key_id),
  Concat(t.server_ephemeral_pubkey, Concat(t.client_ephemeral_pubkey,
  ToBytes(t.timestamp_ms, 8)))))))))))

(* encode_aad and nonce_for *)
EncodeAad(version, session_id, direction, seq) ==
  Concat(EncodeVar(version), Concat(EncodeVar(session_id),
  Concat(EncodeVar(direction), ToBytes(seq, 12))))

NonceFor(base, seq) == [i \in 1..12 |-> Xor(base[i], ToBytes(seq, 12)[i])]

-----------------------------------------------------------------------------
(* security/crypto.py *)
Sign(private, t) == [by |-> private, over |-> Encode(t)]

Verifies(public, t, signature) == signature = [by |-> public, over |-> Encode(t)]

DeriveSessionKeys(own, peer, t) ==
  LET material == Hkdf({own, peer}, Encode(t)) IN
  [client_write_key  |-> SubSeq(material, 1, 32),
   server_write_key  |-> SubSeq(material, 33, 64),
   client_nonce_base |-> SubSeq(material, 65, 76),
   server_nonce_base |-> SubSeq(material, 77, 88)]

WriteKey(keys, direction) ==
  IF direction = ClientToServer THEN keys.client_write_key ELSE keys.server_write_key
NonceBase(keys, direction) ==
  IF direction = ClientToServer THEN keys.client_nonce_base ELSE keys.server_nonce_base

(* AES-GCM over a body of which only the time matters *)
EncryptEnvelope(body, keys, version, session_id, direction, seq) ==
  [session_id |-> session_id, seq |-> seq,
   sealed |-> [key |-> WriteKey(keys, direction),
               nonce |-> NonceFor(NonceBase(keys, direction), seq),
               aad |-> EncodeAad(version, session_id, direction, seq), body |-> body]]

(* decrypt_envelope returns the body: one from the future is accepted *)
Decrypts(envelope, keys, version, direction, max_skew_ms, now) ==
  /\ Fits(envelope.session_id)
  /\ envelope.seq \in 0..U96_MAX
  /\ envelope.sealed = EncryptEnvelope(envelope.sealed.body, keys, version,
         envelope.session_id, direction, envelope.seq).sealed
  /\ now - envelope.sealed.body.timestamp_ms <= max_skew_ms

-----------------------------------------------------------------------------
(* security/service_handshake.py *)
Fresh(timestamp, max_skew_ms, now) == now - timestamp \in -max_skew_ms..max_skew_ms

Trusts(settings, key_id) == key_id \in DOMAIN settings.trusted_public_keys

MayStart(settings, server_key_id) ==
  settings.enabled /\ settings.key_id # Unset /\ Trusts(settings, server_key_id)

CreateHandshakeStart(settings, role, session_id, server, server_key_id, ephemeral, now) ==
  [role |-> role, session_id |-> session_id,
   client_identity |-> settings.identity, server_identity |-> server,
   client_key_id |-> settings.key_id, server_key_id |-> server_key_id,
   client_ephemeral_pubkey |-> ephemeral, timestamp_ms |-> now]

(* create_server_authenticated_handshake: the browser has no key           *)
MayServeAnonymous(settings, start, role, server, now) ==
  /\ settings.enabled
  /\ start.role = role
  /\ start.server_identity = server
  /\ start.server_key_id = settings.key_id
  /\ Fresh(start.timestamp_ms, settings.max_skew_ms, now)

(* create_server_handshake and _validate_start *)
MayServe(settings, start, role, client, server, now) ==
  /\ MayServeAnonymous(settings, start, role, server, now)
  /\ start.client_identity = client
  /\ Trusts(settings, start.client_key_id)

TranscriptOf(settings, start, ephemeral) ==
  [protocol_version |-> settings.protocol_version, role |-> start.role,
   algorithm_suite |-> settings.algorithm_suite, session_id |-> start.session_id,
   client_identity |-> start.client_identity, server_identity |-> start.server_identity,
   client_key_id |-> start.client_key_id, server_key_id |-> start.server_key_id,
   server_ephemeral_pubkey |-> ephemeral,
   client_ephemeral_pubkey |-> start.client_ephemeral_pubkey,
   timestamp_ms |-> start.timestamp_ms]

ServerHandshake(settings, start, ephemeral) ==
  LET t == TranscriptOf(settings, start, ephemeral) IN
  [transcript |-> t, signature |-> Sign(settings.private_key, t),
   keys |-> DeriveSessionKeys(ephemeral, start.client_ephemeral_pubkey, t)]

(* complete_client_handshake *)
MayComplete(settings, start, server_ephemeral, signature, now) ==
  LET t == TranscriptOf(settings, start, server_ephemeral) IN
  /\ settings.enabled
  /\ start.client_identity = settings.identity
  /\ start.client_key_id = settings.key_id
  /\ Trusts(settings, start.server_key_id)
  /\ Fresh(start.timestamp_ms, settings.max_skew_ms, now)
  /\ t \in Encodable
  /\ Verifies(settings.trusted_public_keys[start.server_key_id], t, signature)

ClientHandshake(settings, start, server_ephemeral) ==
  LET t == TranscriptOf(settings, start, server_ephemeral) IN
  [transcript |-> t, signature |-> Sign(settings.private_key, t),
   keys |-> DeriveSessionKeys(start.client_ephemeral_pubkey, server_ephemeral, t)]

(* verify_client_handshake_signature *)
VerifiesClient(settings, t, signature) ==
  /\ settings.enabled /\ Trusts(settings, t.client_key_id)
  /\ Verifies(settings.trusted_public_keys[t.client_key_id], t, signature)

(* _validate_start_response: the fields of the answer to a start *)
MatchesStart(settings, start, answer) ==
  \A field \in DOMAIN answer \ {"server_ephemeral_pubkey"} :
    answer[field] = TranscriptOf(settings, start, answer.server_ephemeral_pubkey)[field]

-----------------------------------------------------------------------------
(* server-iot: _settings_trusting_registered_device, with the row of the   *)
(* device of that name that is not deleted.                                *)
Provisioned(start, agentRole, device) ==
  /\ start.role = agentRole
  /\ device.name = start.client_identity
  /\ device.public_key # Unset
  /\ device.public_key_id = start.client_key_id
  /\ device.public_key \in PublicKey
  /\ KeyId(device.public_key) = start.client_key_id

TrustingRegisteredDevice(settings, start, device) ==
  [settings EXCEPT !.trusted_public_keys =
     [id \in DOMAIN settings.trusted_public_keys \cup {start.client_key_id} |->
        IF id = start.client_key_id THEN device.public_key
        ELSE settings.trusted_public_keys[id]]]
=============================================================================
