--------------------------- MODULE NoiseHandshake ---------------------------
(***************************************************************************)
(* The NNpsk0 handshake (src/crypto/) over ideal primitives: a hash is the  *)
(* sequence of what was hashed, a derived key the sequence of what was      *)
(* mixed in with the number of the output, a shared secret the pair of key  *)
(* owners, and a ciphertext opens under the key, nonce and associated data  *)
(* it was made with.                                                        *)
(***************************************************************************)
EXTENDS Naturals, Sequences

(* What can be mixed in. *)
Item(what, of) == [what |-> what, of |-> of]

NoKey == [chain |-> <<>>, output |-> 0]

-----------------------------------------------------------------------------
(* CipherState; key NoKey stands for has_key_ = false. *)

CipherState(key) == [key |-> key, nonce |-> 0]

(* The ciphertext and the cipher afterwards; without a key the text itself. *)
encrypt_with_ad(cipher, ad, plaintext) ==
    IF cipher.key = NoKey
    THEN [out |-> [key |-> NoKey, nonce |-> 0, ad |-> <<>>, text |-> plaintext],
          cipher |-> cipher]
    ELSE [out |-> [key |-> cipher.key, nonce |-> cipher.nonce, ad |-> ad,
                   text |-> plaintext],
          cipher |-> [cipher EXCEPT !.nonce = @ + 1]]

aead_decrypt(cipher, ad, ct) ==
    ct.key = cipher.key /\ ct.nonce = cipher.nonce /\ ct.ad = ad

(* Bug variant of decrypt_with_ad: the counter stays. *)
decrypt_with_ad_same_nonce(cipher, ad, ct) ==
    [ok |-> cipher.key = NoKey \/ aead_decrypt(cipher, ad, ct), cipher |-> cipher]

decrypt_with_ad(cipher, ad, ct) ==
    IF cipher.key = NoKey THEN [ok |-> TRUE, cipher |-> cipher]
    ELSE [ok |-> aead_decrypt(cipher, ad, ct),
          cipher |-> IF aead_decrypt(cipher, ad, ct)
                     THEN [cipher EXCEPT !.nonce = @ + 1] ELSE cipher]

-----------------------------------------------------------------------------
(* SymmetricState: h_, ck_, and cipher_, whose key is an output of the hkdf    *)
(* that gave ck_; output 0 is no key.                                          *)

SymmetricState == [h |-> <<Item("protocol_name", {})>>,
                   ck |-> <<Item("protocol_name", {})>>, output |-> 0, nonce |-> 0]

cipher_(s) == [key |-> [chain |-> s.ck, output |-> s.output], nonce |-> s.nonce]

mix_hash(s, data) == [s EXCEPT !.h = Append(@, data)]

mix_key(s, input) == [s EXCEPT !.ck = Append(@, input), !.output = 2, !.nonce = 0]

mix_key_and_hash(s, input) ==
    [s EXCEPT !.h = Append(@, Item("output 2 of", input.of)), !.ck = Append(@, input),
              !.output = 3, !.nonce = 0]

encrypt_and_hash(s, plaintext) ==
    LET ct == encrypt_with_ad(cipher_(s), s.h, plaintext).out
    IN  [out |-> ct,
         symmetric |-> [mix_hash(s, Item("ciphertext", {ct})) EXCEPT !.nonce = @ + 1]]

(* When decryption throws, the handshake is over. *)
decrypt_and_hash(s, ct) ==
    [ok |-> decrypt_with_ad(cipher_(s), s.h, ct).ok,
     symmetric |-> [mix_hash(s, Item("ciphertext", {ct})) EXCEPT !.nonce = @ + 1]]

hkdf(ck, input, output) == [chain |-> Append(ck, input), output |-> output]

(* Both directions: split of the initiator. *)
split_keys(s) == <<hkdf(s.ck, Item("", {}), 1), hkdf(s.ck, Item("", {}), 2)>>

-----------------------------------------------------------------------------
(* NoiseHandshake: role is "Initiator" or "Responder", and names the owner of  *)
(* the ephemeral key too.                                                      *)

initialize(role, psk) ==
    [role |-> role, psk |-> Item("psk", {psk}), remote |-> role,
     symmetric |-> mix_hash(SymmetricState, Item("prologue", {}))]

(* The token e: into the hash and into the key. *)
mix_ephemeral(s, owner) == mix_key(mix_hash(s, Item("e", {owner})), Item("e", {owner}))

x25519(mine, theirs) == Item("dh", {mine, theirs})

(* The tokens before the payload of the first and of the second message. *)
psk_e(hs, owner) == mix_ephemeral(mix_key_and_hash(hs.symmetric, hs.psk), owner)
e_ee(hs, owner) ==
    mix_key(mix_ephemeral(hs.symmetric, owner), x25519(hs.role, hs.remote))

Empty == [type |-> 0, len |-> 0]

write_message(hs) ==
    LET s == IF hs.role = "Initiator" THEN psk_e(hs, hs.role) ELSE e_ee(hs, hs.role)
        ct == encrypt_and_hash(s, Empty)
    IN  [msg |-> [e |-> hs.role, ct |-> ct.out],
         hs |-> [hs EXCEPT !.symmetric = ct.symmetric]]

read_message(hs, msg) ==
    LET known == [hs EXCEPT !.remote = msg.e]
        s == IF hs.role = "Responder" THEN psk_e(known, msg.e) ELSE e_ee(known, msg.e)
        pt == decrypt_and_hash(s, msg.ct)
    IN  [ok |-> pt.ok, hs |-> [known EXCEPT !.symmetric = pt.symmetric]]

split(hs) ==
    LET keys == split_keys(hs.symmetric)
    IN  IF hs.role = "Initiator"
        THEN [send |-> CipherState(keys[1]), recv |-> CipherState(keys[2])]
        ELSE [send |-> CipherState(keys[2]), recv |-> CipherState(keys[1])]
=============================================================================
