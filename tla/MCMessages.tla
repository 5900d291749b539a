----------------------------- MODULE MCMessages -----------------------------
(* Messages with bytes of eight values and one sample or two of each format. *)
EXTENDS Messages, TLC

\* A bundle with and without a one-time prekey, whose id is one below the
\* absent one; the offerer's key is <<5>>.
MCBundle(id, key) ==
  [address_name |-> <<4>>, registration_id |-> 6, device_id |-> 1, identity_key |-> <<5>>,
   signed_prekey_id |-> 2, signed_prekey_pub |-> <<3>>, signed_prekey_sig |-> <<0>>,
   kyber_prekey_id |-> 1, kyber_prekey_pub |-> <<2>>, kyber_prekey_sig |-> << >>,
   onetime_id |-> id, onetime_pub |-> key]
MCBundles == {MCBundle(7, << >>), MCBundle(6, <<1>>)}

MCOffer(at, ttl) ==
  [bundle |-> Encode(BundleData, MCBundle(0, <<1>>)), relay_url |-> <<3>>,
   pairing_inbox_id |-> <<5>>, pairing_secret |-> <<6>>, issued_at |-> at, ttl_s |-> ttl]

\* On a clock of 2 or 3, with a skew of 1: early and then valid, valid and then
\* expired, valid, expired, and lives no build of this version writes.
MCOffers == {MCOffer(4, 2), MCOffer(1, 2), MCOffer(3, 1), MCOffer(1, 1), MCOffer(2, 4), MCOffer(2, 0)}

MCUpdate(relay, inbox) == [relay_url |-> relay, inbox_id |-> inbox]
MCFrame(t, v, p) == [payload_type |-> t, type_version |-> v, payload |-> p]

\* The last inner frame but one, its length cut to 1, fits the smaller bucket.
MCSamples ==
  [envelope |-> {[kind |-> 1, ciphertext |-> <<7>>], [kind |-> 2, ciphertext |-> <<0, 3>>]},
   inner    |-> {MCFrame(1, 1, << >>), MCFrame(6, 3, <<4, 0, 0, 0, 0>>), MCFrame(2, 7, <<1, 2, 3, 4, 5>>)},
   bundle   |-> MCBundles,
   update1  |-> {MCUpdate(<<3>>, <<4>>)},
   update2  |-> {MCUpdate(<<3>>, <<4>>) @@ [contribution |-> <<7>>]},
   update3  |-> {MCUpdate(<< >>, <<4>>)},
   ack      |-> {[responder_bundle |-> <<1, 7>>, relay_url |-> <<3>>, inbox_id |-> <<4>>,
                  root_contribution |-> <<7>>, proof |-> <<0>>]},
   hello    |-> {[generation |-> 6, nonce |-> <<7>>]},
   delivery |-> {[message_id |-> <<2>>, envelope |-> <<3, 1>>]},
   acked    |-> {[message_id |-> <<2>>]}]

\* Blank, one to trim, the longest that fits and one longer, and a control.
MCTyped == {<<2>>, <<2, 4, 2>>, <<3, 3, 3, 3, 3>>, <<3, 3, 3, 3, 3, 3>>}

MCRelays == {<<1>>}
MCHandoffs == {<<6>>}

\* Chat of a later version that is not UTF-8; a new inbox in an update of
\* version 1 and in one of a version nobody here knows; a pair-ack.
MCPeerFrames ==
  {MCFrame(1, 2, <<7>>), MCFrame(5, 2, <<4>>),
   MCFrame(6, 1, encode("update1", MCUpdate(<<3>>, <<6>>))),
   MCFrame(6, 4, encode("update1", MCUpdate(<<3>>, <<0>>)))}
=============================================================================
