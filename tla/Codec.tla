-------------------------------- MODULE Codec --------------------------------
(***************************************************************************)
(* The byte formats of the protocol as layouts, and one encoder and one    *)
(* strict parser for all of them: the outer envelope and the padded inner  *)
(* frame (envelope/), the pairing bundle, offer and control payloads       *)
(* (pairing.rs, recovery.rs) and the relay's two socket frames (wire.rs,   *)
(* ws.rs).  The widths are the code's names with smaller values.           *)
(***************************************************************************)
EXTENDS Integers, Sequences
LOCAL INSTANCE SequencesExt
LOCAL INSTANCE FiniteSetsExt
LOCAL INSTANCE TLC

CONSTANTS
  Base,               \* values of a byte, 256 in the code
  W16, W32, W64,      \* bytes of a u16, u32 and u64
  MAILBOX_ID_LEN,
  RECOVERY_CONTRIB_LEN, \* pairing secrets, contributions and proofs alike
  OFFER_SIG_LEN,
  ABSENT_ID, MAX_OFFER_TTL_S, FUTURE_SKEW_S,
  Buckets             \* the sizes of the padding profile

\* PaddingProfile::new and put_bytes: no bucket is smaller than the header,
\* and every length the parties write fits its field.
HeaderLen == 2 + W32
ASSUME CodecAssumption ==
  /\ Base \in Nat \ {0, 1} /\ {W16, W32, W64} \subseteq Nat \ {0}
  /\ MAILBOX_ID_LEN \in Nat /\ RECOVERY_CONTRIB_LEN \in Nat /\ OFFER_SIG_LEN \in Nat \ {0}
  /\ Buckets # {} /\ \A b \in Buckets : HeaderLen <= b /\ b - HeaderLen < Base ^ W32

\* A byte that no UTF-8 text contains.
NotText == Base - 1
IsText(bs) == \A i \in DOMAIN bs : bs[i] # NotText

Ok(v)     == [class |-> "ok", value |-> v]
Failed(c) == [class |-> c, value |-> << >>]

-----------------------------------------------------------------------------
(* Fields, the encoder and the cursor *)

Lit(v)         == [kind |-> "lit", name |-> "version", n |-> v]
Num(name, w)   == [kind |-> "num", name |-> name, n |-> w]
Var(name)      == [kind |-> "var", name |-> name, n |-> 0]
Text(name)     == [kind |-> "text", name |-> name, n |-> 0]
Fix(name)      == [kind |-> "fix", name |-> name, n |-> RECOVERY_CONTRIB_LEN]
Id(name)       == [kind |-> "id", name |-> name, n |-> MAILBOX_ID_LEN]
Rest(name)     == [kind |-> "rest", name |-> name, n |-> 0]

Digits(v, w) == [i \in 1 .. w |-> (v \div Base ^ (w - i)) % Base]
Number(bs)   == MapThenSumSet(LAMBDA i : bs[i] * Base ^ (Len(bs) - i), DOMAIN bs)

Prefixed(f)  == f.kind \in {"var", "text"}
put_bytes(bs) == Digits(Len(bs), W16) \o bs

Put(f, r) ==
  CASE f.kind = "lit" -> <<f.n>>
    [] f.kind = "num" -> Digits(r[f.name], f.n)
    [] Prefixed(f)    -> put_bytes(r[f.name])
    [] OTHER          -> r[f.name]
Encode(layout, r) == FlattenSeq([i \in DOMAIN layout |-> Put(layout[i], r)])

\* How many bytes of a field's length prefix, and of the field itself, come next.
Prefix(f) == IF Prefixed(f) THEN W16 ELSE 0
Extent(rest, f) ==
  CASE f.kind = "lit"  -> 1
    [] f.kind = "rest" -> Len(rest)
    [] Prefixed(f) /\ Len(rest) >= W16 -> Number(SubSeq(rest, 1, W16))
    [] OTHER           -> f.n

\* The typed reads on the bytes taken: a wrong literal and a text field that is
\* not UTF-8 fail the parse.
Read(c, f, raw, rest) ==
  [rest |-> rest,
   ok   |-> /\ f.kind = "lit" => raw = <<f.n>>
            /\ f.kind \in {"text", "id"} => IsText(raw),
   out  |-> IF f.kind = "lit" THEN c.out
            ELSE c.out @@ (f.name :> IF f.kind = "num" THEN Number(raw) ELSE raw)]

\* Cursor::take: so do too few bytes left.
TakeUpTo(c, f, from, to) ==
  IF ~c.ok \/ Len(c.rest) < to THEN [c EXCEPT !.ok = FALSE]
  ELSE Read(c, f, SubSeq(c.rest, from + 1, to), SubSeq(c.rest, to + 1, Len(c.rest)))
Take(c, f) == TakeUpTo(c, f, Prefix(f), Prefix(f) + Extent(c.rest, f))

\* Mutant: what follows the last field is ignored.
Complete_not(c) == c.ok

Complete(c) == c.ok /\ c.rest = << >>

Finish(c) == IF Complete(c) THEN Ok(c.out) ELSE Failed("malformed")
Parse(layout, bytes) ==
  LET at[i \in 0 .. Len(layout)] ==
        IF i = 0 THEN [rest |-> bytes, ok |-> TRUE, out |-> << >>] ELSE Take(at[i - 1], layout[i])
  IN  Finish(at[Len(layout)])

-----------------------------------------------------------------------------
(* The formats *)

Magic == 3  \* the four bytes of "TZCA"
Envelope == <<Lit(Magic), Lit(1), Num("kind", 1), Lit(0), Lit(0), Rest("ciphertext")>>
EnvelopeKind(k) == k \in {1, 2}

BundleData ==
  <<Lit(1), Text("address_name"), Num("registration_id", W32), Num("device_id", W32),
    Var("identity_key"), Num("signed_prekey_id", W32), Var("signed_prekey_pub"),
    Var("signed_prekey_sig"), Num("kyber_prekey_id", W32), Var("kyber_prekey_pub"),
    Var("kyber_prekey_sig"), Num("onetime_id", W32), Var("onetime_pub")>>

mailbox_update    == <<Lit(1), Text("relay_url"), Id("inbox_id")>>
mailbox_update_v2 == <<Lit(2), Text("relay_url"), Id("inbox_id"), Fix("contribution")>>
mailbox_update_v3 == <<Lit(3), Text("relay_url"), Id("inbox_id")>>
pair_ack_v2 ==
  <<Lit(2), Var("responder_bundle"), Text("relay_url"), Id("inbox_id"),
    Fix("root_contribution"), Fix("proof")>>
recovery_hello == <<Lit(1), Num("generation", W32), Fix("nonce")>>

\* An offer without its signature, which covers all of these bytes.
OfferV3 ==
  <<Lit(3), Var("bundle"), Text("relay_url"), Id("pairing_inbox_id"),
    Fix("pairing_secret"), Num("issued_at", W64), Num("ttl_s", W32)>>
OfferSig == [kind |-> "fix", name |-> "sig", n |-> OFFER_SIG_LEN]

delivery_frame == <<Lit(1), Fix("message_id"), Rest("envelope")>>
ack_frame      == <<Lit(2), Fix("message_id")>>

Layout == [envelope |-> Envelope, bundle |-> BundleData, update1 |-> mailbox_update,
           update2 |-> mailbox_update_v2, update3 |-> mailbox_update_v3,
           ack |-> pair_ack_v2, hello |-> recovery_hello,
           offer |-> Append(OfferV3, OfferSig),
           delivery |-> delivery_frame, acked |-> ack_frame]

\* What a parser asks of the fields beside their layout.
Admits(fmt, r) ==
  /\ fmt = "envelope" => EnvelopeKind(r.kind) /\ r.ciphertext # << >>
  /\ fmt = "bundle"   => r.device_id = 1 /\ r.kyber_prekey_pub # << >>

\* A bundle's prekey with the absent id is none, whatever its key field holds.
Normal(fmt, r) ==
  IF fmt = "bundle" /\ r.onetime_id = ABSENT_ID THEN [r EXCEPT !.onetime_pub = << >>] ELSE r

Checked(fmt, p) ==
  IF p.class = "ok" /\ Admits(fmt, p.value) THEN Ok(Normal(fmt, p.value)) ELSE Failed("malformed")
parse_layout(fmt, bytes) == Checked(fmt, Parse(Layout[fmt], bytes))

-----------------------------------------------------------------------------
(* The inner frame *)

Chat == 1
MailboxUpdate == 6
\* The registry: chat, posture, policy, alert, pair-ack, mailbox-update, hello.
PayloadType == 1 .. 7

max_payload        == Max(Buckets) - HeaderLen
bucket_for(len)    == Min({b \in Buckets : b >= len})
is_bucket(len)     == len \in Buckets

Padded(f, size) ==
  <<f.payload_type, f.type_version>> \o Digits(Len(f.payload), W32) \o f.payload
    \o [i \in 1 .. size - HeaderLen - Len(f.payload) |-> 0]

encode_inner(f) ==
  IF Len(f.payload) > max_payload THEN Failed("too_large")
  ELSE Ok(Padded(f, bucket_for(HeaderLen + Len(f.payload))))

Unpadded(bs, end) ==
  IF end > Len(bs) \/ \E k \in end + 1 .. Len(bs) : bs[k] # 0 THEN Failed("malformed")
  ELSE Ok([payload_type |-> bs[1], type_version |-> bs[2],
           payload |-> SubSeq(bs, HeaderLen + 1, end)])
parse_inner(bs) ==
  IF ~is_bucket(Len(bs)) \/ bs[1] \notin PayloadType THEN Failed("malformed")
  ELSE Unpadded(bs, HeaderLen + Number(SubSeq(bs, 3, HeaderLen)))

encode(fmt, r)    == IF fmt = "inner" THEN encode_inner(r).value ELSE Encode(Layout[fmt], r)
parse(fmt, bytes) == IF fmt = "inner" THEN parse_inner(bytes) ELSE parse_layout(fmt, bytes)

\* The relay's admission check: nothing past the version is read.
deposit_admissible(blob) == Len(blob) > 5 /\ blob[1] = Magic /\ blob[2] = 1

-----------------------------------------------------------------------------
(* The offer: signature, then window *)

\* libsignal: a key verifies what was signed with it and nothing else.
calculate_signature(prefix) ==
  [i \in 1 .. OFFER_SIG_LEN |-> MapThenSumSet(LAMBDA k : prefix[k], DOMAIN prefix) % Base]
IsKey(bs) == Len(bs) = 1

WithSignature(prefix) == prefix \o calculate_signature(prefix)
encode_pairing_offer_v3(o) == WithSignature(Encode(OfferV3, o))

\* `signed' is what the offer's identity key has signed so far.
SignatureValid(bytes, key, signed) ==
  LET n == Len(bytes) - OFFER_SIG_LEN
      prefix == SubSeq(bytes, 1, n)
  IN  /\ <<key, prefix>> \in signed
      /\ SubSeq(bytes, n + 1, Len(bytes)) = calculate_signature(prefix)

parse_offer_v3_structure(bytes) ==
  IF bytes # << >> /\ bytes[1] # 3 THEN Failed("version") ELSE parse("offer", bytes)

Window(o, now) ==
  CASE o.ttl_s = 0 \/ o.ttl_s > MAX_OFFER_TTL_S -> "malformed"
    [] o.issued_at > now + FUTURE_SKEW_S        -> "not_yet_valid"
    [] now >= o.issued_at + o.ttl_s             -> "expired"
    [] OTHER                                    -> "ok"

\* Mutant: the window is judged before the signature.
Verdict_window(bytes, o, b, now, signed) ==
  CASE b.class # "ok"                   -> "malformed"
    [] ~IsKey(b.value.identity_key)     -> "signal"
    [] Window(o, now) # "ok"            -> Window(o, now)
    [] ~SignatureValid(bytes, b.value.identity_key, signed) -> "signature"
    [] OTHER                            -> "ok"

\* On the offer o with the bundle b, parsed.
Verdict(bytes, o, b, now, signed) ==
  CASE b.class # "ok"                   -> "malformed"
    [] ~IsKey(b.value.identity_key)     -> "signal"
    [] ~SignatureValid(bytes, b.value.identity_key, signed) -> "signature"
    [] OTHER                            -> Window(o, now)

Unless(v, s) == IF v = "ok" THEN s ELSE Failed(v)
Judged(bytes, s, now, signed) ==
  IF s.class # "ok" THEN s
  ELSE Unless(Verdict(bytes, s.value, parse("bundle", s.value.bundle), now, signed), s)
parse_pairing_offer_v3(bytes, now, signed) ==
  Judged(bytes, parse_offer_v3_structure(bytes), now, signed)

Validity(s) == IF s.class # "ok" THEN << >> ELSE <<s.value.issued_at, s.value.ttl_s>>
peek_offer_validity(bytes) == Validity(parse_offer_v3_structure(bytes))

\* What reaches the user interface: an error's class across the FFI.
TitlanError ==
  [ok |-> "Ok", malformed |-> "Malformed", version |-> "Malformed", signal |-> "Protocol",
   signature |-> "OfferSignatureInvalid", not_yet_valid |-> "OfferExpired",
   expired |-> "OfferExpired"]
=============================================================================
