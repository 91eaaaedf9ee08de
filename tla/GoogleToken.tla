----------------------------- MODULE GoogleToken -----------------------------
(***************************************************************************)
(* From an authorization code to a verified Google identity, as a function *)
(* of what Google answers: the token exchange (lib/auth-google/exchange.   *)
(* ts), the cached key set with its refresh on an unknown key              *)
(* (discovery.ts, service.ts verifyIdTokenWithRetry) and the checks of the *)
(* ID token (id-token.ts).  A claim is only right or wrong here.           *)
(***************************************************************************)
EXTENDS Naturals, Sequences, FiniteSetsExt

CONSTANTS
  Kids,    \* ids of Google's signing keys
  NoKeys   \* no key set is cached

\* So that having no key set is not having an empty one.
ASSUME NoKeysAssumption == \A set \in [keys : SUBSET Kids, fresh : BOOLEAN] : NoKeys # set

\* kid {} is a header without one; signed: signature and expiry hold; issued:
\* iat is not in the future, which neither the code nor fast-jwt looks at.
IdToken == [decodes : BOOLEAN, rs256 : BOOLEAN, kid : {{}} \cup {{k} : k \in Kids},
            signed : BOOLEAN, issued : BOOLEAN, iss : BOOLEAN, aud : BOOLEAN, nonce : BOOLEAN,
            sub : BOOLEAN, email : BOOLEAN, verified : BOOLEAN]

\* What Google would answer now: whether its discovery document and key set can
\* be fetched, and the keys it publishes.
Provider == [up : BOOLEAN, keys : SUBSET Kids]

\* fresh: fetched within the lifetime Cache-Control gave it, which nobody looks at.
Caches == {NoKeys} \cup [keys : SUBSET Kids, fresh : BOOLEAN]

-----------------------------------------------------------------------------
(* POST /token                                                             *)

Responses == {"network", "5xx", "4xx", "not JSON", "no id_token", "id_token"}

ExchangeCode(response) ==
  CASE response \in {"network", "5xx"} -> "upstream"
    [] response \in {"4xx", "not JSON", "no id_token"} -> "denied"
    [] response = "id_token" -> "verify"

-----------------------------------------------------------------------------
(* verifyGoogleIdToken: the checks in their order                          *)

Check(holds, error) == [holds |-> holds, error |-> error]

Checks(t, keys) ==
  << Check(t.decodes, "malformed"), Check(t.rs256, "alg"),
     Check(t.kid # {}, "kid"), Check(t.kid \subseteq keys, "kid"),
     Check(t.signed, "signature"),
     Check(t.iss, "iss"), Check(t.aud, "aud"), Check(t.nonce, "nonce"),
     Check(t.sub, "sub"), Check(t.email, "email"),
     Check(t.verified, "email_verified") >>

VerifyGoogleIdToken(t, keys) ==
  LET failing == {i \in DOMAIN Checks(t, keys) : ~Checks(t, keys)[i].holds}
  IN  IF failing = {} THEN "ok" ELSE Checks(t, keys)[Min(failing)].error

-----------------------------------------------------------------------------
(* The key set of this process and the retry.  error "fetch" is a plain    *)
(* Error, not an IdTokenError.                                             *)

GetJwks(cache, p) ==
  IF cache # NoKeys THEN [error |-> "none", cache |-> cache]
  ELSE [error |-> IF p.up THEN "none" ELSE "fetch",
        cache |-> IF p.up THEN [keys |-> p.keys, fresh |-> TRUE] ELSE cache]

Refresh(cache, p) == GetJwks(NoKeys, p)

\* Faulty variant: an unknown key is final.
VerifyOnce(t, cache, p) ==
  LET got == GetJwks(cache, p)
  IN  IF got.error # "none" THEN got.error ELSE VerifyGoogleIdToken(t, got.cache.keys)

VerifyIdTokenWithRetry(t, cache, p) ==
  LET got   == GetJwks(cache, p)
      first == VerifyGoogleIdToken(t, got.cache.keys)
      again == Refresh(got.cache, p)
  IN  IF got.error # "none" THEN got.error
      ELSE IF first # "kid" THEN first
      ELSE IF again.error # "none" THEN again.error
      ELSE VerifyGoogleIdToken(t, again.cache.keys)

\* The error the exchange answers with: every failure but one is the token's.
Verdict(result) ==
  CASE result = "ok" -> "ok"
    [] result = "email_verified" -> "unverified"
    [] OTHER -> "invalid"

-----------------------------------------------------------------------------
(* Properties                                                              *)

\* What the code asks of a token besides a known key and a verified e-mail.
Genuine(t) == t.decodes /\ t.rs256 /\ t.signed /\ t.iss /\ t.aud /\ t.nonce /\ t.sub /\ t.email

\* The key that signed it is one this process knows or, the provider being up,
\* can learn; a key Google has retired stays known until another one is missed.
Known(t, cache, p) ==
  /\ t.kid # {}
  /\ t.kid \subseteq (IF cache = NoKeys THEN {} ELSE cache.keys)
                       \cup (IF p.up THEN p.keys ELSE {})

\* Key rotation locks nobody out: a token passes exactly when the claims that
\* the code looks at hold and its key is cached or can be fetched, and is
\* answered "e-mail not verified" exactly when that alone is wrong with it.
\* Nothing else decides, so a token of the future passes, and so does one whose
\* key is only in a set that has outlived its Cache-Control: spec 007 8.1 and 8.2
\* would refuse the first and fetch anew for the second.
ClaimsAndKeyDecide ==
  \A t \in IdToken, cache \in Caches, p \in Provider :
    Verdict(VerifyIdTokenWithRetry(t, cache, p)) =
      IF Genuine(t) /\ Known(t, cache, p)
      THEN IF t.verified THEN "ok" ELSE "unverified"
      ELSE "invalid"

=============================================================================
