------------------------------ MODULE JwtVerify ------------------------------
(***************************************************************************)
(* Tokens and their verification (src/jwt).  A token is what the checks    *)
(* look at; signatures, the parser and the claims of time are those of the *)
(* golang-jwt library.                                                     *)
(***************************************************************************)

CONSTANTS CheckAudience,  \* Options.Audience is not empty
          CheckIssuer     \* Options.Issuer is not empty

ASSUME OptionsAssumption == CheckAudience \in BOOLEAN /\ CheckIssuer \in BOOLEAN

Modes == {"hmac", "jwks"}

\* bearer: the header has the prefix, the rest is the token; signed: with the
\* key of the verifier; kid: in the cached key set or not; early: before nbf;
\* list: aud is an array that holds the audience.
Tokens == [bearer : {TRUE}, alg : {"HS", "RS"}, kid : {"known", "unknown"},
           signed : BOOLEAN, early : BOOLEAN,
           aud : {"absent", "match", "other", "list"}, iss : {"match", "other"}]

\* No Authorization header, or one of another form: the rest is not looked at.
NoToken == [bearer |-> FALSE, alg |-> "HS", kid |-> "unknown", signed |-> FALSE,
            early |-> FALSE, aud |-> "absent", iss |-> "other"]

Authorizations == Tokens \cup {NoToken}

HasBearer(auth) == auth.bearer

\* The key function of the HMAC verifier: the secret, for HMAC methods only.
HmacKeyFound(t) == t.alg = "HS"

\* That of the JWKS verifier: an RSA key of the cached set for a known kid,
\* whatever the method.
JwksKeyFound(t) == t.kid = "known"

KeyFound(mode, t) == IF mode = "hmac" THEN HmacKeyFound(t) ELSE JwksKeyFound(t)

\* The library: the method has to fit the type of the key.
SignatureHolds(mode, t) ==
  /\ t.signed
  /\ t.alg = IF mode = "hmac" THEN "HS" ELSE "RS"

\* jwt.Parse: key, signature and the claims of time; any failure is the same
\* error for parseAndValidate.
Parses(mode, t, expired) ==
  KeyFound(mode, t) /\ SignatureHolds(mode, t) /\ ~t.early /\ ~expired

\* The audience as a string: an array is not one and reads as "".
AudienceOk(t) == CheckAudience => t.aud = "match"

IssuerOk(t) == CheckIssuer => t.iss = "match"

\* Mutant: only one of the two is compared.
ClaimsErrorNoIssuer(t, expired) ==
  CASE expired                 -> "expired"
    [] ~expired /\ ~AudienceOk(t) -> "audience"
    [] OTHER                   -> "none"

\* parseAndValidate after jwt.Parse: the clock is read a second time.
ClaimsError(t, expired) ==
  CASE expired                                      -> "expired"
    [] ~expired /\ ~AudienceOk(t)                   -> "audience"
    [] ~expired /\ AudienceOk(t) /\ ~IssuerOk(t)    -> "issuer"
    [] OTHER                                        -> "none"

\* Reference: a token that is good for this service by the standard.
Genuine(mode, t) ==
  /\ t.signed /\ t.alg = (IF mode = "hmac" THEN "HS" ELSE "RS") /\ ~t.early
  /\ mode = "jwks" => t.kid = "known"
  /\ CheckAudience => t.aud \in {"match", "list"}
  /\ CheckIssuer => t.iss = "match"
=============================================================================
