-------------------------------- MODULE Auth --------------------------------
(***************************************************************************)
(* Who may call a tool, and as whom (auth.go, jwt.go). An authenticator is  *)
(* [enabled, named, tokens, jwt, issuer, audience, scopes, claim]: the      *)
(* switch, the named tokens in their order, the plain ones, and whether     *)
(* JWTs are accepted, from which issuer and for which audience (empty if    *)
(* from any and for any), with which scopes, and which claim names the      *)
(* caller. A verdict is [ok, identity].                                     *)
(*                                                                          *)
(* A token is a value; Claims tells what is inside of those that have the   *)
(* two dots of a JWT: whether the library accepts the signature and date,   *)
(* issuer and audiences, the scopes it grants and the claims it makes.      *)
(***************************************************************************)
EXTENDS Integers, Sequences

CONSTANTS
    Claims,      \* token with two dots -> [genuine, iss, aud, scopes, says]
    NoToken,     \* the empty token
    Anonymous    \* created_by is null

Admitted(identity) == [ok |-> TRUE, identity |-> identity]
Unauthorized == [ok |-> FALSE, identity |-> Anonymous]

\* The parser's options: signature and date, then issuer and audience if configured.
ParserAccepts(a, token) ==
    /\ Claims[token].genuine
    /\ a.issuer \subseteq {Claims[token].iss}
    /\ a.audience \subseteq Claims[token].aud

\* Mutant: the scopes are not checked.
AnyScope(a, token) == a.jwt /\ token \in DOMAIN Claims /\ ParserAccepts(a, token)

\* JWTValidator.Validate accepts the token.
JWTAccepts(a, token) ==
    /\ a.jwt /\ token \in DOMAIN Claims
    /\ ParserAccepts(a, token)
    /\ a.scopes \subseteq Claims[token].scopes

\* The identity claim; a token without it is anonymous.
ClaimedIdentity(a, token) ==
    LET says == Claims[token].says
    IN  IF a.claim \in DOMAIN says THEN says[a.claim] ELSE Anonymous

\* Named tokens are asked before plain ones, the first match counts.
StaticVerdict(a, token) ==
    LET hits == {i \in DOMAIN a.named : a.named[i].token = token}
    IN  IF hits # {}
        THEN Admitted(a.named[CHOOSE i \in hits : \A j \in hits : i <= j].name)
        ELSE IF \E i \in DOMAIN a.tokens : a.tokens[i] = token
        THEN Admitted(Anonymous) ELSE Unauthorized

\* A JWT that is refused may still be a static token.
ValidateToken(a, token) ==
    IF ~a.enabled THEN Admitted(Anonymous)
    ELSE IF token = NoToken THEN Unauthorized
    ELSE IF JWTAccepts(a, token) THEN Admitted(ClaimedIdentity(a, token))
    ELSE StaticVerdict(a, token)

\* The Authorization header: absent, "Bearer " and a token, or something else.
HTTPMiddleware(a, header) ==
    IF ~a.enabled THEN Admitted(Anonymous)
    ELSE IF header.form # "bearer" THEN Unauthorized
    ELSE ValidateToken(a, header.token)
=============================================================================
