------------------------------ MODULE Sessions ------------------------------
(***************************************************************************)
(* One authentication session: signin, refresh-token rotation with reuse   *)
(* detection, logout, and MongoDB's TTL deletion of the session document.  *)
(*                                                                         *)
(*   - internal/application/auth/refresh.go and logout.go: every call to   *)
(*     the repository is a step of its own, with the requests of other     *)
(*     tabs, devices and API instances in between;                         *)
(*   - internal/resources/mongodb/session_repository: the filters of       *)
(*     Rotate and Revoke, each one atomic update;                          *)
(*   - internal/domain/session: what a session that was read allows.       *)
(*                                                                         *)
(* Sessions are independent, so there is one.  A token stands for its own  *)
(* digest.  Every instance has its own clock, at most Skew behind; a       *)
(* request may stall for any time between two of its steps.                *)
(***************************************************************************)
EXTENDS Naturals

CONSTANTS
  Refreshes,   \* POST /v1/auth/refresh requests
  Logouts,     \* POST /v1/auth/logout requests
  Tokens,      \* the refresh tokens that can be signed
  RefreshTTL,  \* lifetime of a refresh token
  Leeway,      \* of the verification of a token's times
  Skew,        \* how far an instance's clock may be behind
  MaxTime,     \* bound on time
  NoToken, Never

Requests == Refreshes \union Logouts

ASSUME SessionsAssumption ==
  /\ Refreshes \intersect Logouts = {}
  /\ NoToken \notin Tokens
  /\ Never \notin Nat
  /\ RefreshTTL \in Nat \ {0} /\ Leeway \in Nat /\ Skew \in Nat /\ MaxTime \in Nat

VARIABLES
  now,        \* the time
  session,    \* the session document
  issued,     \* the refresh tokens signed so far
  claims,     \* claims[t]: issued-at and expiration of token t
  known,      \* the tokens that some client holds
  pc,         \* pc[q]: where Execute of request q is
  presented,  \* presented[q]: the token in q's cookie
  found,      \* found[q]: the document that FindByID returned to q
  readAt,     \* readAt[q]: q's reading of its instance's clock
  minted,     \* minted[q]: the token that refresh q signed
  answer      \* answer[q]: the outcome of q

tokenVars == <<issued, claims, known>>
requestVars == <<pc, presented, found, readAt, minted, answer>>
vars == <<now, session, tokenVars, requestVars>>

Documents ==
  [state: {"absent", "stored", "deleted"}, digest: Tokens \union {NoToken},
   createdAt: Nat, expiresAt: Nat, revokedAt: Nat \union {Never}]

\* 204 renewed (or renewed, with the reply lost), 401, 401 after a reuse, 500
\* though nothing failed; 204 for a logout that ended the session or that found
\* none, 503; and any failure of the store or of the request.
Answers ==
  {"none", "renewed", "lost", "invalid", "reused", "internal_error",
   "logged_out", "no_session", "unavailable", "failed"}

NoDocument == [state |-> "absent", digest |-> NoToken, createdAt |-> 0, expiresAt |-> 0, revokedAt |-> Never]

TypeOK ==
  /\ now \in Nat
  /\ session \in Documents
  /\ issued \subseteq Tokens
  /\ claims \in [Tokens -> [issuedAt: Nat, expiresAt: Nat]]
  /\ known \subseteq Tokens
  /\ pc \in [Requests -> {"new", "found", "rotating", "revoking", "done"}]
  /\ presented \in [Requests -> Tokens \union {NoToken}]
  /\ found \in [Requests -> Documents]
  /\ readAt \in [Requests -> Nat]
  /\ minted \in [Requests -> Tokens \union {NoToken}]
  /\ answer \in [Requests -> Answers]

Init ==
  /\ now = Skew
  /\ session = NoDocument
  /\ issued = {}
  /\ claims = [t \in Tokens |-> [issuedAt |-> 0, expiresAt |-> 0]]
  /\ known = {}
  /\ pc = [q \in Requests |-> "new"]
  /\ presented = [q \in Requests |-> NoToken]
  /\ found = [q \in Requests |-> NoDocument]
  /\ readAt = [q \in Requests |-> 0]
  /\ minted = [q \in Requests |-> NoToken]
  /\ answer = [q \in Requests |-> "none"]

-----------------------------------------------------------------------------
(* Time, tokens and documents. *)

\* What an instance's clock may show.
Readings == {c \in 0..now : now - c <= Skew}

Tick ==
  /\ now < MaxTime
  /\ now' = now + 1
  /\ UNCHANGED <<session, tokenVars, requestVars>>

\* VerifyRefreshToken, on the claims' times.
Verifies(t, c) == claims[t].issuedAt <= c + Leeway /\ c < claims[t].expiresAt + Leeway

\* Token IDs are UUIDs: no two signed tokens, and no two digests, are equal.
FreshToken == CHOOSE t \in Tokens : t \notin issued

Sign(c) ==
  /\ Tokens \ issued # {}
  /\ issued' = issued \union {FreshToken}
  /\ claims' = [claims EXCEPT ![FreshToken] = [issuedAt |-> c, expiresAt |-> c + RefreshTTL]]

Revoked(s) == s.revokedAt # Never

\* Session.EnsureActive.
Active(s, c) == ~Revoked(s) /\ c < s.expiresAt

\* session.Restore refuses a document that was revoked before it was created,
\* and with it every read of that document.
Readable(s) == Revoked(s) => s.revokedAt >= s.createdAt

\* Execute returns, and forgets what it read.
Done(q, a) ==
  /\ pc' = [pc EXCEPT ![q] = "done"]
  /\ answer' = [answer EXCEPT ![q] = a]
  /\ found' = [found EXCEPT ![q] = NoDocument]
  /\ readAt' = [readAt EXCEPT ![q] = 0]
  /\ minted' = [minted EXCEPT ![q] = NoToken]

-----------------------------------------------------------------------------
(* Signin and the TTL index. *)

\* SigninUseCase.Execute: the document is inserted; the reply may be lost, and
\* then nobody holds the token.
Signin ==
  /\ session.state = "absent"
  /\ \E c \in Readings :
       /\ Sign(c)
       /\ session' = [state |-> "stored", digest |-> FreshToken, createdAt |-> c,
                      expiresAt |-> c + RefreshTTL, revokedAt |-> Never]
  /\ known' \in {known, known \union {FreshToken}}
  /\ UNCHANGED <<now, requestVars>>

\* MongoDB deletes the document some time after expires_at.
ExpireDocument ==
  /\ session.state = "stored" /\ session.expiresAt <= now
  /\ session' = [session EXCEPT !.state = "deleted"]
  /\ UNCHANGED <<now, tokenVars, requestVars>>

-----------------------------------------------------------------------------
(* A refresh or a logout request. *)

\* The cookie's token is verified and the session is read.
Find(q) ==
  /\ pc[q] = "new"
  /\ \E t \in known, c \in Readings :
       /\ presented' = [presented EXCEPT ![q] = t]
       /\ \/ /\ ~Verifies(t, c) \/ session.state # "stored"
             /\ Done(q, IF q \in Refreshes THEN "invalid" ELSE "no_session")
          \/ /\ Verifies(t, c) /\ session.state = "stored" /\ ~Readable(session)
             /\ Done(q, IF q \in Refreshes THEN "internal_error" ELSE "unavailable")
          \/ /\ Verifies(t, c) /\ session.state = "stored" /\ Readable(session)
             /\ found' = [found EXCEPT ![q] = session]
             /\ pc' = [pc EXCEPT ![q] = "found"]
             /\ UNCHANGED <<readAt, minted, answer>>
  /\ UNCHANGED <<now, session, tokenVars>>

\* A logout takes the time and revokes whatever token it came with.
CheckLogout(q) ==
  /\ q \in Logouts /\ pc[q] = "found"
  /\ \E c \in Readings : readAt' = [readAt EXCEPT ![q] = c]
  /\ pc' = [pc EXCEPT ![q] = "revoking"]
  /\ UNCHANGED <<now, session, tokenVars, presented, found, minted, answer>>

\* A refresh takes the time and judges the session it has read: inactive, the
\* token is not the current one (reuse), or a new token is signed.
CheckRefresh(q) ==
  /\ q \in Refreshes /\ pc[q] = "found"
  /\ \E c \in Readings :
       \/ /\ ~Active(found[q], c)
          /\ Done(q, "invalid")
          /\ UNCHANGED <<issued, claims>>
       \/ /\ Active(found[q], c) /\ found[q].digest # presented[q]
          /\ readAt' = [readAt EXCEPT ![q] = c]
          /\ pc' = [pc EXCEPT ![q] = "revoking"]
          /\ UNCHANGED <<issued, claims, found, minted, answer>>
       \/ /\ Active(found[q], c) /\ found[q].digest = presented[q]
          /\ Sign(c)
          /\ readAt' = [readAt EXCEPT ![q] = c]
          /\ minted' = [minted EXCEPT ![q] = FreshToken]
          /\ pc' = [pc EXCEPT ![q] = "rotating"]
          /\ UNCHANGED <<found, answer>>
  /\ UNCHANGED <<now, session, known, presented>>

\* Mutants: the filter of Rotate without the digest, without revoked_at.
RotatableAnyDigest(q) ==
  session.state = "stored" /\ ~Revoked(session) /\ session.expiresAt > readAt[q]
RotatableRevoked(q) ==
  session.state = "stored" /\ session.digest = found[q].digest /\ session.expiresAt > readAt[q]

\* The filter of Rotate, at the time that the request read.
Rotatable(q) ==
  /\ session.state = "stored"
  /\ session.digest = found[q].digest
  /\ ~Revoked(session)
  /\ session.expiresAt > readAt[q]

\* Mutant: expires_at is not renewed with the digest.
RotateDigestOnly(q) ==
  /\ pc[q] = "rotating" /\ Rotatable(q)
  /\ session' = [session EXCEPT !.digest = minted[q]]
  /\ \/ Done(q, "renewed") /\ known' = known \union {minted[q]}
     \/ Done(q, "lost") /\ UNCHANGED known
  /\ UNCHANGED <<now, issued, claims, presented>>

\* The document takes the new digest and expiration; the reply may be lost.
Rotate(q) ==
  /\ pc[q] = "rotating" /\ Rotatable(q)
  /\ session' = [session EXCEPT !.digest = minted[q], !.expiresAt = readAt[q] + RefreshTTL]
  /\ \/ Done(q, "renewed") /\ known' = known \union {minted[q]}
     \/ Done(q, "lost") /\ UNCHANGED known
  /\ UNCHANGED <<now, issued, claims, presented>>

\* Mutant: a conflict is refused and nothing is revoked.
ConflictOnlyRefuses(q) ==
  /\ pc[q] = "rotating" /\ ~Rotatable(q)
  /\ Done(q, "reused")
  /\ UNCHANGED <<now, session, tokenVars, presented>>

\* No document matches: ErrSessionConflict, which is taken for a reuse.
RotateConflict(q) ==
  /\ pc[q] = "rotating" /\ ~Rotatable(q)
  /\ pc' = [pc EXCEPT ![q] = "revoking"]
  /\ UNCHANGED <<now, session, tokenVars, presented, found, readAt, minted, answer>>

\* Mutant: the session is revoked only if nobody rotated it in the meantime.
RevokeAsFound(q) ==
  IF session.state = "stored" /\ ~Revoked(session) /\ session.digest = found[q].digest
  THEN [session EXCEPT !.revokedAt = readAt[q]] ELSE session

\* The update of Revoke: revoked_at is set once.
RevokedBy(q) ==
  IF session.state = "stored" /\ ~Revoked(session)
  THEN [session EXCEPT !.revokedAt = readAt[q]] ELSE session

\* Revoke, then the answer.  When the document is gone (ErrSessionNotFound) a
\* logout is content, but rejectReusedToken passes the error on.
Revoke(q) ==
  /\ pc[q] = "revoking"
  /\ session' = RevokedBy(q)
  /\ Done(q, IF q \in Logouts THEN "logged_out"
             ELSE IF session.state = "stored" THEN "reused" ELSE "internal_error")
  /\ UNCHANGED <<now, tokenVars, presented>>

\* The store fails, the request is cancelled or the instance dies; an update
\* that was sent may have been applied.
Fail(q) ==
  /\ pc[q] \notin {"new", "done"}
  /\ \/ UNCHANGED session
     \/ pc[q] = "revoking" /\ session' = RevokedBy(q)
  /\ Done(q, "failed")
  /\ UNCHANGED <<now, tokenVars, presented>>

-----------------------------------------------------------------------------
RequestStep(q) ==
  \/ Find(q) \/ CheckLogout(q) \/ CheckRefresh(q)
  \/ Rotate(q) \/ RotateConflict(q) \/ Revoke(q) \/ Fail(q)

Next == Tick \/ Signin \/ ExpireDocument \/ \E q \in Requests : RequestStep(q)

Spec == Init /\ [][Next]_vars

-----------------------------------------------------------------------------
(* Safety. *)

\* A refresh token is exchanged for a new one at most once, by whichever of the
\* requests that present it at the same time, even when a reply is lost.
SingleUse ==
  \A q, r \in Refreshes :
    /\ {answer[q], answer[r]} \subseteq {"renewed", "lost"}
    /\ presented[q] = presented[r]
    => q = r

Ended == session.state = "deleted" \/ (session.state = "stored" /\ Revoked(session))

\* When a token is refused because it was used before, the session has ended
\* for whoever holds its current token too.
ReuseEndsSession == \A q \in Refreshes : answer[q] = "reused" => Ended

\* A logout that was confirmed has ended the session, whatever refreshes were
\* under way and whichever token the logout came with.
LogoutEndsSession == \A q \in Logouts : answer[q] = "logged_out" => Ended

\* Once ended, a session stays as it is until it is deleted, and no refresh,
\* however late its update, gets a new token from it.
EndedIsFinal ==
  [][Ended => /\ session' \in {session, [session EXCEPT !.state = "deleted"]}
              /\ \A q \in Refreshes :
                   answer'[q] \in {"renewed", "lost"} => answer'[q] = answer[q]]_vars

\* The document expires exactly when its current token does: the TTL index
\* never deletes a session under a token that is still good.
ExpiresWithToken ==
  session.state = "stored" =>
    /\ session.digest \in issued
    /\ session.expiresAt = claims[session.digest].expiresAt

\* docs/frontend-auth-contract.md: a refresh cookie that is expired, revoked or
\* reused is answered 401; 500 is for unexpected failures.
RefusalIs401 == \A q \in Refreshes : answer[q] # "internal_error"

=============================================================================
